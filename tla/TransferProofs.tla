--------------------------- MODULE TransferProofs ---------------------------
(***************************************************************************)
(* Proofs about file transfer, for files, windows and timeouts of any size.*)
(* The first part is about one sender and its driver (SendWindow), the     *)
(* second about both ends of a session and what outlives it (FileTransfer).*)
(***************************************************************************)
EXTENDS FileTransfer, SendWindow,
        FiniteSetTheorems, SequenceTheorems, WellFoundedInduction, TLAPS

\* what every sender satisfies, also one that sent blocks ahead of the Accept
Sound(w) ==
    /\ w \in Senders
    /\ DOMAIN w.age \subseteq w.sent
    /\ w.inFlight <= Cardinality(DOMAIN w.age)
    /\ \A q \in DOMAIN w.age : w.age[q] < BlockTimeout => w.idle <= w.age[q]

\* InFlightExact of a sender
Exact(w) ==
    /\ w.inFlight = Cardinality(DOMAIN w.age)
    /\ DOMAIN w.age = {q \in w.sent : q >= w.start}
    /\ w.inFlight <= Window

-----------------------------------------------------------------------------
(* Sets of blocks *)

\* Sets of blocks are finite.
LEMMA BlocksFinite ==
    ASSUME NEW S \in SUBSET Seqs
    PROVE  IsFiniteSet(S) /\ Cardinality(S) \in Nat
<1>1. IsFiniteSet(Seqs)
  BY FS_Interval, SlideWindowAssumption DEF Seqs
<1> QED BY <1>1, FS_Subset, FS_CardinalityType

\* Taking a subset away takes its cardinality away.
LEMMA Minus ==
    ASSUME NEW S \in SUBSET Seqs, NEW T \in SUBSET Seqs
    PROVE  Cardinality(S \ T) = Cardinality(S) - Cardinality(S \cap T)
<1>1. IsFiniteSet(S \ T) /\ IsFiniteSet(S \cap T)
      /\ Cardinality(S \ T) \in Nat /\ Cardinality(S \cap T) \in Nat
  <2>1. S \ T \in SUBSET Seqs /\ S \cap T \in SUBSET Seqs
    OBVIOUS
  <2> QED BY <2>1, BlocksFinite
<1>2. (S \ T) \cup (S \cap T) = S /\ (S \ T) \cap (S \cap T) = {}
  OBVIOUS
<1>3. Cardinality((S \ T) \cup (S \cap T)) =
        Cardinality(S \ T) + Cardinality(S \cap T) - Cardinality((S \ T) \cap (S \cap T))
  BY <1>1, FS_Union
<1>4. Cardinality({}) = 0
  BY FS_EmptySet
<1> QED BY <1>1, <1>2, <1>3, <1>4

\* Adding a disjoint set adds its cardinality.
LEMMA Joined ==
    ASSUME NEW S \in SUBSET Seqs, NEW T \in SUBSET Seqs, S \cap T = {}
    PROVE  Cardinality(S \cup T) = Cardinality(S) + Cardinality(T)
<1>1. IsFiniteSet(S) /\ IsFiniteSet(T) /\ Cardinality(S) \in Nat /\ Cardinality(T) \in Nat
  BY BlocksFinite
<1>2. Cardinality(S \cup T) = Cardinality(S) + Cardinality(T) - Cardinality({})
  BY <1>1, FS_Union
<1> QED BY <1>1, <1>2, FS_EmptySet

\* A set of blocks that is not empty has a last one.
LEMMA LastBlock ==
    ASSUME NEW S \in SUBSET Seqs, S # {}
    PROVE  \E m \in S : \A q \in S : q <= m
<1> DEFINE back == {Total - q : q \in S}
           R == OpToRel(<, Nat)
<1>1. back \subseteq Nat /\ back # {}
  BY SlideWindowAssumption DEF Seqs
<1>2. IsWellFoundedOn(R, Nat)
  BY NatLessThanWellFounded
<1>3. PICK x \in back : \A y \in back : ~(<<y, x>> \in R)
  BY <1>1, <1>2, WFMin
<1>4. \A y \in back : ~(y < x)
  BY <1>1, <1>3 DEF OpToRel
<1>5. PICK m \in S : x = Total - m
  OBVIOUS
<1>6. \A q \in S : ~(Total - q < Total - m)
  BY <1>4, <1>5
<1>7. \A q \in S : q \in Int /\ m \in Int
  BY DEF Seqs
<1> QED BY <1>5, <1>6, <1>7, SlideWindowAssumption

(* Of a set of blocks no more than k have fewer than k before them: the     *)
(* loop of fill_window stops when the window is full.                       *)
LEMMA FirstFew ==
    ASSUME NEW S \in SUBSET Seqs, NEW k \in Nat
    PROVE  Cardinality({q \in S : Cardinality({r \in S : r < q}) < k}) <= k
<1> DEFINE T == {q \in S : Cardinality({r \in S : r < q}) < k}
<1>1. T \subseteq Seqs /\ IsFiniteSet(T) /\ Cardinality(T) \in Nat
  <2>1. T \in SUBSET Seqs
    OBVIOUS
  <2> QED BY <2>1, BlocksFinite
<1>2. CASE T = {}
  <2>1. Cardinality(T) = 0
    BY <1>2, FS_EmptySet
  <2> QED BY <2>1
<1>3. CASE T # {}
  <2>1. PICK m \in T : \A q \in T : q <= m
    BY <1>1, <1>3, LastBlock
  <2> DEFINE B == {r \in S : r < m}
  <2>2. T \ {m} \subseteq B
    <3>1. \A q \in S : q \in Int
      BY DEF Seqs
    <3>2. T \subseteq S /\ m \in S
      OBVIOUS
    <3> HIDE DEF T
    <3> QED BY <2>1, <3>1, <3>2
  <2>3. IsFiniteSet(B) /\ Cardinality(B) \in Nat /\ Cardinality(B) < k
    <3>1. B \in SUBSET Seqs
      OBVIOUS
    <3> QED BY <2>1, <3>1, BlocksFinite
  <2>4. Cardinality(T \ {m}) <= Cardinality(B)
    BY <2>2, <2>3, FS_Subset
  <2>5. Cardinality(T \ {m}) = Cardinality(T) - 1
    BY <1>1, <2>1, FS_RemoveElement
  <2> QED BY <1>1, <2>3, <2>4, <2>5
<1> QED BY <1>2, <1>3

\* A map of blocks to ages, and what it is to be one.
LEMMA AgesAre ==
    /\ \A a \in Ages : DOMAIN a \subseteq Seqs /\ \A q \in DOMAIN a : a[q] \in 0 .. BlockTimeout
    /\ \A D \in SUBSET Seqs : [D -> 0 .. BlockTimeout] \subseteq Ages
BY DEF Ages

\* The parts of a sender.
LEMMA PartsOfSender ==
    ASSUME NEW w \in Senders
    PROVE  /\ w.resume \in 0 .. Total /\ w.start \in 0 .. Total /\ w.next \in 0 .. Total
           /\ w.sent \subseteq Seqs /\ w.age \in Ages /\ w.inFlight \in Nat
           /\ w.idle \in 0 .. IdleTimeout /\ w.offer \in NoOffer .. OfferTimeout
           /\ DOMAIN w.age \subseteq Seqs
           /\ \A q \in DOMAIN w.age : w.age[q] \in 0 .. BlockTimeout
BY AgesAre DEF Senders

-----------------------------------------------------------------------------
(* The methods of SlideWindowSender *)

\* A new sender, with its offer noted or not, has nothing in flight.
LEMMA NewSenderSound ==
    ASSUME NEW r \in 0 .. Total
    PROVE  Sound(NewSender(r)) /\ Exact(NewSender(r))
<1> DEFINE w == NewSender(r)
<1>1. DOMAIN w.age = {} /\ w.age \in [{} -> 0 .. BlockTimeout]
  BY DEF NewSender
<1>2. w.age \in Ages
  BY <1>1, AgesAre
<1>3. w \in Senders
  BY <1>2, SlideWindowAssumption, SendWindowAssumption DEF NewSender, Senders, NoOffer
<1>4. Cardinality(DOMAIN w.age) = 0
  BY <1>1, FS_EmptySet
<1>5. w.inFlight = 0 /\ w.sent = {}
  BY DEF NewSender
<1> QED BY <1>1, <1>3, <1>4, <1>5, SlideWindowAssumption DEF Sound, Exact

\* on_accept leaves nothing in flight.
LEMMA OnAcceptSound ==
    ASSUME NEW w, Sound(w), NEW r \in 0 .. Total
    PROVE  /\ Sound(OnAccept(w, r)) /\ OnAccept(w, r).offer = NoOffer
           /\ w.sent = {} => Exact(OnAccept(w, r))
<1> DEFINE from == Smaller(Larger(w.resume, r), Total)
           v == OnAccept(w, r)
<1>1. w \in Senders
  BY DEF Sound
<1>2. from \in 0 .. Total
  BY <1>1, PartsOfSender, SlideWindowAssumption DEF Smaller, Larger
<1> HIDE DEF from
<1>3. v = [w EXCEPT !.offer = NoOffer, !.start = from, !.next = from,
              !.sent = @ \cup 0 .. from - 1, !.age = <<>>, !.inFlight = 0]
  BY DEF OnAccept, from
<1>4. /\ v.start = from /\ v.next = from /\ v.sent = w.sent \cup 0 .. from - 1
      /\ v.age = <<>> /\ v.inFlight = 0 /\ v.offer = NoOffer
  BY <1>1, <1>3 DEF Senders
<1>5. DOMAIN v.age = {} /\ v.age \in [{} -> 0 .. BlockTimeout]
  BY <1>4
<1>6. v.age \in Ages
  BY <1>5, AgesAre
<1>7. w.sent \cup 0 .. from - 1 \in SUBSET Seqs /\ NoOffer \in NoOffer .. OfferTimeout
  BY <1>1, <1>2, PartsOfSender, SlideWindowAssumption, SendWindowAssumption DEF Seqs, NoOffer
<1>8. v \in Senders
  <2>1. PICK a \in Ages, sent \in SUBSET Seqs : a = <<>> /\ sent = w.sent \cup 0 .. from - 1
    BY <1>4, <1>6, <1>7
  <2>2. v = [w EXCEPT !.offer = NoOffer, !.start = from, !.next = from,
                      !.sent = sent, !.age = a, !.inFlight = 0]
    BY <1>3, <2>1
  <2> HIDE DEF v
  <2>3. NoOffer \in NoOffer .. OfferTimeout
    BY <1>7
  <2> QED BY <1>1, <1>2, <2>2, <2>3 DEF Senders
<1>9. Cardinality(DOMAIN v.age) = 0
  BY <1>5, FS_EmptySet
<1>10. Sound(v)
  BY <1>4, <1>5, <1>8, <1>9 DEF Sound
<1>11. ASSUME w.sent = {} PROVE Exact(v)
  <2>1. {q \in v.sent : q >= v.start} = {}
    BY <1>2, <1>4, <1>11
  <2> QED BY <1>4, <1>5, <1>9, <2>1, SlideWindowAssumption DEF Exact
<1> QED BY <1>4, <1>10, <1>11

(* Filling the window counts every new block once and does not overfill it; *)
(* what is sent now was sent at the time of the last activity (mark_sent).  *)
LEMMA FillWindowSound ==
    ASSUME NEW w, Sound(w)
    PROVE  /\ Sound(FillWindow(w))
           /\ FillWindow(w).start = w.start /\ FillWindow(w).offer = w.offer
           /\ Exact(w) => Exact(FillWindow(w))
<1> DEFINE B == Sendable(w)
           D == DOMAIN w.age
           v == FillWindow(w)
           a == [q \in D \cup B |-> IF q \in B THEN 0 ELSE w.age[q]]
           n == w.next + Cardinality({q \in B : q >= w.next})
           f == w.inFlight + Cardinality(B \ w.sent)
           i == IF B = {} THEN w.idle ELSE 0
<1>1. w \in Senders
  BY DEF Sound
<1>2. D \subseteq Seqs /\ B \subseteq Seqs /\ B \subseteq w.start .. Total - 1 /\ w.sent \subseteq Seqs
  BY <1>1, PartsOfSender DEF Sendable, ToSend, Seqs
<1>3. v = [w EXCEPT !.sent = w.sent \cup B, !.inFlight = f, !.age = a, !.next = n, !.idle = i]
  BY DEF FillWindow, MarkSent
<1>4. a \in Ages /\ DOMAIN a = D \cup B
  <2>1. a \in [D \cup B -> 0 .. BlockTimeout]
    BY <1>1, <1>2, PartsOfSender, SendWindowAssumption
  <2> QED BY <1>2, <2>1, AgesAre
<1>5. f \in Nat /\ Cardinality(B \ w.sent) \in Nat
  <2>1. B \ w.sent \in SUBSET Seqs
    BY <1>2
  <2> QED BY <1>1, <2>1, PartsOfSender, BlocksFinite
<1>6. n \in 0 .. Total
  <2> DEFINE N == {q \in B : q >= w.next}
  <2>1. w.next \in 0 .. Total /\ Total - 1 \in Int /\ w.next \in Int
    BY <1>1, PartsOfSender, SlideWindowAssumption
  <2>2. IsFiniteSet(w.next .. Total - 1) /\ Cardinality(w.next .. Total - 1) = Total - w.next
    <3>1. /\ IsFiniteSet(w.next .. Total - 1)
          /\ Cardinality(w.next .. Total - 1) = IF w.next > Total - 1 THEN 0 ELSE Total - 1 - w.next + 1
      BY <2>1, FS_Interval
    <3> QED BY <2>1, <3>1, SlideWindowAssumption
  <2>3. N \in SUBSET (w.next .. Total - 1) /\ N \in SUBSET Seqs
    <3>1. \A q \in B : q \in Int /\ q <= Total - 1 /\ q \in Seqs
      BY <1>2, SlideWindowAssumption DEF Seqs
    <3> HIDE DEF B
    <3> QED BY <2>1, <3>1
  <2>4. Cardinality(N) <= Total - w.next
    BY <2>2, <2>3, FS_Subset
  <2>5. Cardinality(N) \in Nat
    BY <2>3, BlocksFinite
  <2> QED BY <2>1, <2>4, <2>5, SlideWindowAssumption
<1>7. i \in 0 .. IdleTimeout
  BY <1>1, PartsOfSender, SendWindowAssumption
<1>8. w.sent \cup B \in SUBSET Seqs
  BY <1>2
<1> HIDE DEF B, a, n, f, i, v
<1>9. v \in Senders
  <2>1. PICK sent \in SUBSET Seqs : sent = w.sent \cup B
    BY <1>8
  <2>2. v = [w EXCEPT !.sent = sent, !.inFlight = f, !.age = a, !.next = n, !.idle = i]
    BY <1>3, <2>1
  <2>3. f \in Nat
    BY <1>5
  <2>4. a \in Ages
    BY <1>4
  <2> QED BY <1>1, <1>6, <1>7, <2>2, <2>3, <2>4 DEF Senders
<1>10. /\ v.sent = w.sent \cup B /\ v.inFlight = f /\ v.age = a /\ v.next = n /\ v.idle = i
       /\ v.start = w.start /\ v.offer = w.offer
  BY <1>1, <1>3 DEF Senders
<1>11. Cardinality(D \cup B) = Cardinality(D) + Cardinality(B \ w.sent) + Cardinality((B \cap w.sent) \ D)
       /\ Cardinality(D) \in Nat /\ Cardinality((B \cap w.sent) \ D) \in Nat
  <2> DEFINE X == B \ w.sent
             Y == (B \cap w.sent) \ D
  <2>1. D \subseteq w.sent
    BY DEF Sound
  <2>2. X \in SUBSET Seqs /\ Y \in SUBSET Seqs /\ D \in SUBSET Seqs /\ D \cup X \in SUBSET Seqs
    BY <1>2
  <2>3. D \cap X = {} /\ (D \cup X) \cap Y = {} /\ (D \cup X) \cup Y = D \cup B
    BY <2>1
  <2>4. Cardinality(D) \in Nat /\ Cardinality(X) \in Nat /\ Cardinality(Y) \in Nat
    BY <2>2, BlocksFinite
  <2>5. Cardinality(D \cup X) = Cardinality(D) + Cardinality(X)
    BY <2>2, <2>3, Joined
  <2>6. Cardinality((D \cup X) \cup Y) = Cardinality(D \cup X) + Cardinality(Y)
    BY <2>2, <2>3, Joined
  <2> QED BY <2>3, <2>4, <2>5, <2>6
<1>12. Sound(v)
  <2>1. DOMAIN v.age \subseteq v.sent
    BY <1>4, <1>10 DEF Sound
  <2>2. v.inFlight <= Cardinality(DOMAIN v.age)
    <3>1. w.inFlight <= Cardinality(D) /\ w.inFlight \in Nat
      BY <1>1, PartsOfSender DEF Sound
    <3> QED BY <1>4, <1>5, <1>10, <1>11, <3>1 DEF f
  <2>3. ASSUME NEW q \in D \cup B, a[q] < BlockTimeout PROVE i <= a[q]
    <3>1. CASE q \in B
      BY <3>1 DEF a, i
    <3>2. CASE q \notin B
      <4>1. a[q] = w.age[q] /\ q \in D /\ w.idle <= w.age[q]
        BY <2>3, <3>2 DEF a, Sound
      <4>2. w.age[q] \in Nat
        BY <4>1, <1>1, PartsOfSender
      <4> QED BY <4>1, <4>2 DEF i
    <3> QED BY <3>1, <3>2
  <2> QED BY <1>4, <1>9, <1>10, <2>1, <2>2, <2>3 DEF Sound
<1>13. ASSUME Exact(w) PROVE Exact(v)
  <2>1. D = {q \in w.sent : q >= w.start} /\ w.inFlight = Cardinality(D) /\ w.inFlight <= Window
    BY <1>13 DEF Exact
  <2>2. (B \cap w.sent) \ D = {}
    <3>1. \A q \in B : q >= w.start
      BY <1>1, <1>2, PartsOfSender
    <3> HIDE DEF D
    <3> QED BY <2>1, <3>1
  <2>3. v.inFlight = Cardinality(DOMAIN v.age)
    <3>1. Cardinality((B \cap w.sent) \ D) = 0
      BY <2>2, FS_EmptySet
    <3> QED BY <1>4, <1>5, <1>10, <1>11, <2>1, <3>1 DEF f
  <2>4. DOMAIN v.age = {q \in v.sent : q >= v.start}
    <3>1. \A q \in B : q >= w.start
      BY <1>1, <1>2, PartsOfSender
    <3> QED BY <1>4, <1>10, <2>1, <3>1
  <2>5. v.inFlight <= Window
    <3> DEFINE S == ToSend(w) \ w.sent
               k == Window - w.inFlight
    <3>1. k \in Nat /\ w.inFlight \in Nat
      BY <1>1, <2>1, PartsOfSender, SlideWindowAssumption
    <3>2. S \in SUBSET Seqs
      BY <1>1, PartsOfSender DEF ToSend, Seqs
    <3>3. B \ w.sent = {q \in S : Cardinality({r \in S : r < q}) < k}
      BY DEF B, Sendable
    <3> HIDE DEF S, k
    <3>4. Cardinality(B \ w.sent) <= k
      BY <3>1, <3>2, <3>3, FirstFew
    <3> QED BY <1>5, <1>10, <3>1, <3>4, SlideWindowAssumption DEF f, k
  <2> QED BY <2>3, <2>4, <2>5 DEF Exact
<1> QED BY <1>10, <1>12, <1>13 DEF v

(* What the three ways to take blocks out of flight have in common: a set of *)
(* blocks loses its send times, and the counter what it held of them.        *)
LEMMA TakenOut ==
    ASSUME NEW w, Sound(w), NEW X \in SUBSET Seqs,
           NEW c \in Nat, c = Cardinality(DOMAIN w.age \cap X)
    PROVE  LET a == [q \in DOMAIN w.age \ X |-> w.age[q]]
               f == Larger(0, w.inFlight - c)
           IN  /\ a \in Ages /\ DOMAIN a = DOMAIN w.age \ X
               /\ f \in Nat /\ f <= Cardinality(DOMAIN a)
               /\ w.inFlight = Cardinality(DOMAIN w.age)
                     => f = Cardinality(DOMAIN a) /\ f <= w.inFlight
<1> DEFINE D == DOMAIN w.age
           a == [q \in D \ X |-> w.age[q]]
           f == Larger(0, w.inFlight - c)
<1>1. w \in Senders /\ w.inFlight <= Cardinality(D)
  BY DEF Sound
<1>2. w.inFlight \in Nat /\ D \in SUBSET Seqs /\ \A q \in D : w.age[q] \in 0 .. BlockTimeout
  BY <1>1, PartsOfSender
<1>3. a \in [D \ X -> 0 .. BlockTimeout] /\ D \ X \in SUBSET Seqs /\ DOMAIN a = D \ X
  BY <1>2
<1>4. a \in Ages
  BY <1>3, AgesAre
<1>5. Cardinality(D \ X) = Cardinality(D) - c
  BY <1>2, Minus
<1>6. Cardinality(D \ X) \in Nat /\ Cardinality(D) \in Nat
  BY <1>2, <1>3, BlocksFinite
<1>7. f \in Nat /\ f <= Cardinality(D \ X)
      /\ (w.inFlight = Cardinality(D) => f = Cardinality(D \ X) /\ f <= w.inFlight)
  BY <1>1, <1>2, <1>5, <1>6 DEF Larger
<1> QED BY <1>3, <1>4, <1>7

(* A cumulative ack gives back the places of the blocks it covers that are   *)
(* still in flight (on_ack).                                                 *)
LEMMA OnAckSound ==
    ASSUME NEW w, Sound(w), NEW seq \in Seqs
    PROVE  /\ Sound(OnAck(w, seq))
           /\ OnAck(w, seq).start >= w.start /\ OnAck(w, seq).offer = w.offer
           /\ Exact(w) => Exact(OnAck(w, seq))
<1> DEFINE upTo == Smaller(seq + 1, Total)
           newly == w.start .. upTo - 1
           D == DOMAIN w.age
           v == OnAck(w, seq)
           a == [q \in D \ newly |-> w.age[q]]
           f == Larger(0, w.inFlight - Cardinality(newly \cap D))
<1>1. w \in Senders /\ w.start \in 0 .. Total /\ D \subseteq w.sent /\ w.sent \subseteq Seqs
  BY PartsOfSender DEF Sound
<1>2. upTo \in 0 .. Total
  BY SlideWindowAssumption DEF Smaller, Seqs
<1> HIDE DEF upTo
<1>3. CASE upTo <= w.start
  <2>1. v = w
    BY <1>3 DEF OnAck, upTo
  <2> QED BY <1>1, <2>1
<1>4. CASE ~(upTo <= w.start)
  <2>1. v = [w EXCEPT !.start = upTo, !.inFlight = f, !.age = a, !.idle = 0]
    BY <1>4 DEF OnAck, upTo
  <2>2. newly \in SUBSET Seqs
    BY <1>1, <1>2, SlideWindowAssumption DEF Seqs
  <2>3. newly \cap D = D \cap newly /\ Cardinality(D \cap newly) \in Nat
    <3>1. D \cap newly \in SUBSET Seqs
      BY <2>2
    <3> QED BY <3>1, BlocksFinite
  <2> HIDE DEF newly
  <2>4. /\ a \in Ages /\ DOMAIN a = D \ newly /\ f \in Nat /\ f <= Cardinality(DOMAIN a)
        /\ w.inFlight = Cardinality(D) => f = Cardinality(DOMAIN a) /\ f <= w.inFlight
    BY <2>2, <2>3, TakenOut
  <2> HIDE DEF a, f, v
  <2>5. v \in Senders /\ v.start = upTo /\ v.inFlight = f /\ v.age = a /\ v.idle = 0
        /\ v.sent = w.sent /\ v.offer = w.offer
    <3>1. f \in Nat /\ a \in Ages /\ 0 \in 0 .. IdleTimeout
      BY <2>4, SendWindowAssumption
    <3>2. w \in Senders
      BY <1>1
    <3>3. v \in Senders
      BY <1>2, <2>1, <3>1, <3>2 DEF Senders
    <3> QED BY <2>1, <3>2, <3>3 DEF Senders
  <2>6. Sound(v)
    <3>1. \A q \in DOMAIN a : a[q] \in Nat
      BY <2>4, AgesAre
    <3> QED BY <1>1, <2>4, <2>5, <3>1 DEF Sound
  <2>7. ASSUME Exact(w) PROVE Exact(v)
    <3>1. D = {q \in w.sent : q >= w.start} /\ w.inFlight = Cardinality(D) /\ w.inFlight <= Window
      BY <2>7 DEF Exact
    <3>2. D \ newly = {q \in w.sent : q >= upTo}
      <4>1. \A q \in w.sent : q \in Int
        BY <1>1 DEF Seqs
      <4> HIDE DEF D
      <4> QED BY <1>1, <1>2, <1>4, <3>1, <4>1 DEF newly
    <3>3. w.inFlight \in Nat
      BY <1>1, PartsOfSender
    <3> QED BY <2>4, <2>5, <3>1, <3>2, <3>3, SlideWindowAssumption DEF Exact
  <2>8. v.start >= w.start
    BY <1>1, <1>2, <1>4, <2>5
  <2> QED BY <2>5, <2>6, <2>7, <2>8 DEF v
<1> QED BY <1>3, <1>4

(* A nack gives the place of its block back (on_nack).                       *)
LEMMA OnNackSound ==
    ASSUME NEW w, Sound(w), NEW seq \in Seqs, seq >= w.start
    PROVE  /\ Sound(OnNack(w, seq))
           /\ OnNack(w, seq).start = w.start /\ OnNack(w, seq).offer = w.offer
           /\ Exact(w) => Exact(OnNack(w, seq))
<1> DEFINE D == DOMAIN w.age
           v == OnNack(w, seq)
           a == [q \in D \ {seq} |-> w.age[q]]
           f == IF seq \in w.sent THEN Larger(0, w.inFlight - 1) ELSE w.inFlight
           c == Cardinality(D \cap {seq})
           g == Larger(0, w.inFlight - c)
<1>1. w \in Senders /\ D \subseteq w.sent /\ w.sent \subseteq Seqs /\ w.inFlight \in Nat
  BY PartsOfSender DEF Sound
<1>2. c = (IF seq \in D THEN 1 ELSE 0) /\ c \in Nat
  <2>1. CASE seq \in D
    <3>1. D \cap {seq} = {seq}
      BY <2>1
    <3>2. Cardinality({seq}) = 1
      BY FS_Singleton
    <3> QED BY <2>1, <3>1, <3>2
  <2>2. CASE seq \notin D
    <3>1. D \cap {seq} = {}
      BY <2>2
    <3> QED BY <2>2, <3>1, FS_EmptySet
  <2> QED BY <2>1, <2>2
<1>3. /\ a \in Ages /\ DOMAIN a = D \ {seq} /\ g \in Nat /\ g <= Cardinality(DOMAIN a)
      /\ w.inFlight = Cardinality(D) => g = Cardinality(DOMAIN a) /\ g <= w.inFlight
  <2>1. {seq} \in SUBSET Seqs /\ c = Cardinality(D \cap {seq})
    OBVIOUS
  <2> HIDE DEF c
  <2> QED BY <1>2, <2>1, TakenOut
<1>4. f \in Nat /\ f <= g /\ (seq \in D \/ seq \notin w.sent => f = g)
  BY <1>1, <1>2 DEF Larger
<1>5. v = [w EXCEPT !.sent = w.sent \ {seq}, !.inFlight = f, !.age = a, !.idle = 0]
  BY DEF OnNack
<1> HIDE DEF a, f, g, c, v
<1>6. v \in Senders /\ v.start = w.start /\ v.inFlight = f /\ v.age = a /\ v.idle = 0
      /\ v.sent = w.sent \ {seq} /\ v.offer = w.offer
  <2>1. PICK sent \in SUBSET Seqs : sent = w.sent \ {seq}
    BY <1>1
  <2>2. v = [w EXCEPT !.sent = sent, !.inFlight = f, !.age = a, !.idle = 0]
    BY <1>5, <2>1
  <2>3. f \in Nat /\ a \in Ages /\ 0 \in 0 .. IdleTimeout
    BY <1>3, <1>4, SendWindowAssumption
  <2>4. v \in Senders
    BY <1>1, <2>2, <2>3 DEF Senders
  <2> QED BY <1>1, <2>1, <2>2, <2>4 DEF Senders
<1>7. Sound(v)
  <2>1. \A q \in DOMAIN a : a[q] \in Nat
    BY <1>3, AgesAre
  <2>2. Cardinality(DOMAIN a) \in Nat
    BY <1>1, <1>3, BlocksFinite
  <2>3. f <= Cardinality(DOMAIN a)
    BY <1>3, <1>4, <2>2
  <2> QED BY <1>1, <1>3, <1>6, <2>1, <2>3 DEF Sound
<1>8. ASSUME Exact(w) PROVE Exact(v)
  <2>1. D = {q \in w.sent : q >= w.start} /\ w.inFlight = Cardinality(D) /\ w.inFlight <= Window
    BY <1>8 DEF Exact
  <2>2. f = g
    BY <1>4, <2>1
  <2>3. D \ {seq} = {q \in w.sent \ {seq} : q >= w.start}
    BY <2>1
  <2> QED BY <1>1, <1>3, <1>4, <1>6, <2>1, <2>2, <2>3, SlideWindowAssumption DEF Exact
<1> QED BY <1>6, <1>7, <1>8 DEF v

(* A tick later, with the blocks that are due taken out of flight, a sender  *)
(* that still has blocks in flight was active less than BLOCK_TIMEOUT ago    *)
(* (retransmit_due, before idle_timed_out is asked).                         *)
LEMMA TickSound ==
    ASSUME NEW w, Sound(w)
    PROVE  /\ Sound(Aged(w)) /\ Aged(w).start = w.start /\ Aged(w).sent = w.sent
           /\ Exact(w) => Exact(Aged(w))
           /\ Aged(w).offer = NoOffer <=> w.offer = NoOffer
           /\ \A q \in DOMAIN Aged(w).age :
                Aged(w).age[q] < BlockTimeout => Aged(w).idle < BlockTimeout
<1> DEFINE D == DOMAIN w.age
           v == Aged(w)
           a == [q \in D |-> Older(w.age[q], BlockTimeout)]
           i == Older(w.idle, IdleTimeout)
           o == IF w.offer = NoOffer THEN w.offer ELSE Older(w.offer, OfferTimeout)
<1>1. w \in Senders
  BY DEF Sound
<1>2. /\ D \in SUBSET Seqs /\ \A q \in D : w.age[q] \in 0 .. BlockTimeout
      /\ w.idle \in 0 .. IdleTimeout /\ w.offer \in NoOffer .. OfferTimeout
  BY <1>1, PartsOfSender
<1>3. a \in [D -> 0 .. BlockTimeout] /\ DOMAIN a = D
  BY <1>2, SendWindowAssumption DEF Older
<1>4. a \in Ages
  BY <1>2, <1>3, AgesAre
<1>5. i \in 0 .. IdleTimeout /\ o \in NoOffer .. OfferTimeout /\ (o = NoOffer <=> w.offer = NoOffer)
  BY <1>2, SendWindowAssumption DEF Older, NoOffer
<1>6. v = [w EXCEPT !.age = a, !.idle = i, !.offer = o]
  BY DEF Aged
<1>7. ASSUME NEW q \in D, a[q] < BlockTimeout PROVE i <= a[q]
  <2>1. a[q] = w.age[q] + 1 /\ w.age[q] < BlockTimeout
    BY <1>2, <1>7, SendWindowAssumption DEF Older
  <2>2. w.idle <= w.age[q]
    BY <2>1 DEF Sound
  <2>3. i <= w.idle + 1 /\ i \in Nat
    BY <1>2, SendWindowAssumption DEF Older
  <2> QED BY <1>2, <2>1, <2>2, <2>3
<1> HIDE DEF a, i, o, v
<1>8. v \in Senders
  BY <1>1, <1>4, <1>5, <1>6 DEF Senders
<1>9. /\ v.age = a /\ v.idle = i /\ v.offer = o /\ v.start = w.start /\ v.sent = w.sent
      /\ v.inFlight = w.inFlight
  BY <1>1, <1>6 DEF Senders
<1>10. Sound(v)
  BY <1>3, <1>7, <1>8, <1>9 DEF Sound
<1>11. Exact(w) => Exact(v)
  BY <1>3, <1>9 DEF Exact
<1>12. \A q \in DOMAIN v.age : v.age[q] < BlockTimeout => v.idle < BlockTimeout
  BY <1>2, <1>3, <1>5, <1>7, <1>9, SendWindowAssumption
<1> QED BY <1>5, <1>9, <1>10, <1>11, <1>12 DEF v

(* retransmit_due takes what is due out of flight; what is left in flight    *)
(* has not timed out.                                                        *)
LEMMA RetransmitSound ==
    ASSUME NEW w, Sound(w)
    PROVE  LET v == RetransmitDue(w, Due(w)) IN
           /\ Sound(v) /\ v.start = w.start /\ v.idle = w.idle /\ v.offer = w.offer
           /\ v.sent \subseteq w.sent
           /\ Exact(w) => Exact(v)
           /\ v.inFlight > 0 => \E q \in DOMAIN w.age : w.age[q] < BlockTimeout
<1> DEFINE D == DOMAIN w.age
           X == Due(w)
           v == RetransmitDue(w, X)
           a == [q \in D \ X |-> w.age[q]]
           f == Larger(0, w.inFlight - Cardinality(X \cap w.sent))
<1>1. w \in Senders /\ D \subseteq w.sent /\ w.sent \subseteq Seqs /\ w.inFlight \in Nat
      /\ \A q \in D : w.age[q] \in 0 .. BlockTimeout
  BY PartsOfSender DEF Sound
<1>2. X \subseteq D /\ \A q \in D \ X : w.age[q] < BlockTimeout
  BY <1>1, SendWindowAssumption DEF Due
<1>3. v = [w EXCEPT !.sent = w.sent \ X, !.inFlight = f, !.age = a]
  BY DEF RetransmitDue
<1> HIDE DEF X
<1>4. X \cap w.sent = D \cap X /\ X \in SUBSET Seqs /\ Cardinality(D \cap X) \in Nat
  <2>1. D \cap X \in SUBSET Seqs
    BY <1>1
  <2> QED BY <1>1, <1>2, <2>1, BlocksFinite
<1>5. /\ a \in Ages /\ DOMAIN a = D \ X /\ f \in Nat /\ f <= Cardinality(DOMAIN a)
      /\ w.inFlight = Cardinality(D) => f = Cardinality(DOMAIN a) /\ f <= w.inFlight
  BY <1>4, TakenOut
<1>6. \A q \in D \ X : a[q] = w.age[q]
  OBVIOUS
<1> HIDE DEF a, f, v
<1>7. v \in Senders
  <2>1. PICK sent \in SUBSET Seqs : sent = w.sent \ X
    BY <1>1
  <2>2. v = [w EXCEPT !.sent = sent, !.inFlight = f, !.age = a]
    BY <1>3, <2>1
  <2>3. f \in Nat /\ a \in Ages /\ w \in Senders
    BY <1>1, <1>5
  <2> QED BY <2>2, <2>3 DEF Senders
<1>8. /\ v.age = a /\ v.idle = w.idle /\ v.offer = w.offer /\ v.start = w.start
      /\ v.sent = w.sent \ X /\ v.inFlight = f
  BY <1>1, <1>3 DEF Senders
<1>9. Sound(v)
  BY <1>1, <1>5, <1>6, <1>7, <1>8 DEF Sound
<1>10. ASSUME Exact(w) PROVE Exact(v)
  <2>1. D = {q \in w.sent : q >= w.start} /\ w.inFlight = Cardinality(D) /\ w.inFlight <= Window
    BY <1>10 DEF Exact
  <2>2. D \ X = {q \in w.sent \ X : q >= w.start}
    BY <2>1
  <2> QED BY <1>1, <1>5, <1>8, <2>1, <2>2, SlideWindowAssumption DEF Exact
<1>11. ASSUME v.inFlight > 0 PROVE \E q \in D : w.age[q] < BlockTimeout
  <2>1. Cardinality(D \ X) # 0
    BY <1>5, <1>8, <1>11
  <2>2. D \ X # {}
    BY <2>1, FS_EmptySet
  <2> QED BY <1>2, <2>2
<1> QED BY <1>8, <1>9, <1>10, <1>11 DEF v, X

-----------------------------------------------------------------------------
(* The driver *)

(* Before the Accept nothing is acknowledged and, unless blocks were sent    *)
(* early, nothing is marked as sent; after it no offer is waiting.           *)
WindowInv ==
    /\ WindowTypeOK /\ Sound(s) /\ FinishMeansAllAcked
    /\ ~early => Exact(s)
    /\ phase \in {"queued", "offered"} => s.start = 0
    /\ ~early /\ phase \in {"queued", "offered"} => s.sent = {}
    /\ phase = "accepted" => s.offer = NoOffer

\* A task that has just been created satisfies the invariant.
LEMMA WindowInitKeeps == WindowInit => WindowInv
<1> SUFFICES ASSUME WindowInit PROVE WindowInv
  OBVIOUS
<1>1. PICK r \in Resumes : s = NewSender(r)
  BY DEF WindowInit
<1>2. r \in 0 .. Total
  BY SendWindowAssumption
<1>3. Sound(s) /\ Exact(s)
  BY <1>1, <1>2, NewSenderSound
<1>4. s.start = 0 /\ s.sent = {}
  BY <1>1 DEF NewSender
<1>5. WindowTypeOK
  <2>1. s \in Senders
    BY <1>3 DEF Sound
  <2>2. driver \in {"desktop", "mobile"} /\ phase = "queued" /\ paused = FALSE /\ finish = FALSE
        /\ early = FALSE
    BY DEF WindowInit
  <2> QED BY <2>1, <2>2 DEF WindowTypeOK
<1>6. FinishMeansAllAcked
  BY DEF WindowInit, FinishMeansAllAcked
<1> QED BY <1>3, <1>4, <1>5, <1>6 DEF WindowInit, WindowInv

\* Filling the window of a task that may be paused.
LEMMA FillSound ==
    ASSUME NEW w, Sound(w)
    PROVE  /\ Sound(FillUnlessPaused(w)) /\ FillUnlessPaused(w).start = w.start /\ FillUnlessPaused(w).offer = w.offer
           /\ Exact(w) => Exact(FillUnlessPaused(w))
BY FillWindowSound DEF FillUnlessPaused

\* The invariant of an accepted task whose sender went from one sound state to another.
LEMMA AcceptedKeeps ==
    ASSUME WindowInv, phase' = "accepted", Sound(s)', s'.offer = NoOffer,
           ~early => Exact(s)', UNCHANGED <<driver, paused, early>>,
           finish' \in BOOLEAN,
           finish' <=> AllAcked(s)'
    PROVE  WindowInv'
<1>1. WindowTypeOK'
  BY DEF WindowInv, WindowTypeOK, Sound
<1>2. FinishMeansAllAcked'
  BY DEF FinishMeansAllAcked
<1> QED BY <1>1, <1>2 DEF WindowInv

\* The answers of the peer keep the invariant.
LEMMA PeerKeeps ==
    ASSUME WindowInv,
           \/ \E r \in Resumes : RecvAccept(r)
           \/ \E q \in Seqs : RecvAck(q) \/ RecvNack(q)
    PROVE  WindowInv'
<1>1. /\ Sound(s) /\ finish \in BOOLEAN
      /\ s \in Senders /\ s.start \in 0 .. Total
  BY PartsOfSender DEF WindowInv, WindowTypeOK, Sound
<1>3. CASE \E r \in Resumes : RecvAccept(r)
  <2>1. PICK r \in Resumes : RecvAccept(r)
    BY <1>3
  <2> DEFINE t == OnAccept(s, r)
  <2>2. r \in 0 .. Total
    BY SendWindowAssumption
  <2>3. Sound(t) /\ t.offer = NoOffer /\ (~early => Exact(t))
    BY <2>1, <2>2, <1>1, OnAcceptSound DEF WindowInv, RecvAccept
  <2>4. ~finish
    BY <2>1, SlideWindowAssumption DEF WindowInv, FinishMeansAllAcked, RecvAccept, AllAcked
  <2> HIDE DEF t
  <2>5. CASE AllAcked(t)
    <3>1. s' = t /\ finish' = TRUE
      BY <2>1, <2>5 DEF RecvAccept, t
    <3> QED BY <2>1, <2>3, <2>5, <3>1, AcceptedKeeps DEF RecvAccept
  <2>6. CASE ~AllAcked(t)
    <3>1. s' = FillUnlessPaused(t) /\ finish' = finish
      BY <2>1, <2>6 DEF RecvAccept, t
    <3>2. Sound(FillUnlessPaused(t)) /\ FillUnlessPaused(t).start = t.start /\ FillUnlessPaused(t).offer = t.offer /\ (Exact(t) => Exact(FillUnlessPaused(t)))
      BY <2>3, FillSound
    <3>3. ~AllAcked(s)'
      BY <3>1, <3>2, <2>6 DEF AllAcked
    <3> QED BY <2>1, <2>3, <2>4, <3>1, <3>2, <3>3, <1>1, AcceptedKeeps DEF RecvAccept
  <2> QED BY <2>5, <2>6
<1>4. CASE \E q \in Seqs : RecvAck(q)
  <2>1. PICK q \in Seqs : RecvAck(q)
    BY <1>4
  <2> DEFINE t == OnAck(s, q)
  <2>2. Sound(t) /\ t.start >= s.start /\ t.offer = s.offer /\ (Exact(s) => Exact(t))
    BY <1>1, OnAckSound
  <2>3. /\ phase = "accepted" /\ phase' = phase /\ s' = FillUnlessPaused(t)
        /\ finish' = (finish \/ (AllAcked(t) /\ ~AllAcked(s)))
        /\ UNCHANGED <<driver, paused, early>>
    BY <2>1 DEF RecvAck
  <2> HIDE DEF t
  <2>4. Sound(FillUnlessPaused(t)) /\ FillUnlessPaused(t).start = t.start /\ FillUnlessPaused(t).offer = t.offer /\ (Exact(t) => Exact(FillUnlessPaused(t)))
    BY <2>2, FillSound
  <2>5. t.start \in 0 .. Total
    BY <2>2, PartsOfSender DEF Sound
  <2>6. finish <=> AllAcked(s)
    BY <2>3 DEF WindowInv, FinishMeansAllAcked
  <2>7. AllAcked(s)' <=> AllAcked(t)
    BY <2>3, <2>4 DEF AllAcked
  <2>8. AllAcked(s) => AllAcked(t)
    BY <1>1, <2>2, <2>5, SlideWindowAssumption DEF AllAcked
  <2>9. finish' <=> AllAcked(s)'
    BY <2>3, <2>6, <2>7, <2>8
  <2>10. finish' \in BOOLEAN
    BY <2>3, <1>1 DEF AllAcked
  <2>12. s'.offer = NoOffer /\ (~early => Exact(s)')
    BY <2>2, <2>3, <2>4 DEF WindowInv
  <2> QED BY <2>3, <2>4, <2>9, <2>10, <2>12, AcceptedKeeps
<1>5. CASE \E q \in Seqs : RecvNack(q)
  <2>1. PICK q \in Seqs : RecvNack(q)
    BY <1>5
  <2> DEFINE t == OnNack(s, q)
  <2>2. q >= s.start
    BY <1>1, <2>1, PartsOfSender DEF RecvNack
  <2>3. Sound(t) /\ t.start = s.start /\ t.offer = s.offer /\ (Exact(s) => Exact(t))
    BY <1>1, <2>2, OnNackSound
  <2>4. /\ phase = "accepted" /\ phase' = phase /\ s' = FillUnlessPaused(t)
        /\ finish' = finish
        /\ UNCHANGED <<driver, paused, early>>
    BY <2>1 DEF RecvNack
  <2> HIDE DEF t
  <2>5. Sound(FillUnlessPaused(t)) /\ FillUnlessPaused(t).start = t.start /\ FillUnlessPaused(t).offer = t.offer /\ (Exact(t) => Exact(FillUnlessPaused(t)))
    BY <2>3, FillSound
  <2>6. finish' <=> AllAcked(s)'
    BY <2>3, <2>4, <2>5 DEF WindowInv, FinishMeansAllAcked, AllAcked
  <2>7. s'.offer = NoOffer /\ (~early => Exact(s)')
    BY <2>3, <2>4, <2>5 DEF WindowInv
  <2> QED BY <2>4, <2>5, <2>6, <2>7, <1>1, AcceptedKeeps
<1> QED BY <1>3, <1>4, <1>5

\* The commands of the user and the other frames keep the invariant.
LEMMA CommandsKeep ==
    ASSUME WindowInv, SendOffer \/ Pause \/ Resume \/ Stop \/ RecvFinishAck
    PROVE  WindowInv'
<1>1. Sound(s) /\ s \in Senders /\ WindowTypeOK
  BY DEF WindowInv, Sound
<1>2. CASE SendOffer
  <2>1. CASE driver = "desktop"
    <3>1. s' = [s EXCEPT !.offer = 0]
      BY <1>2, <2>1 DEF SendOffer, MarkOfferSent
    <3>2. 0 \in NoOffer .. OfferTimeout
      BY SendWindowAssumption DEF NoOffer
    <3>3. s' \in Senders
      BY <1>1, <3>1, <3>2 DEF Senders
    <3>4. s'.start = s.start /\ s'.sent = s.sent /\ s'.age = s.age /\ s'.inFlight = s.inFlight /\ s'.idle = s.idle
      BY <1>1, <3>1 DEF Senders
    <3>5. Sound(s)' /\ (Exact(s) => Exact(s)')
      BY <1>1, <3>3, <3>4 DEF Sound, Exact
    <3>6. WindowTypeOK'
      BY <1>1, <1>2, <3>3 DEF WindowTypeOK, SendOffer
    <3>7. FinishMeansAllAcked'
      BY <1>2, <3>4, SlideWindowAssumption DEF WindowInv, FinishMeansAllAcked, AllAcked, SendOffer
    <3> QED BY <1>2, <3>4, <3>5, <3>6, <3>7 DEF WindowInv, SendOffer
  <2>2. CASE driver # "desktop"
    <3>1. s' = s
      BY <1>2, <2>2 DEF SendOffer
    <3>2. WindowTypeOK'
      BY <1>1, <1>2, <3>1 DEF WindowTypeOK, SendOffer
    <3>3. FinishMeansAllAcked'
      BY <1>2, <3>1, SlideWindowAssumption DEF WindowInv, FinishMeansAllAcked, AllAcked, SendOffer
    <3> QED BY <1>2, <3>1, <3>2, <3>3 DEF WindowInv, SendOffer
  <2> QED BY <2>1, <2>2
<1>3. CASE Resume
  <2>1. s' = [s EXCEPT !.idle = 0] /\ 0 \in 0 .. IdleTimeout /\ 0 \in 0 .. IdleTimeout + 1
    BY <1>3, SendWindowAssumption DEF Resume
  <2>2. s' \in Senders
    BY <1>1, <2>1 DEF Senders
  <2>3. s'.start = s.start /\ s'.sent = s.sent /\ s'.age = s.age /\ s'.inFlight = s.inFlight
        /\ s'.idle = 0 /\ s'.offer = s.offer
    BY <1>1, <2>1 DEF Senders
  <2>4. Sound(s)' /\ (Exact(s) => Exact(s)')
    <3>1. \A q \in DOMAIN s.age : s.age[q] \in 0 .. BlockTimeout
      BY <1>1, PartsOfSender
    <3> QED BY <1>1, <2>2, <2>3, <3>1 DEF Sound, Exact
  <2>5. WindowTypeOK'
    BY <1>1, <1>3, <2>1, <2>2 DEF WindowTypeOK, Resume
  <2>6. FinishMeansAllAcked'
    BY <1>3, <2>3 DEF WindowInv, FinishMeansAllAcked, AllAcked, Resume
  <2> QED BY <1>3, <2>3, <2>4, <2>5, <2>6 DEF WindowInv, Resume
<1>4. CASE Pause \/ Stop \/ RecvFinishAck
  <2>1. UNCHANGED <<driver, s, finish, early>>
    BY <1>4 DEF Pause, Stop, RecvFinishAck
  <2>2. WindowTypeOK'
    BY <1>1, <1>4, <2>1 DEF WindowTypeOK, Pause, Stop, RecvFinishAck
  <2>3. FinishMeansAllAcked'
    BY <1>4, <2>1, SlideWindowAssumption DEF WindowInv, FinishMeansAllAcked, AllAcked, Pause, Stop, RecvFinishAck
  <2>4. phase' = phase \/ phase' \notin {"queued", "offered", "accepted"}
    BY <1>4 DEF Pause, Stop, RecvFinishAck
  <2> QED BY <2>1, <2>2, <2>3, <2>4 DEF WindowInv
<1> QED BY <1>2, <1>3, <1>4

(* The sender a tick leaves behind when it looks at the task, before and     *)
(* after it fills the window.                                                *)
LEMMA TickedSound ==
    ASSUME WindowInv
    PROVE  LET t == Aged(s)
               u == RetransmitDue(t, Due(t))
           IN  /\ Sound(t) /\ t.start = s.start /\ t.sent = s.sent /\ (Exact(s) => Exact(t))
               /\ t.offer = NoOffer <=> s.offer = NoOffer
               /\ Sound(u) /\ u.start = s.start /\ u.sent \subseteq s.sent /\ (Exact(s) => Exact(u))
               /\ u.offer = NoOffer <=> s.offer = NoOffer
               /\ ~(u.inFlight > 0 /\ u.idle >= IdleTimeout)
<1> DEFINE t == Aged(s)
           u == RetransmitDue(t, Due(t))
<1>1. /\ Sound(t) /\ t.start = s.start /\ t.sent = s.sent /\ (Exact(s) => Exact(t))
      /\ (t.offer = NoOffer <=> s.offer = NoOffer)
      /\ \A q \in DOMAIN t.age : t.age[q] < BlockTimeout => t.idle < BlockTimeout
  BY TickSound DEF WindowInv
<1> HIDE DEF t
<1>2. /\ Sound(u) /\ u.start = t.start /\ u.idle = t.idle /\ u.offer = t.offer
      /\ u.sent \subseteq t.sent /\ (Exact(t) => Exact(u))
      /\ (u.inFlight > 0 => \E q \in DOMAIN t.age : t.age[q] < BlockTimeout)
  BY <1>1, RetransmitSound
<1>3. t.idle \in Nat
  BY <1>1, PartsOfSender DEF Sound
<1> HIDE DEF u
<1>4. ~(u.inFlight > 0 /\ u.idle >= IdleTimeout)
  BY <1>1, <1>2, <1>3, SendWindowAssumption
<1> QED BY <1>1, <1>2, <1>4 DEF t, u

\* The periodic tick keeps the invariant, and an accepted task alive.
LEMMA TickKeeps ==
    ASSUME WindowInv, DriverTick
    PROVE  WindowInv' /\ (phase = "accepted" => phase' # "dead")
<1> DEFINE t == Aged(s)
           u == RetransmitDue(t, Due(t))
           skipped == paused \/ (driver = "mobile" /\ phase # "accepted")
<1>1. /\ Sound(t) /\ t.start = s.start /\ t.sent = s.sent /\ (Exact(s) => Exact(t))
      /\ (t.offer = NoOffer <=> s.offer = NoOffer)
      /\ Sound(u) /\ u.start = s.start /\ u.sent \subseteq s.sent /\ (Exact(s) => Exact(u))
      /\ (u.offer = NoOffer <=> s.offer = NoOffer)
      /\ ~(u.inFlight > 0 /\ u.idle >= IdleTimeout)
  BY TickedSound
<1>2. /\ Live /\ UNCHANGED <<driver, paused, finish>>
      /\ skipped => s' = t /\ UNCHANGED <<phase, early>>
      /\ ~skipped /\ IdleTimedOut(u) => s' = u /\ phase' = "dead" /\ UNCHANGED early
      /\ ~skipped /\ ~IdleTimedOut(u) =>
            /\ s' = IF MaySend THEN FillWindow(u) ELSE u
            /\ early' = (early \/ (MaySend /\ phase # "accepted"))
            /\ UNCHANGED phase
  BY DEF DriverTick
<1> HIDE DEF t, u, skipped
<1>4. IdleTimedOut(u) => s.offer # NoOffer
  BY <1>1 DEF IdleTimedOut
<1>5. /\ Sound(FillWindow(u)) /\ FillWindow(u).start = u.start /\ FillWindow(u).offer = u.offer
      /\ (Exact(u) => Exact(FillWindow(u)))
  BY <1>1, FillWindowSound
<1>6. /\ Sound(s)' /\ s'.start = s.start /\ (Exact(s) => Exact(s)')
      /\ (s'.offer = NoOffer <=> s.offer = NoOffer)
  BY <1>1, <1>2, <1>5
<1>7. /\ phase' \in {phase, "dead"} /\ early' \in BOOLEAN /\ (early => early')
      /\ (~early' /\ phase \in {"queued", "offered"} => s'.sent \subseteq s.sent)
  <2>1. early \in BOOLEAN
    BY DEF WindowInv, WindowTypeOK
  <2>2. CASE skipped
    BY <1>1, <1>2, <2>1, <2>2
  <2>3. CASE ~skipped /\ IdleTimedOut(u)
    BY <1>1, <1>2, <2>1, <2>3
  <2>4. CASE ~skipped /\ ~IdleTimedOut(u)
    <3>1. MaySend \in BOOLEAN
      BY DEF MaySend
    <3> QED BY <1>1, <1>2, <2>1, <2>4, <3>1
  <2> QED BY <2>2, <2>3, <2>4
<1>8. WindowTypeOK'
  BY <1>2, <1>6, <1>7 DEF WindowInv, WindowTypeOK, Sound
<1>9. FinishMeansAllAcked'
  BY <1>2, <1>6, <1>7, SlideWindowAssumption DEF WindowInv, FinishMeansAllAcked, AllAcked
<1>10. phase = "accepted" => phase' # "dead"
  BY <1>2, <1>4 DEF WindowInv
<1> QED BY <1>6, <1>7, <1>8, <1>9, <1>10 DEF WindowInv

\* Every step keeps the invariant, and no accepted task is given up.
LEMMA WindowNextKeeps ==
    WindowInv /\ [WindowNext]_windowVars => WindowInv' /\ (UNCHANGED windowVars \/ (phase = "accepted" => phase' # "dead"))
<1> SUFFICES ASSUME WindowInv, [WindowNext]_windowVars
             PROVE  WindowInv' /\ (UNCHANGED windowVars \/ (phase = "accepted" => phase' # "dead"))
  OBVIOUS
<1>1. CASE DriverTick
  BY <1>1, TickKeeps
<1>2. CASE SendOffer \/ Pause \/ Resume \/ Stop \/ RecvFinishAck
  BY <1>2, CommandsKeep DEF SendOffer, Pause, Resume, Stop, RecvFinishAck
<1>3. CASE \/ \E r \in Resumes : RecvAccept(r)
           \/ \E q \in Seqs : RecvAck(q) \/ RecvNack(q)
  BY <1>3, PeerKeeps DEF RecvAccept, RecvAck, RecvNack
<1>4. CASE UNCHANGED windowVars
  BY <1>4 DEF windowVars, WindowInv, WindowTypeOK, Sound, Exact, FinishMeansAllAcked, AllAcked
<1> QED BY <1>1, <1>2, <1>3, <1>4 DEF WindowNext

\* The invariant holds in every reachable state of a transfer.
THEOREM WindowInvariant == WindowSpec => []WindowInv
BY WindowInitKeeps, WindowNextKeeps, PTL DEF WindowSpec

\* The state of the sender and its driver is well typed.
THEOREM WindowTypeCorrect == WindowSpec => []WindowTypeOK
<1>1. WindowInv => WindowTypeOK
  BY DEF WindowInv
<1> QED BY WindowInvariant, <1>1, PTL

(* For every file and window size the counter of on_ack, on_nack and           *)
(* retransmit_due is the number of blocks in flight and within WINDOW_SIZE,    *)
(* as long as no block was sent ahead of the Accept.                           *)
THEOREM WindowIsExact == WindowSpec => []InFlightExact
<1>1. WindowInv => InFlightExact
  BY DEF WindowInv, InFlightExact, Exact
<1> QED BY WindowInvariant, <1>1, PTL

(* A block in flight that has not timed out was sent no later than the last    *)
(* activity (mark_sent, on_ack, on_nack set both).                             *)
THEOREM ActivityFollowsSending == WindowSpec => []IdleFollowsAge
<1>1. WindowInv => IdleFollowsAge
  BY DEF WindowInv, IdleFollowsAge, Sound
<1> QED BY WindowInvariant, <1>1, PTL

\* A Finish is sent exactly when every block is acknowledged (on_accept, on_ack).
THEOREM FinishIsAllAcked == WindowSpec => []FinishMeansAllAcked
<1>1. WindowInv => FinishMeansAllAcked
  BY DEF WindowInv
<1> QED BY WindowInvariant, <1>1, PTL

(* Whatever the timeouts are, as long as BLOCK_TIMEOUT is the shorter one: an  *)
(* accepted transfer never meets the IDLE_TIMEOUT of on_tick.                  *)
THEOREM IdleDeadlineNeverMet == WindowSpec => OnlyOffersExpire
<1>1. WindowInv /\ [WindowNext]_windowVars => [phase = "accepted" => phase' # "dead"]_windowVars
  BY WindowNextKeeps
<1> QED BY WindowInvariant, <1>1, PTL DEF WindowSpec, OnlyOffersExpire

-----------------------------------------------------------------------------
(* The sender in the time of FileTransfer, where no clock runs. *)

\* no time passes for a sender of FileTransfer
Still(w) == w.idle = 0 /\ w.offer = NoOffer /\ \A q \in DOMAIN w.age : w.age[q] = 0

\* A sender that is sound, exact and still is a window in the sense of TypeOK.
LEMMA WindowTyped ==
    ASSUME NEW w, Sound(w), Exact(w), Still(w)
    PROVE  IsWindow(w)
<1>1. /\ w.resume \in 0 .. Total /\ w.start \in 0 .. Total /\ w.next \in 0 .. Total
      /\ w.sent \subseteq Seqs /\ w.age \in Ages /\ w.inFlight \in Nat /\ DOMAIN w.age \subseteq Seqs
  BY PartsOfSender DEF Sound
<1>2. w.age \in [DOMAIN w.age -> {0}]
  BY <1>1 DEF Ages, Still
<1>3. w.inFlight \in 0 .. Window
  BY <1>1, SlideWindowAssumption DEF Exact
<1> QED BY <1>1, <1>2, <1>3 DEF IsWindow, Still

\* A new sender has sent nothing.
LEMMA NewSenderStill ==
    ASSUME NEW r \in 0 .. Total
    PROVE  /\ Sound(NewSender(r)) /\ Exact(NewSender(r)) /\ Still(NewSender(r))
           /\ NewSender(r).sent = {}
<1>1. Still(NewSender(r)) /\ NewSender(r).sent = {}
  BY DEF NewSender, Still
<1> QED BY <1>1, NewSenderSound

\* on_accept starts at the larger progress of both ends.
LEMMA OnAcceptStill ==
    ASSUME NEW w, Sound(w), Still(w), w.sent = {}, NEW r \in 0 .. Total
    PROVE  LET v == OnAccept(w, r) IN
           /\ Sound(v) /\ Exact(v) /\ Still(v)
           /\ v.resume = w.resume /\ v.start \in 0 .. Total /\ v.next = v.start
           /\ v.sent = 0 .. v.start - 1
           /\ v.start = w.resume \/ v.start = r
           /\ v.start >= r
<1> DEFINE v == OnAccept(w, r)
           from == Smaller(Larger(w.resume, r), Total)
<1>1. Sound(v) /\ Exact(v) /\ w \in Senders
  BY OnAcceptSound DEF Sound
<1>2. from \in 0 .. Total /\ (from = w.resume \/ from = r) /\ from >= r
  BY <1>1, PartsOfSender, SlideWindowAssumption DEF Smaller, Larger
<1>3. v = [w EXCEPT !.offer = NoOffer, !.start = from, !.next = from,
              !.sent = @ \cup 0 .. from - 1, !.age = <<>>, !.inFlight = 0]
  BY DEF OnAccept
<1> HIDE DEF from, v
<1>4. /\ v.start = from /\ v.next = from /\ v.sent = 0 .. from - 1 /\ v.resume = w.resume
      /\ v.age = <<>> /\ v.idle = w.idle /\ v.offer = NoOffer
  BY <1>1, <1>3 DEF Senders
<1>5. Still(v)
  BY <1>4 DEF Still
<1> QED BY <1>1, <1>2, <1>4, <1>5 DEF v

\* on_ack moves the start behind the block it is about.
LEMMA OnAckStill ==
    ASSUME NEW w, Sound(w), Exact(w), Still(w), NEW seq \in Seqs
    PROVE  LET v == OnAck(w, seq) IN
           /\ Sound(v) /\ Exact(v) /\ Still(v)
           /\ v.resume = w.resume /\ v.next = w.next /\ v.sent = w.sent
           /\ w.start \in 0 .. Total /\ v.start = Larger(w.start, seq + 1)
<1> DEFINE v == OnAck(w, seq)
           upTo == Smaller(seq + 1, Total)
           newly == w.start .. upTo - 1
<1>1. Sound(v) /\ Exact(v) /\ w \in Senders /\ w.start \in 0 .. Total
  BY OnAckSound, PartsOfSender DEF Sound
<1>2. upTo = seq + 1
  BY SlideWindowAssumption DEF Smaller, Seqs
<1>3. CASE upTo <= w.start
  <2>1. v = w
    BY <1>3 DEF OnAck
  <2>2. w.start = Larger(w.start, seq + 1)
    BY <1>1, <1>2, <1>3 DEF Larger, Seqs
  <2> QED BY <1>1, <2>1, <2>2
<1>4. CASE ~(upTo <= w.start)
  <2>1. PICK k : v = [w EXCEPT !.start = upTo, !.inFlight = k,
                        !.age = [q \in DOMAIN w.age \ newly |-> w.age[q]], !.idle = 0]
    BY <1>4 DEF OnAck
  <2> HIDE DEF v, upTo, newly
  <2>2. /\ v.start = upTo /\ v.resume = w.resume /\ v.next = w.next /\ v.sent = w.sent
        /\ v.age = [q \in DOMAIN w.age \ newly |-> w.age[q]] /\ v.idle = 0 /\ v.offer = w.offer
    BY <1>1, <2>1 DEF Senders
  <2>3. Still(v)
    BY <2>2 DEF Still
  <2>4. upTo = Larger(w.start, seq + 1)
    BY <1>1, <1>2, <1>4 DEF Larger, Seqs
  <2> QED BY <1>1, <2>2, <2>3, <2>4 DEF v
<1> QED BY <1>3, <1>4

\* A repeat unmarks blocks and moves nothing else (retransmit_due).
LEMMA UnmarkStill ==
    ASSUME NEW w, Sound(w), Exact(w), Still(w), NEW X \in SUBSET DOMAIN w.age
    PROVE  LET v == RetransmitDue(w, X) IN
           /\ Sound(v) /\ Exact(v) /\ Still(v)
           /\ v.resume = w.resume /\ v.next = w.next /\ v.start = w.start
           /\ v.sent \subseteq w.sent
<1> DEFINE D == DOMAIN w.age
           v == RetransmitDue(w, X)
           a == [q \in D \ X |-> w.age[q]]
           k == Larger(0, w.inFlight - Cardinality(X \cap w.sent))
<1>1. w \in Senders /\ D \subseteq w.sent /\ w.sent \subseteq Seqs /\ w.inFlight \in Nat
      /\ \A q \in D : w.age[q] \in 0 .. BlockTimeout
  BY PartsOfSender DEF Sound
<1>2. v = [w EXCEPT !.sent = w.sent \ X, !.inFlight = k, !.age = a]
  BY DEF RetransmitDue
<1>3. X \cap w.sent = D \cap X /\ X \in SUBSET Seqs /\ Cardinality(D \cap X) \in Nat
  <2>1. D \cap X \in SUBSET Seqs
    BY <1>1
  <2> QED BY <1>1, <2>1, BlocksFinite
<1>4. /\ a \in Ages /\ DOMAIN a = D \ X /\ k \in Nat /\ k <= Cardinality(DOMAIN a)
      /\ w.inFlight = Cardinality(D) => k = Cardinality(DOMAIN a) /\ k <= w.inFlight
  BY <1>3, TakenOut
<1>5. \A q \in D \ X : a[q] = w.age[q]
  OBVIOUS
<1> HIDE DEF a, k, v
<1>6. v \in Senders
  <2>1. PICK sent \in SUBSET Seqs : sent = w.sent \ X
    BY <1>1
  <2>2. v = [w EXCEPT !.sent = sent, !.inFlight = k, !.age = a]
    BY <1>2, <2>1
  <2> QED BY <1>1, <1>4, <2>2 DEF Senders
<1>7. /\ v.age = a /\ v.idle = w.idle /\ v.offer = w.offer /\ v.start = w.start
      /\ v.resume = w.resume /\ v.next = w.next /\ v.sent = w.sent \ X /\ v.inFlight = k
  BY <1>1, <1>2 DEF Senders
<1>8. Sound(v)
  BY <1>1, <1>4, <1>5, <1>6, <1>7 DEF Sound
<1>9. Still(v)
  BY <1>4, <1>5, <1>7 DEF Still
<1>10. Exact(v)
  <2>1. D = {q \in w.sent : q >= w.start} /\ w.inFlight = Cardinality(D) /\ w.inFlight <= Window
    BY DEF Exact
  <2>2. D \ X = {q \in w.sent \ X : q >= w.start}
    BY <2>1
  <2> QED BY <1>1, <1>4, <1>7, <2>1, <2>2, SlideWindowAssumption DEF Exact
<1> QED BY <1>7, <1>8, <1>9, <1>10 DEF v

(* A window of an accepted task: what was sent lies before the cursor, and   *)
(* unless all is acknowledged the cursor is ahead of the acknowledged blocks.*)
Behind(w) == w.start <= w.next /\ w.sent \subseteq 0 .. w.next - 1
Steady(w) == Behind(w) /\ (w.start < Total => w.start < w.next)

\* the blocks fill_window sends for the first time, and the cursor behind them
NewOnes(w) == {q \in Sendable(w) : q >= w.next}
NextAfter(w) == w.next + Cardinality(NewOnes(w))

\* New blocks are those that follow the cursor, one after the other.
LEMMA NewBlocks ==
    ASSUME NEW w, Sound(w), Exact(w), Behind(w)
    PROVE  /\ NextAfter(w) \in w.next .. Total
           /\ \A q \in Sendable(w) : q < NextAfter(w)
           /\ NextAfter(w) > w.next => NextAfter(w) - 1 \in Sendable(w)
           /\ w.start < Total => w.start < NextAfter(w)
<1> DEFINE B == Sendable(w)
           N == NewOnes(w)
           rank(q) == {r \in ToSend(w) \ w.sent : r < q}
           c == Cardinality(N)
<1>1. /\ w \in Senders /\ w.start \in 0 .. Total /\ w.next \in 0 .. Total /\ w.sent \subseteq Seqs
      /\ w.inFlight \in Nat /\ w.start <= w.next /\ w.sent \subseteq 0 .. w.next - 1
  BY PartsOfSender DEF Sound, Behind
<1>2. /\ B \subseteq Seqs /\ N \in SUBSET Seqs /\ N \subseteq B
      /\ \A q \in B : q \in w.start .. Total - 1 /\ Cardinality(rank(q)) < Window - w.inFlight
  BY <1>1, SlideWindowAssumption DEF NewOnes, Sendable, ToSend, Seqs
<1>3. \A q : rank(q) \in SUBSET Seqs /\ IsFiniteSet(rank(q)) /\ Cardinality(rank(q)) \in Nat
  <2>1. \A q : rank(q) \in SUBSET Seqs
    BY <1>1, SlideWindowAssumption DEF ToSend, Seqs
  <2> HIDE DEF rank
  <2> QED BY <2>1, BlocksFinite
<1>4. c \in Nat
  BY <1>2, BlocksFinite
<1>5. /\ w.start \in Nat /\ w.next \in Nat /\ Total \in Nat /\ w.start <= w.next /\ w.next <= Total
      /\ \A q \in B : q \in Int /\ q >= w.start /\ q < Total
      /\ \A q : q \in N <=> q \in B /\ q >= w.next
  <2>1. /\ w.start \in Nat /\ w.next \in Nat /\ Total \in Nat /\ w.start <= w.next /\ w.next <= Total
    BY <1>1, SlideWindowAssumption
  <2>2. \A q \in B : q \in w.start .. Total - 1
    BY <1>2
  <2>3. \A q \in B : q \in Int /\ q >= w.start /\ q < Total
    <3> HIDE DEF B
    <3> QED BY <2>1, <2>2
  <2> QED BY <2>1, <2>3 DEF NewOnes
<1>6. ASSUME NEW q \in N, NEW r \in Int, w.next <= r, r <= q PROVE r \in N
  <2>1. q \in Int /\ q < Total /\ q \in B /\ Cardinality(rank(q)) < Window - w.inFlight
    BY <1>2, <1>5
  <2>2. r >= w.start /\ r < Total
    BY <1>5, <1>6, <2>1
  <2>3. r \in ToSend(w)
    BY <1>5, <1>6, <2>2, SlideWindowAssumption DEF ToSend
  <2>4. rank(r) \subseteq rank(q)
    <3>1. \A x \in ToSend(w) : x \in Int
      BY <1>5 DEF ToSend
    <3> QED BY <1>6, <2>1, <3>1
  <2>5. Cardinality(rank(r)) <= Cardinality(rank(q))
    BY <1>3, <2>4, FS_Subset
  <2>6. Cardinality(rank(r)) < Window - w.inFlight
    <3>1. Cardinality(rank(r)) \in Nat /\ Cardinality(rank(q)) \in Nat
      BY <1>3
    <3>2. Window - w.inFlight \in Int
      BY <1>1, SlideWindowAssumption
    <3> HIDE DEF rank
    <3> QED BY <2>1, <2>5, <3>1, <3>2
  <2>7. r \in B
    BY <2>3, <2>6 DEF Sendable
  <2> QED BY <1>5, <1>6, <2>7
<1>7. CASE N = {}
  <2>1. c = 0
    BY <1>7, FS_EmptySet
  <2>2. ASSUME w.start < Total, w.start >= w.next PROVE FALSE
    <3>1. w.start = w.next
      BY <1>5, <2>2
    <3>2. DOMAIN w.age = {}
      BY <1>1, <3>1 DEF Exact
    <3>3. w.inFlight = 0
      BY <3>2, FS_EmptySet DEF Exact
    <3>4. rank(w.start) = {}
      BY <1>1 DEF ToSend
    <3>5. Cardinality(rank(w.start)) < Window - w.inFlight
      BY <3>3, <3>4, FS_EmptySet, SlideWindowAssumption
    <3>6. w.start \in ToSend(w)
      BY <1>5, <2>2, <3>1, SlideWindowAssumption DEF ToSend
    <3>7. w.start \in B
      BY <3>5, <3>6 DEF Sendable
    <3> QED BY <1>5, <1>7, <3>1, <3>7
  <2>3. /\ NextAfter(w) \in w.next .. Total /\ \A q \in B : q < NextAfter(w)
        /\ NextAfter(w) > w.next => NextAfter(w) - 1 \in B
        /\ w.start < Total => w.start < NextAfter(w)
    <3>0. NextAfter(w) = w.next + c
      BY DEF NextAfter
    <3> HIDE DEF B, N, c
    <3> QED BY <1>5, <3>0, <1>7, <2>1, <2>2
  <2> QED BY <2>3
<1>8. CASE N # {}
  <2>1. PICK last \in N : \A q \in N : q <= last
    BY <1>2, <1>8, LastBlock
  <2>2. last \in Int /\ last >= w.next /\ last < Total /\ last \in B
    BY <1>5
  <2>3. N = w.next .. last
    <3>1. ASSUME NEW q \in N PROVE q \in w.next .. last
      BY <1>5, <2>1, <2>2, <3>1
    <3>2. ASSUME NEW q \in w.next .. last PROVE q \in N
      BY <1>5, <1>6, <2>2, <3>2
    <3> HIDE DEF N
    <3> QED BY <3>1, <3>2
  <2>4. c = last - w.next + 1
    <3>1. w.next \in Int
      BY <1>5
    <3>2. Cardinality(w.next .. last) = IF w.next > last THEN 0 ELSE last - w.next + 1
      BY <2>2, <3>1, FS_Interval
    <3> HIDE DEF N
    <3> QED BY <1>5, <2>2, <2>3, <3>2 DEF c
  <2>5. \A q \in B : q < last + 1
    <3> HIDE DEF N, B
    <3> QED BY <1>5, <2>1, <2>2
  <2>6. /\ NextAfter(w) \in w.next .. Total /\ \A q \in B : q < NextAfter(w)
        /\ NextAfter(w) > w.next => NextAfter(w) - 1 \in B
        /\ w.start < Total => w.start < NextAfter(w)
    <3>0. NextAfter(w) = w.next + c
      BY DEF NextAfter
    <3> HIDE DEF B, N, c
    <3> QED BY <1>5, <3>0, <2>2, <2>4, <2>5
  <2> QED BY <2>6
<1> QED BY <1>7, <1>8

\* fill_window sends every sendable block and moves the cursor behind them.
LEMMA FillStill ==
    ASSUME NEW w, Sound(w), Exact(w), Still(w)
    PROVE  LET v == FillWindow(w) IN
           /\ Sound(v) /\ Exact(v) /\ Still(v)
           /\ v.resume = w.resume /\ v.start = w.start
           /\ Sendable(w) \subseteq Seqs
           /\ AllAcked(w) => Sendable(w) = {}
           /\ Behind(w) => /\ Steady(v) /\ v.next >= w.next
                           /\ \A q \in Sendable(w) : q < v.next
                           /\ v.next > w.next => v.next - 1 \in Sendable(w)
<1> DEFINE B == Sendable(w)
           v == FillWindow(w)
           a == [q \in DOMAIN w.age \cup B |-> IF q \in B THEN 0 ELSE w.age[q]]
           k == w.inFlight + Cardinality(B \ w.sent)
           i == IF B = {} THEN w.idle ELSE 0
           nx == NextAfter(w)
<1>1. Sound(v) /\ Exact(v) /\ v.start = w.start /\ v.offer = w.offer /\ w \in Senders
  BY FillWindowSound DEF Sound
<1>2. /\ w.start \in 0 .. Total /\ w.next \in 0 .. Total /\ w.sent \subseteq Seqs
  BY <1>1, PartsOfSender
<1>3. B \subseteq Seqs /\ (AllAcked(w) => B = {})
  <2>1. B \subseteq Seqs
    BY <1>2 DEF Sendable, ToSend, Seqs
  <2>2. ASSUME AllAcked(w) PROVE B = {}
    BY <1>2, <2>2, SlideWindowAssumption DEF AllAcked, Sendable, ToSend
  <2> QED BY <2>1, <2>2
<1>4. v = [w EXCEPT !.sent = w.sent \cup B, !.inFlight = k, !.age = a, !.next = nx, !.idle = i]
  BY DEF FillWindow, MarkSent, NextAfter, NewOnes
<1>5. i = 0 /\ \A q \in DOMAIN a : a[q] = 0
  BY DEF Still
<1>6. Behind(w) => /\ nx \in w.next .. Total
                   /\ \A q \in B : q < nx
                   /\ nx > w.next => nx - 1 \in B
                   /\ w.start < Total => w.start < nx
  BY NewBlocks
<1> HIDE DEF B, a, k, i, nx, v
<1>9. v.sent = w.sent \cup B /\ v.age = a /\ v.next = nx /\ v.idle = i /\ v.resume = w.resume
  BY <1>1, <1>4 DEF Senders
<1>10. Still(v)
  BY <1>1, <1>5, <1>9 DEF Still
<1>11. ASSUME Behind(w)
       PROVE  /\ Steady(v) /\ v.next >= w.next
              /\ \A q \in B : q < v.next
              /\ v.next > w.next => v.next - 1 \in B
  <2>1. /\ nx \in Int /\ nx >= w.next /\ w.next \in Int /\ w.start \in Int /\ w.start <= w.next
        /\ \A q \in B : q < nx
        /\ nx > w.next => nx - 1 \in B
        /\ w.start < Total => w.start < nx
    BY <1>2, <1>6, <1>11 DEF Behind
  <2>2. w.sent \cup B \subseteq 0 .. nx - 1
    <3>1. \A q \in w.sent : q \in Int /\ 0 <= q /\ q <= w.next - 1
      BY <1>11, <2>1 DEF Behind
    <3>2. \A q \in B : q \in Int /\ 0 <= q
      BY <1>3 DEF Seqs
    <3> QED BY <2>1, <3>1, <3>2
  <2> QED BY <1>1, <1>9, <2>1, <2>2 DEF Steady, Behind
<1> QED BY <1>1, <1>3, <1>9, <1>10, <1>11 DEF B, v

-----------------------------------------------------------------------------
(* Induction over a set of natural numbers, for the loops. *)

\* What holds at 0 and is passed on by every number below k holds at k.
LEMMA Reached ==
    ASSUME NEW k \in Nat, NEW B, 0 \in B, \A i \in 0 .. k - 1 : i \in B => i + 1 \in B
    PROVE  k \in B
<1> DEFINE C == {i \in 0 .. k : i \notin B}
           R == OpToRel(<, Nat)
<1> SUFFICES ASSUME k \notin B PROVE FALSE
  OBVIOUS
<1>1. C \subseteq Nat /\ C # {}
  <2>1. k \in C
    OBVIOUS
  <2> QED BY <2>1
<1>2. IsWellFoundedOn(R, Nat)
  BY NatLessThanWellFounded
<1>3. PICK x \in C : \A y \in C : ~(<<y, x>> \in R)
  BY <1>1, <1>2, WFMin
<1>4. \A y \in C : ~(y < x)
  BY <1>1, <1>3 DEF OpToRel
<1>5. x \in Nat /\ x <= k /\ x \notin B /\ x # 0
  OBVIOUS
<1>6. x - 1 \in 0 .. k /\ x - 1 \notin C
  BY <1>4, <1>5
<1>7. x - 1 \in B
  BY <1>6
<1>8. x - 1 + 1 \in B
  BY <1>5, <1>7
<1> QED BY <1>5, <1>8

\* A set of blocks has an enumeration in ascending order.
LEMMA AscendingExists ==
    ASSUME NEW S \in SUBSET Seqs
    PROVE  \E t \in [1 .. Cardinality(S) -> S] :
              \A i, j \in 1 .. Cardinality(S) : i < j => t[i] < t[j]
<1> DEFINE Listed(T) == \E t \in [1 .. Cardinality(T) -> T] :
                           \A i, j \in 1 .. Cardinality(T) : i < j => t[i] < t[j]
           B == {k \in Nat : \A T \in SUBSET Seqs : (\A q \in T : q < k) => Listed(T)}
<1>1. 0 \in B
  <2> SUFFICES ASSUME NEW T \in SUBSET Seqs, \A q \in T : q < 0 PROVE Listed(T)
    OBVIOUS
  <2>1. T = {}
    BY DEF Seqs
  <2>2. Cardinality(T) = 0
    BY <2>1, FS_EmptySet
  <2> DEFINE t == [i \in 1 .. Cardinality(T) |-> 0]
  <2>3. 1 .. Cardinality(T) = {}
    BY <2>2
  <2>4. t \in [1 .. Cardinality(T) -> T]
    BY <2>3
  <2> QED BY <2>3, <2>4
<1>2. ASSUME NEW k \in Nat, k \in B PROVE k + 1 \in B
  <2> SUFFICES ASSUME NEW T \in SUBSET Seqs, \A q \in T : q < k + 1 PROVE Listed(T)
    OBVIOUS
  <2> DEFINE U == T \ {k}
  <2>1. \A q \in T : q \in Int
    BY DEF Seqs
  <2>2. U \in SUBSET Seqs /\ \A q \in U : q < k
    BY <2>1
  <2>3. Listed(U)
    BY <1>2, <2>2
  <2>4. CASE k \notin T
    <3>1. U = T
      BY <2>4
    <3> HIDE DEF U
    <3> QED BY <2>3, <3>1
  <2>5. CASE k \in T
    <3>1. IsFiniteSet(T) /\ Cardinality(T) \in Nat
      BY BlocksFinite
    <3>2. Cardinality(U) = Cardinality(T) - 1
      BY <2>5, <3>1, FS_RemoveElement
    <3> DEFINE c == Cardinality(T)
    <3>3. PICK t \in [1 .. c - 1 -> U] : \A i, j \in 1 .. c - 1 : i < j => t[i] < t[j]
      BY <2>3, <3>2
    <3>3a. c \in Nat
      BY <3>1
    <3> DEFINE u == [i \in 1 .. c |-> IF i = c THEN k ELSE t[i]]
    <3> HIDE DEF c
    <3>4. u \in [1 .. c -> T]
      BY <2>5, <3>3, <3>3a
    <3>5. ASSUME NEW i \in 1 .. c, NEW j \in 1 .. c, i < j PROVE u[i] < u[j]
      <4>1. i \in 1 .. c - 1 /\ u[i] = t[i] /\ t[i] \in U
        BY <3>3, <3>3a, <3>5
      <4>2. CASE j = c
        <5> HIDE DEF U
        <5> QED BY <2>2, <4>1, <4>2
      <4>3. CASE j # c
        <5>1. j \in 1 .. c - 1 /\ u[j] = t[j]
          BY <3>3a, <3>5, <4>3
        <5> QED BY <3>3, <3>5, <4>1, <5>1
      <4> QED BY <4>2, <4>3
    <3> QED BY <3>4, <3>5 DEF c
  <2> QED BY <2>4, <2>5
<1>3. Total \in Nat /\ \A q \in S : q < Total
  BY SlideWindowAssumption DEF Seqs
<1> HIDE DEF B
<1>4. Total \in B
  <2>1. \A i \in 0 .. Total - 1 : i \in B => i + 1 \in B
    BY <1>2
  <2> QED BY <1>1, <1>3, <2>1, Reached
<1> QED BY <1>3, <1>4 DEF B

\* The enumeration of Ascending lists the blocks of the set, each of them.
LEMMA AscendingLists ==
    ASSUME NEW S \in SUBSET Seqs
    PROVE  /\ Cardinality(S) \in Nat
           /\ Ascending(S) \in [1 .. Cardinality(S) -> S]
           /\ \A q \in S : \E i \in 1 .. Cardinality(S) : Ascending(S)[i] = q
<1> DEFINE c == Cardinality(S)
           t == Ascending(S)
<1>1. c \in Nat /\ IsFiniteSet(S)
  BY BlocksFinite
<1>2. t \in [1 .. c -> S] /\ \A i, j \in 1 .. c : i < j => t[i] < t[j]
  BY AscendingExists DEF Ascending
<1> HIDE DEF c, t
<1>3. \A i, j \in 1 .. c : t[i] = t[j] => i = j
  <2> SUFFICES ASSUME NEW i \in 1 .. c, NEW j \in 1 .. c, t[i] = t[j], i # j PROVE FALSE
    OBVIOUS
  <2>1. t[i] \in Int /\ t[j] \in Int
    <3>1. t[i] \in S /\ t[j] \in S
      BY <1>2
    <3>2. \A q \in S : q \in Int
      BY DEF Seqs
    <3> QED BY <3>1, <3>2
  <2>2. i < j \/ j < i
    BY <1>1
  <2> QED BY <1>2, <2>1, <2>2
<1>4. t \in Injection(1 .. c, S)
  BY <1>2, <1>3 DEF Injection, IsInjective
<1>5. Cardinality(1 .. c) = c
  BY <1>1, FS_Interval
<1>6. t \in Surjection(1 .. c, S)
  BY <1>1, <1>4, <1>5, FS_Injection DEF c
<1> QED BY <1>1, <1>2, <1>6 DEF Surjection, c, t

-----------------------------------------------------------------------------
(* A node and what the steps of a handler do to its parts. *)

Fields == {"senders", "sendQueue", "sendQueued", "sendActive", "offered", "accepted",
           "offers", "recvQueue", "recvQueued", "receivers", "recvActive", "cancelled",
           "finished", "out", "store", "part", "saved", "source"}
IsMap(m) == m = [x \in DOMAIN m |-> m[x]]
Shape(n) ==
    /\ DOMAIN n = Fields
    /\ IsMap(n.senders) /\ IsMap(n.offers) /\ IsMap(n.recvQueued) /\ IsMap(n.receivers)

\* The map without an entry.
LEMMA WithoutIs ==
    ASSUME NEW m, NEW f
    PROVE  /\ DOMAIN Without(m, f) = DOMAIN m \ {f}
           /\ \A x \in DOMAIN m \ {f} : Without(m, f)[x] = m[x]
           /\ IsMap(Without(m, f))
           /\ f \notin DOMAIN m /\ IsMap(m) => Without(m, f) = m
BY DEF Without, Restrict, IsMap

\* The map with an entry.
LEMMA WithIs ==
    ASSUME NEW m, NEW f, NEW x
    PROVE  /\ DOMAIN With(m, f, x) = DOMAIN m \cup {f}
           /\ With(m, f, x)[f] = x
           /\ \A y \in DOMAIN m \ {f} : With(m, f, x)[y] = m[y]
           /\ IsMap(With(m, f, x))
BY DEF With, IsMap

\* Sending touches the frames only.
LEMMA SendIs ==
    ASSUME NEW n, Shape(n), NEW frames
    PROVE  LET k == Send(n, frames) IN
           /\ Shape(k) /\ k.out = n.out \o frames
           /\ \A x \in Fields \ {"out"} : k[x] = n[x]
BY DEF Send, Shape, Fields

-----------------------------------------------------------------------------
(* The invariant: what each end holds, and how far the two are with a file. *)

\* Every file is sent by one end only.  Where both send the same file, the run
\* transfer_cross shows CompletedIsSaved violated.
OneWay == \A f \in Files, p, q \in Peers : <<p, f>> \in Plan /\ <<q, f>> \in Plan => p = q

\* the files an end has been offered, and not refused or ended
Hold(n) == DOMAIN n.offers \cup DOMAIN n.recvQueued \cup DOMAIN n.receivers

Task(p, n, f) ==
    /\ <<p, f>> \in Plan
    /\ DOMAIN n.senders[f] = {"window", "version"}
    /\ n.senders[f].version \in 1 .. n.source[f]
    /\ Sound(n.senders[f].window) /\ Exact(n.senders[f].window) /\ Still(n.senders[f].window)
    /\ f \notin n.accepted => n.senders[f].window.sent = {}

(* The sending half of the node of p.  A queued task that is not cancelled is *)
(* queued once; one that is offered is not queued.                            *)
SendSide(p, n) ==
    /\ n.source \in [Files -> Versions]
    /\ IsFiniteSet(DOMAIN n.senders)
    /\ \A f \in DOMAIN n.senders : Task(p, n, f)
    /\ n.accepted \subseteq DOMAIN n.senders /\ n.offered \subseteq DOMAIN n.senders
    /\ n.sendQueue \in Seq(Files) /\ \A f \in Range(n.sendQueue) : <<p, f>> \in Plan
    /\ n.sendQueued \subseteq Range(n.sendQueue) /\ n.sendQueued \cap n.offered = {}
    /\ \A i, j \in DOMAIN n.sendQueue : n.sendQueue[i] \notin n.cancelled =>
          /\ n.sendQueue[i] \in n.sendQueued
          /\ n.sendQueue[i] = n.sendQueue[j] => i = j
    /\ n.sendActive \in 0 .. MaxConcurrent /\ n.sendActive <= Cardinality(n.offered)

\* The receiving half of a node whose other end is q.
RecvSide(q, n) ==
    /\ n.saved \in [Files -> SUBSET Seq(Versions)]
    /\ \A f \in Hold(n) : <<q, f>> \in Plan /\ f \notin n.cancelled
    /\ DOMAIN n.offers \cap DOMAIN n.recvQueued = {}
    /\ DOMAIN n.offers \cap DOMAIN n.receivers = {}
    /\ DOMAIN n.recvQueued \cap DOMAIN n.receivers = {}
    /\ \A f \in DOMAIN n.offers : n.offers[f] \in Versions
    /\ \A f \in DOMAIN n.recvQueued : n.recvQueued[f] \in Versions
    /\ \A f \in DOMAIN n.part : n.part[f] \in Seq(Versions)
    /\ \A f \in DOMAIN n.receivers :
          /\ n.receivers[f] \in [version : Versions, next : 0 .. Total]
          /\ f \in DOMAIN n.part /\ Len(n.part[f]) = n.receivers[f].next
    /\ IsFiniteSet(DOMAIN n.receivers) /\ n.recvActive = Cardinality(DOMAIN n.receivers)
    /\ n.recvActive \in 0 .. MaxConcurrent
    /\ n.recvQueue \in Seq(Files) /\ DOMAIN n.recvQueued \subseteq Range(n.recvQueue)

\* The record of a node whose other end is q.
Stored(q, n) ==
    \A f \in DOMAIN n.store :
        /\ f \in Files /\ n.store[f] \in [direction : {"send", "recv"}, next : 0 .. Total]
        /\ n.store[f].direction = "recv" =>
              /\ <<q, f>> \in Plan
              /\ f \in DOMAIN n.part => n.store[f].next <= Len(n.part[f])

\* what waits for a slot waits because there is none (maybe_start_recv)
Drained(n) == n.recvQueue = <<>> \/ ~SlotFree(n.recvActive)

-----------------------------------------------------------------------------
(* Frames on their way *)

Ops == {"Offer", "Accept", "Data", "Ack", "Finish", "FinishAck", "Reject", "Cancel"}
Frames == [op : Ops, file : Files, seq : 0 .. Total, version : 0 .. MaxVersion]

\* a frame to p from q, whose files are those of source
IsFrame(p, q, source, fr) ==
    /\ fr \in Frames
    /\ fr.op \in {"Offer", "Data", "Finish"} => <<q, fr.file>> \in Plan
    /\ fr.op \in {"Accept", "Ack", "FinishAck", "Reject"} => <<p, fr.file>> \in Plan
    /\ fr.op = "Cancel" => <<p, fr.file>> \in Plan \/ <<q, fr.file>> \in Plan
    /\ fr.op = "Offer" => fr.version \in 1 .. source[fr.file]
    /\ fr.op \in {"Ack", "Data"} => fr.seq \in Seqs
    /\ fr.op = "Data" => fr.version \in Versions

Carries(F, f, op) == \E fr \in F : fr.file = f /\ fr.op = op
Only(F, f, ops) == \A fr \in F : fr.file = f => fr.op \in ops

\* which frame about a file may come after which
Follow == {<<"Accept", "Cancel">>, <<"Ack", "Ack">>, <<"Ack", "FinishAck">>, <<"Ack", "Cancel">>,
           <<"Offer", "Cancel">>, <<"Data", "Data">>, <<"Data", "Finish">>, <<"Data", "Cancel">>,
           <<"Finish", "Cancel">>, <<"Cancel", "Cancel">>}
InTurn(c, f) == \A i, j \in DOMAIN c :
    i < j /\ c[i].file = f /\ c[j].file = f => <<c[i].op, c[j].op>> \in Follow

-----------------------------------------------------------------------------
(* The conversation about a file f between the end that sends it (node n) and *)
(* the other (node m), with the frames P on their way to n and Q to m.        *)

Asked(n, f) == f \in n.offered /\ f \notin n.accepted
HeldAt(m, f, v) ==
    /\ f \in DOMAIN m.offers => m.offers[f] = v
    /\ f \in DOMAIN m.recvQueued => m.recvQueued[f] = v
    /\ f \in DOMAIN m.receivers => m.receivers[f].version = v

Idle(n, m, f, P, Q) ==
    /\ f \notin n.offered /\ f \notin n.accepted /\ f \notin Hold(m)
    /\ Only(P, f, {}) /\ Only(Q, f, {})
OfferOnItsWay(n, m, f, P, Q) ==
    /\ Asked(n, f) /\ f \notin Hold(m)
    /\ Only(P, f, {}) /\ Only(Q, f, {"Offer"}) /\ Carries(Q, f, "Offer")
    /\ \A fr \in Q : fr.file = f => fr.version = n.senders[f].version
Pending(n, m, f, P, Q) ==
    /\ Asked(n, f) /\ f \in DOMAIN m.offers \cup DOMAIN m.recvQueued
    /\ Only(P, f, {}) /\ Only(Q, f, {})
    /\ HeldAt(m, f, n.senders[f].version)
Refused(n, m, f, P, Q) ==
    /\ Asked(n, f) /\ f \notin Hold(m)
    /\ Only(P, f, {"Reject"}) /\ Carries(P, f, "Reject") /\ Only(Q, f, {})
Accepting(n, m, f, P, Q) ==
    /\ Asked(n, f) /\ f \in DOMAIN m.receivers
    /\ Only(P, f, {"Accept"}) /\ Carries(P, f, "Accept") /\ Only(Q, f, {})
    /\ HeldAt(m, f, n.senders[f].version)
    /\ \A fr \in P : fr.file = f => fr.seq = m.receivers[f].next

(* Blocks go one way and acks the other.  Of the blocks the receiver lacks    *)
(* the last is on its way, and so is the ack of the last one it has.          *)
Progress(w, r, f, P, Q) ==
    /\ Steady(w) /\ r <= w.next
    /\ w.start <= w.resume \/ w.start <= r
    /\ Carries(Q, f, "Finish") <=> AllAcked(w)
    /\ \A fr \in P : fr.file = f => fr.seq < r
    /\ \A fr \in Q : fr.file = f /\ fr.op = "Data" => fr.seq < w.next
    /\ w.start < Total /\ r < w.next =>
          \E fr \in Q : fr.file = f /\ fr.op = "Data" /\ fr.seq = w.next - 1
    /\ r > w.start => \E fr \in P : fr.file = f /\ fr.op = "Ack" /\ fr.seq = r - 1
Running(n, m, f, P, Q) ==
    /\ f \in n.offered /\ f \in n.accepted /\ f \in DOMAIN m.receivers
    /\ HeldAt(m, f, n.senders[f].version)
    /\ Only(P, f, {"Ack"}) /\ Only(Q, f, {"Data", "Finish"})
    /\ Progress(n.senders[f].window, m.receivers[f].next, f, P, Q)

Done(n, m, f, P, Q) ==
    /\ f \in n.offered /\ f \in n.accepted /\ f \notin Hold(m)
    /\ AllAcked(n.senders[f].window)
    /\ Only(P, f, {"Ack", "FinishAck"}) /\ Carries(P, f, "FinishAck") /\ Only(Q, f, {})
    /\ [i \in 1 .. Total |-> n.senders[f].version] \in m.saved[f]

\* the receiving end has cancelled, before or after the sender had its Accept
StoppedEarly(n, m, f, P, Q) ==
    /\ Asked(n, f) /\ f \notin Hold(m)
    /\ Only(P, f, {"Accept", "Cancel"}) /\ Carries(P, f, "Cancel") /\ Only(Q, f, {})
Stopped(n, m, f, P, Q) ==
    /\ f \in n.offered /\ f \in n.accepted /\ f \notin Hold(m)
    /\ Only(P, f, {"Ack", "Cancel"}) /\ Carries(P, f, "Cancel") /\ Only(Q, f, {"Data", "Finish"})
    /\ Carries(Q, f, "Finish") => AllAcked(n.senders[f].window)

\* the sending end has cancelled
Over(n, m, f, Q) ==
    /\ f \notin n.offered /\ f \notin n.accepted
    /\ f \in Hold(m) \/ Carries(Q, f, "Offer") => Carries(Q, f, "Cancel")

Talk(n, m, f, P, Q) ==
    \/ f \in n.cancelled /\ Over(n, m, f, Q)
    \/ /\ f \notin n.cancelled /\ f \in m.cancelled
       /\ StoppedEarly(n, m, f, P, Q) \/ Stopped(n, m, f, P, Q)
    \/ /\ f \notin n.cancelled /\ f \notin m.cancelled
       /\ \/ Idle(n, m, f, P, Q) \/ OfferOnItsWay(n, m, f, P, Q) \/ Pending(n, m, f, P, Q)
          \/ Refused(n, m, f, P, Q) \/ Accepting(n, m, f, P, Q) \/ Running(n, m, f, P, Q)
          \/ Done(n, m, f, P, Q)

Line(n, m, f, c, e) ==
    /\ Talk(n, m, f, Range(c), Range(e))
    /\ InTurn(e, f)
    /\ f \notin n.cancelled => InTurn(c, f)

-----------------------------------------------------------------------------
\* the versions n holds are versions the other end's source has had
Dated(n, source) ==
    /\ \A f \in DOMAIN n.offers : n.offers[f] <= source[f]
    /\ \A f \in DOMAIN n.recvQueued : n.recvQueued[f] <= source[f]
    /\ \A f \in DOMAIN n.receivers : n.receivers[f].version <= source[f]

\* what an end is, by itself
Half(p, n) ==
    /\ Shape(n) /\ n.out \in Seq(Frames)
    /\ SendSide(p, n) /\ RecvSide(Other(p), n) /\ Stored(Other(p), n)

\* the end p with node n and the other with node m; c on its way to p, e to the other
Link(p, n, m, c, e) ==
    /\ c \in Seq(Frames) /\ \A fr \in Range(c) : IsFrame(p, Other(p), m.source, fr)
    /\ e \in Seq(Frames) /\ \A fr \in Range(e) : IsFrame(Other(p), p, n.source, fr)
    /\ Dated(n, m.source) /\ Dated(m, n.source)
    /\ \A f \in Files : <<p, f>> \in Plan => Line(n, m, f, c, e)
    /\ \A f \in Files : <<Other(p), f>> \in Plan => Line(m, n, f, e, c)

\* a node without a session
EmptyEngine(n) ==
    /\ Shape(n)
    /\ n.senders = None /\ n.sendQueue = <<>> /\ n.sendQueued = {} /\ n.sendActive = 0
    /\ n.offered = {} /\ n.accepted = {} /\ n.offers = None /\ n.recvQueue = <<>>
    /\ n.recvQueued = None /\ n.receivers = None /\ n.recvActive = 0
    /\ n.cancelled = {} /\ n.finished = None /\ n.out = <<>>

\* in the middle of a handler of p, with d on its way to the other end before it began
Good(p, n, m, c, d) ==
    /\ p \in Peers /\ Half(p, n) /\ Half(Other(p), m) /\ Drained(m)
    /\ d \in Seq(Frames) /\ Link(p, n, m, c, d \o n.out)

TransferInv ==
    /\ node = [p \in Peers |-> node[p]] /\ chan = [p \in Peers |-> chan[p]] /\ up \in BOOLEAN
    /\ \A p \in Peers : node[p].out = <<>> /\ Drained(node[p])
    /\ \A p \in Peers : Good(p, node[p], node[Other(p)], chan[p], chan[Other(p)])
    /\ ~up => \A p \in Peers : chan[p] = <<>> /\ EmptyEngine(node[p])

-----------------------------------------------------------------------------
(* Channels *)

\* There are two ends.
LEMMA OtherIs ==
    ASSUME NEW p \in Peers
    PROVE  /\ Other(p) \in Peers /\ Other(p) # p /\ Other(Other(p)) = p
           /\ Peers = {p, Other(p)}
<1>1. PICK q \in Peers : q # p /\ Peers = {p, q}
  BY FileTransferAssumption
<1>2. Other(p) = q
  BY <1>1 DEF Other
<1>3. Other(q) = p
  BY <1>1 DEF Other
<1> QED BY <1>1, <1>2, <1>3

\* The frames of a channel, and those behind its first.
LEMMA TailIs ==
    ASSUME NEW c \in Seq(Frames), c # <<>>
    PROVE  /\ Tail(c) \in Seq(Frames) /\ Head(c) \in Frames
           /\ Range(c) = {Head(c)} \cup Range(Tail(c))
           /\ \A f : InTurn(c, f) =>
                 /\ InTurn(Tail(c), f)
                 /\ Head(c).file = f => \A fr \in Range(Tail(c)) :
                       fr.file = f => <<Head(c).op, fr.op>> \in Follow
<1>1. /\ Tail(c) \in Seq(Frames) /\ Head(c) \in Frames
      /\ Len(c) \in Nat \ {0} /\ DOMAIN c = 1 .. Len(c)
      /\ DOMAIN Tail(c) = 1 .. Len(c) - 1
      /\ \A i \in 1 .. Len(c) - 1 : Tail(c)[i] = c[i + 1]
      /\ Head(c) = c[1]
  BY HeadTailProperties, EmptySeq, LenProperties
<1>2. Range(c) = {Head(c)} \cup Range(Tail(c))
  <2>1. ASSUME NEW x \in Range(c) PROVE x \in {Head(c)} \cup Range(Tail(c))
    <3>1. PICK i \in 1 .. Len(c) : x = c[i]
      BY <1>1 DEF Range
    <3>2. i = 1 \/ (i - 1 \in 1 .. Len(c) - 1 /\ Tail(c)[i - 1] = c[i])
      BY <1>1
    <3> QED BY <1>1, <3>1, <3>2 DEF Range
  <2>2. ASSUME NEW x \in {Head(c)} \cup Range(Tail(c)) PROVE x \in Range(c)
    <3>1. CASE x = Head(c)
      BY <1>1, <3>1 DEF Range
    <3>2. CASE x \in Range(Tail(c))
      <4>1. PICK i \in 1 .. Len(c) - 1 : x = Tail(c)[i]
        BY <1>1, <3>2 DEF Range
      <4>2. i + 1 \in DOMAIN c
        BY <1>1
      <4> QED BY <1>1, <4>1, <4>2 DEF Range
    <3> QED BY <2>2, <3>1, <3>2
  <2> QED BY <2>1, <2>2
<1>3. ASSUME NEW f, InTurn(c, f) PROVE InTurn(Tail(c), f)
  <2> SUFFICES ASSUME NEW i \in 1 .. Len(c) - 1, NEW j \in 1 .. Len(c) - 1,
                      i < j, Tail(c)[i].file = f, Tail(c)[j].file = f
               PROVE  <<Tail(c)[i].op, Tail(c)[j].op>> \in Follow
    BY <1>1 DEF InTurn
  <2>1. i + 1 \in DOMAIN c /\ j + 1 \in DOMAIN c /\ i + 1 < j + 1
    BY <1>1
  <2>2. Tail(c)[i] = c[i + 1] /\ Tail(c)[j] = c[j + 1]
    BY <1>1
  <2> QED BY <1>3, <2>1, <2>2 DEF InTurn
<1>4. ASSUME NEW f, InTurn(c, f), Head(c).file = f, NEW fr \in Range(Tail(c)), fr.file = f
      PROVE  <<Head(c).op, fr.op>> \in Follow
  <2>1. PICK i \in 1 .. Len(c) - 1 : fr = c[i + 1]
    BY <1>1 DEF Range
  <2>2. 1 \in DOMAIN c /\ i + 1 \in DOMAIN c /\ 1 < i + 1
    BY <1>1
  <2> QED BY <1>1, <1>4, <2>1, <2>2 DEF InTurn
<1> QED BY <1>1, <1>2, <1>3, <1>4

\* Frames sent behind those of a channel.
LEMMA AppendIs ==
    ASSUME NEW e \in Seq(Frames), NEW new \in Seq(Frames)
    PROVE  /\ e \o new \in Seq(Frames)
           /\ Range(e \o new) = Range(e) \cup Range(new)
           /\ \A f : /\ InTurn(e, f) /\ InTurn(new, f)
                     /\ \A a \in Range(e), b \in Range(new) :
                           a.file = f /\ b.file = f => <<a.op, b.op>> \in Follow
                     => InTurn(e \o new, f)
<1> DEFINE x == e \o new
<1>1. /\ x \in Seq(Frames) /\ Len(e) \in Nat /\ Len(new) \in Nat
      /\ DOMAIN e = 1 .. Len(e) /\ DOMAIN new = 1 .. Len(new) /\ DOMAIN x = 1 .. Len(e) + Len(new)
      /\ \A i \in 1 .. Len(e) + Len(new) : x[i] = IF i <= Len(e) THEN e[i] ELSE new[i - Len(e)]
  BY ConcatProperties, LenProperties
<1> HIDE DEF x
<1>2. /\ \A i \in 1 .. Len(e) : i \in DOMAIN x /\ x[i] = e[i]
      /\ \A i \in 1 .. Len(new) : i + Len(e) \in DOMAIN x /\ x[i + Len(e)] = new[i]
      /\ \A i \in DOMAIN x : \/ i \in 1 .. Len(e) /\ x[i] = e[i]
                             \/ i - Len(e) \in 1 .. Len(new) /\ x[i] = new[i - Len(e)]
  <2>1. ASSUME NEW i \in 1 .. Len(e) PROVE i \in DOMAIN x /\ x[i] = e[i]
    BY <1>1
  <2>2. ASSUME NEW i \in 1 .. Len(new) PROVE i + Len(e) \in DOMAIN x /\ x[i + Len(e)] = new[i]
    <3>1. /\ i + Len(e) \in 1 .. Len(e) + Len(new) /\ ~(i + Len(e) <= Len(e))
          /\ i + Len(e) - Len(e) = i
      BY <1>1
    <3> QED BY <1>1, <3>1
  <2>3. ASSUME NEW i \in DOMAIN x
        PROVE  \/ i \in 1 .. Len(e) /\ x[i] = e[i]
               \/ i - Len(e) \in 1 .. Len(new) /\ x[i] = new[i - Len(e)]
    <3>1. i \in 1 .. Len(e) + Len(new)
      BY <1>1
    <3>2. CASE i <= Len(e)
      BY <1>1, <3>1, <3>2
    <3>3. CASE ~(i <= Len(e))
      <4>1. i - Len(e) \in 1 .. Len(new)
        BY <1>1, <3>1, <3>3
      <4> QED BY <1>1, <3>1, <3>3, <4>1
    <3> QED BY <3>2, <3>3
  <2> QED BY <2>1, <2>2, <2>3
<1>3. Range(x) = Range(e) \cup Range(new)
  <2>1. ASSUME NEW y \in Range(x) PROVE y \in Range(e) \cup Range(new)
    BY <1>1, <1>2 DEF Range
  <2>2. ASSUME NEW y \in Range(e) PROVE y \in Range(x)
    BY <1>1, <1>2 DEF Range
  <2>3. ASSUME NEW y \in Range(new) PROVE y \in Range(x)
    BY <1>1, <1>2 DEF Range
  <2> QED BY <2>1, <2>2, <2>3
<1>4. ASSUME NEW f, InTurn(e, f), InTurn(new, f),
             \A a \in Range(e), b \in Range(new) :
                a.file = f /\ b.file = f => <<a.op, b.op>> \in Follow
      PROVE  InTurn(x, f)
  <2> SUFFICES ASSUME NEW i \in DOMAIN x, NEW j \in DOMAIN x, i < j,
                      x[i].file = f, x[j].file = f
               PROVE  <<x[i].op, x[j].op>> \in Follow
    BY DEF InTurn
  <2>0. i \in Int /\ j \in Int
    BY <1>1
  <2>1. CASE i \in 1 .. Len(e) /\ x[i] = e[i] /\ j \in 1 .. Len(e) /\ x[j] = e[j]
    BY <1>1, <1>4, <2>1 DEF InTurn
  <2>2. CASE i \in 1 .. Len(e) /\ x[i] = e[i] /\ j - Len(e) \in 1 .. Len(new) /\ x[j] = new[j - Len(e)]
    <3>1. x[i] \in Range(e) /\ x[j] \in Range(new)
      BY <1>1, <2>2 DEF Range
    <3> QED BY <1>4, <3>1
  <2>3. CASE i - Len(e) \in 1 .. Len(new) /\ x[i] = new[i - Len(e)]
             /\ j - Len(e) \in 1 .. Len(new) /\ x[j] = new[j - Len(e)]
    <3>1. i - Len(e) < j - Len(e)
      BY <1>1, <2>0
    <3> QED BY <1>1, <1>4, <2>3, <3>1 DEF InTurn
  <2>4. CASE i - Len(e) \in 1 .. Len(new) /\ j \in 1 .. Len(e)
    BY <1>1, <2>0, <2>4
  <2> QED BY <1>2, <2>1, <2>2, <2>3, <2>4
<1> QED BY <1>1, <1>3, <1>4 DEF x

\* One frame.
LEMMA OneFrame ==
    ASSUME NEW fr \in Frames
    PROVE  <<fr>> \in Seq(Frames) /\ Range(<<fr>>) = {fr} /\ \A f : InTurn(<<fr>>, f)
BY DEF Range, InTurn

\* No frame.
LEMMA NoFrame == <<>> \in Seq(Frames) /\ Range(<<>>) = {} /\ \A f : InTurn(<<>>, f)
BY DEF Range, InTurn

-----------------------------------------------------------------------------
(* What a step leaves alone. *)

SameSends(n, k, f) ==
    /\ f \in k.offered <=> f \in n.offered
    /\ f \in k.accepted <=> f \in n.accepted
    /\ f \in k.cancelled <=> f \in n.cancelled
    /\ f \in DOMAIN n.senders => k.senders[f] = n.senders[f]
SameHolds(m, k, f) ==
    /\ f \in DOMAIN k.offers <=> f \in DOMAIN m.offers
    /\ f \in DOMAIN k.recvQueued <=> f \in DOMAIN m.recvQueued
    /\ f \in DOMAIN k.receivers <=> f \in DOMAIN m.receivers
    /\ f \in k.cancelled <=> f \in m.cancelled
    /\ f \in DOMAIN m.offers => k.offers[f] = m.offers[f]
    /\ f \in DOMAIN m.recvQueued => k.recvQueued[f] = m.recvQueued[f]
    /\ f \in DOMAIN m.receivers => k.receivers[f] = m.receivers[f]
    /\ m.saved[f] \subseteq k.saved[f]
SameFrames(F, G, f) == \A fr : fr.file = f => (fr \in F <=> fr \in G)

\* A conversation is about its file only.
LEMMA SameTalk ==
    ASSUME NEW n, NEW k, NEW m, NEW l, NEW f, NEW P, NEW P2, NEW Q, NEW Q2,
           SameSends(n, k, f), SameHolds(m, l, f), SameFrames(P, P2, f), SameFrames(Q, Q2, f),
           n.offered \subseteq DOMAIN n.senders, Talk(n, m, f, P, Q)
    PROVE  Talk(k, l, f, P2, Q2)
<1>1. /\ f \in Hold(l) <=> f \in Hold(m)
      /\ \A v : HeldAt(l, f, v) <=> HeldAt(m, f, v)
      /\ f \in n.offered => k.senders[f] = n.senders[f]
      /\ Asked(n, f) <=> Asked(k, f)
  BY DEF SameSends, SameHolds, Hold, HeldAt, Asked
<1>2. /\ \A ops : Only(P, f, ops) <=> Only(P2, f, ops)
      /\ \A ops : Only(Q, f, ops) <=> Only(Q2, f, ops)
      /\ \A op : Carries(P, f, op) <=> Carries(P2, f, op)
      /\ \A op : Carries(Q, f, op) <=> Carries(Q2, f, op)
  BY DEF SameFrames, Only, Carries
<1>3. CASE f \in n.cancelled
  BY <1>1, <1>2, <1>3 DEF Talk, Over, SameSends
<1>4. ASSUME StoppedEarly(n, m, f, P, Q) PROVE StoppedEarly(k, l, f, P2, Q2)
  BY <1>1, <1>2, <1>4 DEF StoppedEarly
<1>5. ASSUME Stopped(n, m, f, P, Q) PROVE Stopped(k, l, f, P2, Q2)
  BY <1>1, <1>2, <1>5 DEF Stopped, SameSends
<1>6. ASSUME Idle(n, m, f, P, Q) PROVE Idle(k, l, f, P2, Q2)
  BY <1>1, <1>2, <1>6 DEF Idle, SameSends
<1>7. ASSUME OfferOnItsWay(n, m, f, P, Q) PROVE OfferOnItsWay(k, l, f, P2, Q2)
  BY <1>1, <1>2, <1>7 DEF OfferOnItsWay, SameFrames, Asked
<1>8. ASSUME Pending(n, m, f, P, Q) PROVE Pending(k, l, f, P2, Q2)
  BY <1>1, <1>2, <1>8 DEF Pending, SameHolds, Asked
<1>9. ASSUME Refused(n, m, f, P, Q) PROVE Refused(k, l, f, P2, Q2)
  BY <1>1, <1>2, <1>9 DEF Refused
<1>10. ASSUME Accepting(n, m, f, P, Q) PROVE Accepting(k, l, f, P2, Q2)
  BY <1>1, <1>2, <1>10 DEF Accepting, SameHolds, SameFrames, Asked
<1>11. ASSUME Running(n, m, f, P, Q) PROVE Running(k, l, f, P2, Q2)
  BY <1>1, <1>2, <1>11 DEF Running, SameHolds, Progress, SameFrames, Carries, SameSends
<1>12. ASSUME Done(n, m, f, P, Q) PROVE Done(k, l, f, P2, Q2)
  BY <1>1, <1>2, <1>12 DEF Done, SameHolds, SameSends
<1> QED BY <1>3, <1>4, <1>5, <1>6, <1>7, <1>8, <1>9, <1>10, <1>11, <1>12 DEF Talk, SameSends, SameHolds

\* Of the frames of c, c2 lacks at most some about f.
Shrinks(c, c2, f) ==
    /\ c2 \in Seq(Frames) /\ Range(c2) \subseteq Range(c)
    /\ \A g \in Files \ {f} : SameFrames(Range(c), Range(c2), g)
    /\ \A g \in Files : InTurn(c, g) => InTurn(c2, g)

\* No frame is taken.
LEMMA ShrinksNot ==
    ASSUME NEW c \in Seq(Frames), NEW f
    PROVE  Shrinks(c, c, f)
BY DEF Shrinks, SameFrames

\* The first frame is taken.
LEMMA ShrinksByHead ==
    ASSUME NEW c \in Seq(Frames), c # <<>>
    PROVE  Shrinks(c, Tail(c), Head(c).file)
BY TailIs DEF Shrinks, SameFrames

\* Frames sent one after the other.
LEMMA FramesAssociative ==
    ASSUME NEW a \in Seq(Frames), NEW b \in Seq(Frames), NEW c \in Seq(Frames)
    PROVE  (a \o b) \o c = a \o (b \o c)
<1> HIDE DEF Frames
<1> QED BY ConcatAssociative

\* A handler's step about one file: only its conversation needs a look.
LEMMA StepAbout ==
    ASSUME OneWay, NEW p, NEW n, NEW m, NEW c, NEW d, Good(p, n, m, c, d),
           NEW f \in Files, NEW k, Half(p, k), k.source = n.source, Dated(k, m.source),
           NEW new \in Seq(Frames), k.out = n.out \o new,
           \A fr \in Range(new) : fr.file = f /\ IsFrame(Other(p), p, n.source, fr),
           NEW c2, Shrinks(c, c2, f),
           \A g \in Files \ {f} : SameSends(n, k, g) /\ SameHolds(n, k, g),
           <<p, f>> \in Plan => Line(k, m, f, c2, (d \o n.out) \o new),
           <<Other(p), f>> \in Plan => Line(m, k, f, (d \o n.out) \o new, c2)
    PROVE  Good(p, k, m, c2, d)
<1> DEFINE e == d \o n.out
           e2 == e \o new
<1>1. /\ p \in Peers /\ Half(p, n) /\ Half(Other(p), m) /\ Drained(m) /\ d \in Seq(Frames)
      /\ Link(p, n, m, c, e)
  BY DEF Good
<1>2. /\ c \in Seq(Frames) /\ \A fr \in Range(c) : IsFrame(p, Other(p), m.source, fr)
      /\ e \in Seq(Frames) /\ \A fr \in Range(e) : IsFrame(Other(p), p, n.source, fr)
      /\ Dated(n, m.source) /\ Dated(m, n.source)
      /\ \A g \in Files : <<p, g>> \in Plan => Line(n, m, g, c, e)
      /\ \A g \in Files : <<Other(p), g>> \in Plan => Line(m, n, g, e, c)
  BY <1>1 DEF Link
<1>3. d \o k.out = e2
  <2>1. n.out \in Seq(Frames)
    BY <1>1 DEF Half
  <2>2. (d \o n.out) \o new = d \o (n.out \o new)
    BY <1>1, <2>1, FramesAssociative
  <2> QED BY <2>2
<1>4. /\ e2 \in Seq(Frames) /\ Range(e2) = Range(e) \cup Range(new)
      /\ \A g \in Files \ {f} : InTurn(e, g) => InTurn(e2, g)
  <2>1. \A g \in Files \ {f} : InTurn(new, g)
    <3>1. \A i \in DOMAIN new : new[i].file = f
      BY DEF Range
    <3> QED BY <3>1 DEF InTurn
  <2> HIDE DEF e
  <2> QED BY <1>2, <2>1, AppendIs
<1> HIDE DEF e, e2
<1>5. \A g \in Files \ {f} : SameFrames(Range(e), Range(e2), g) /\ SameFrames(Range(c), Range(c2), g)
  BY <1>4 DEF SameFrames, Shrinks
<1>6. n.offered \subseteq DOMAIN n.senders /\ m.offered \subseteq DOMAIN m.senders
  BY <1>1 DEF Half, SendSide
<1>7. \A g : SameSends(m, m, g) /\ SameHolds(m, m, g)
  BY DEF SameSends, SameHolds
<1>8. ASSUME NEW g \in Files, <<p, g>> \in Plan PROVE Line(k, m, g, c2, e2)
  <2>1. CASE g = f
    BY <1>8, <2>1 DEF e, e2
  <2>2. CASE g # f
    <3>1. SameSends(n, k, g) /\ Line(n, m, g, c, e)
      BY <1>2, <1>8, <2>2
    <3>2. Talk(k, m, g, Range(c2), Range(e2))
      BY <1>5, <1>6, <1>7, <2>2, <3>1, SameTalk DEF Line
    <3>3. InTurn(e2, g) /\ (g \notin k.cancelled => InTurn(c2, g))
      BY <1>4, <2>2, <3>1 DEF Line, SameSends, Shrinks
    <3> QED BY <3>2, <3>3 DEF Line
  <2> QED BY <2>1, <2>2
<1>9. ASSUME NEW g \in Files, <<Other(p), g>> \in Plan PROVE Line(m, k, g, e2, c2)
  <2>1. CASE g = f
    BY <1>9, <2>1 DEF e, e2
  <2>2. CASE g # f
    <3>1. SameHolds(n, k, g) /\ Line(m, n, g, e, c)
      BY <1>2, <1>9, <2>2
    <3>2. Talk(m, k, g, Range(e2), Range(c2))
      BY <1>5, <1>6, <1>7, <2>2, <3>1, SameTalk DEF Line
    <3>3. InTurn(c2, g) /\ (g \notin m.cancelled => InTurn(e2, g))
      BY <1>4, <2>2, <3>1 DEF Line, Shrinks
    <3> QED BY <3>2, <3>3 DEF Line
  <2> QED BY <2>1, <2>2
<1>10. Link(p, k, m, c2, e2)
  <2>1. c2 \in Seq(Frames) /\ \A fr \in Range(c2) : IsFrame(p, Other(p), m.source, fr)
    BY <1>2 DEF Shrinks
  <2>2. \A fr \in Range(e2) : IsFrame(Other(p), p, k.source, fr)
    BY <1>2, <1>4
  <2>3. Dated(k, m.source) /\ Dated(m, k.source)
    BY <1>2
  <2> QED BY <1>4, <1>8, <1>9, <2>1, <2>2, <2>3 DEF Link
<1> QED BY <1>1, <1>3, <1>10 DEF Good

\* The conversations see of a node only what they are about.
LEMMA LinkAside ==
    ASSUME NEW p \in Peers, NEW n, NEW m, NEW c, NEW e, Half(p, n), Half(Other(p), m), Link(p, n, m, c, e),
           NEW k, k.source = n.source, \A g \in Files : SameSends(n, k, g) /\ SameHolds(n, k, g),
           Hold(k) = Hold(n)
    PROVE  Link(p, k, m, c, e)
<1>1. /\ n.offered \subseteq DOMAIN n.senders /\ m.offered \subseteq DOMAIN m.senders
      /\ \A g : SameSends(m, m, g) /\ SameHolds(m, m, g)
  BY DEF Half, SendSide, SameSends, SameHolds
<1>2. \A F, g : SameFrames(F, F, g)
  BY DEF SameFrames
<1>3. Dated(k, m.source)
  <2>1. ASSUME NEW g \in Hold(n) PROVE g \in Files
    <3>1. <<Other(p), g>> \in Plan
      BY DEF Half, RecvSide
    <3> QED BY <3>1, FileTransferAssumption
  <2>2. Dated(n, m.source)
    BY DEF Link
  <2> QED BY <2>1, <2>2 DEF Dated, SameHolds, Hold
<1>4. ASSUME NEW g \in Files, <<p, g>> \in Plan PROVE Line(k, m, g, c, e)
  <2>1. Line(n, m, g, c, e)
    BY <1>4 DEF Link
  <2>2. Talk(k, m, g, Range(c), Range(e))
    BY <1>1, <1>2, <2>1, SameTalk DEF Line
  <2> QED BY <2>1, <2>2 DEF Line, SameSends
<1>5. ASSUME NEW g \in Files, <<Other(p), g>> \in Plan PROVE Line(m, k, g, e, c)
  <2>1. Line(m, n, g, e, c)
    BY <1>5 DEF Link
  <2>2. Talk(m, k, g, Range(e), Range(c))
    BY <1>1, <1>2, <2>1, SameTalk DEF Line
  <2> QED BY <2>1, <2>2 DEF Line
<1> QED BY <1>3, <1>4, <1>5 DEF Link

\* A step that sends nothing and changes nothing the conversations are about.
LEMMA StepAside ==
    ASSUME NEW p, NEW n, NEW m, NEW c, NEW d, Good(p, n, m, c, d),
           NEW k, Half(p, k), k.source = n.source, k.out = n.out,
           \A g \in Files : SameSends(n, k, g) /\ SameHolds(n, k, g)
    PROVE  Good(p, k, m, c, d)
<1>1. /\ p \in Peers /\ Half(p, n) /\ Half(Other(p), m) /\ Drained(m) /\ d \in Seq(Frames)
      /\ Link(p, n, m, c, d \o n.out)
  BY DEF Good
<1>2. Hold(k) = Hold(n)
  <2>1. ASSUME NEW g \in Hold(k) PROVE g \in Files
    <3>1. <<Other(p), g>> \in Plan
      BY DEF Half, RecvSide
    <3> QED BY <3>1, FileTransferAssumption
  <2>2. ASSUME NEW g \in Hold(n) PROVE g \in Files
    <3>1. <<Other(p), g>> \in Plan
      BY <1>1 DEF Half, RecvSide
    <3> QED BY <3>1, FileTransferAssumption
  <2>3. \A g \in Files : g \in Hold(n) <=> g \in Hold(k)
    BY DEF SameHolds, Hold
  <2> QED BY <2>1, <2>2, <2>3
<1>3. Link(p, k, m, c, d \o n.out)
  BY <1>1, <1>2, LinkAside
<1> QED BY <1>1, <1>3 DEF Good

-----------------------------------------------------------------------------
(* The queues and the loops over them. *)

\* A queue and what lies behind its head.
LEMMA QueueTail ==
    ASSUME NEW q \in Seq(Files), q # <<>>
    PROVE  /\ Tail(q) \in Seq(Files) /\ Head(q) \in Files /\ Len(Tail(q)) = Len(q) - 1 /\ Len(q) \in Nat \ {0}
           /\ 1 \in DOMAIN q /\ Head(q) = q[1]
           /\ Range(q) = {Head(q)} \cup Range(Tail(q))
           /\ \A i \in DOMAIN Tail(q) : i \in Nat \ {0} /\ i + 1 \in DOMAIN q /\ Tail(q)[i] = q[i + 1]
<1>1. /\ Tail(q) \in Seq(Files) /\ Head(q) \in Files
      /\ Len(q) \in Nat \ {0} /\ DOMAIN q = 1 .. Len(q)
      /\ Len(Tail(q)) = Len(q) - 1 /\ DOMAIN Tail(q) = 1 .. Len(q) - 1
      /\ \A i \in 1 .. Len(q) - 1 : Tail(q)[i] = q[i + 1]
      /\ Head(q) = q[1]
  BY HeadTailProperties, EmptySeq, LenProperties
<1>2. \A i \in DOMAIN Tail(q) : i \in Nat \ {0} /\ i + 1 \in DOMAIN q
  BY <1>1
<1>3. ASSUME NEW x \in Range(q) PROVE x \in {Head(q)} \cup Range(Tail(q))
  <2>1. PICK i \in 1 .. Len(q) : x = q[i]
    BY <1>1 DEF Range
  <2>2. i = 1 \/ (i - 1 \in 1 .. Len(q) - 1 /\ Tail(q)[i - 1] = q[i])
    BY <1>1
  <2> QED BY <1>1, <2>1, <2>2 DEF Range
<1>4. ASSUME NEW x \in Range(Tail(q)) PROVE x \in Range(q)
  <2>1. PICK i \in DOMAIN Tail(q) : x = Tail(q)[i]
    BY DEF Range
  <2> QED BY <1>1, <1>2, <2>1 DEF Range
<1>5. Head(q) \in Range(q)
  BY <1>1 DEF Range
<1> QED BY <1>1, <1>2, <1>3, <1>4, <1>5

\* A queue and one more at its end.
LEMMA QueueAppend ==
    ASSUME NEW q \in Seq(Files), NEW f \in Files
    PROVE  /\ Append(q, f) \in Seq(Files) /\ Range(Append(q, f)) = Range(q) \cup {f}
           /\ \A i \in DOMAIN Append(q, f) :
                 \/ i \in DOMAIN q /\ Append(q, f)[i] = q[i]
                 \/ i = Len(q) + 1 /\ Append(q, f)[i] = f
<1> DEFINE x == Append(q, f)
<1>1. /\ x \in Seq(Files) /\ Len(q) \in Nat /\ Len(x) = Len(q) + 1
      /\ DOMAIN q = 1 .. Len(q) /\ DOMAIN x = 1 .. Len(q) + 1
      /\ \A i \in 1 .. Len(q) : x[i] = q[i]
      /\ x[Len(q) + 1] = f
  BY AppendProperties, LenProperties
<1> HIDE DEF x
<1>2. \A i \in DOMAIN x : \/ i \in DOMAIN q /\ x[i] = q[i]
                          \/ i = Len(q) + 1 /\ x[i] = f
  BY <1>1
<1>3. Range(x) = Range(q) \cup {f}
  <2>1. Len(q) + 1 \in DOMAIN x /\ \A i \in DOMAIN q : i \in DOMAIN x
    BY <1>1
  <2> QED BY <1>1, <1>2, <2>1 DEF Range
<1> QED BY <1>1, <1>2, <1>3 DEF x

\* What PopSend does to a node: nothing, or it drops a task, or it offers one.
LEMMA PopSendIs ==
    ASSUME NEW n, Shape(n)
    PROVE  LET f == Head(n.sendQueue)
               k == PopSend(n)
           IN  /\ Shape(k)
               /\ \A x \in Fields \ {"sendQueue", "sendQueued", "sendActive", "offered", "out"} : k[x] = n[x]
               /\ k # n => n.sendQueue # <<>> /\ k.sendQueue = Tail(n.sendQueue) /\ k.sendQueued = n.sendQueued \ {f}
               /\ k # n =>
                        \/ /\ f \notin DOMAIN n.senders \/ f \in n.cancelled
                           /\ k.sendActive = n.sendActive /\ k.offered = n.offered /\ k.out = n.out
                        \/ /\ f \in DOMAIN n.senders /\ f \notin n.cancelled
                           /\ SlotFree(n.sendActive)
                           /\ k.sendActive = n.sendActive + 1 /\ k.offered = n.offered \cup {f}
                           /\ k.out = n.out \o <<Frame("Offer", f, 0, n.senders[f].version)>>
<1> DEFINE f == Head(n.sendQueue)
           popped == [n EXCEPT !.sendQueue = Tail(n.sendQueue), !.sendQueued = n.sendQueued \ {f}]
<1>1. CASE n.sendQueue = <<>> \/ ~SlotFree(n.sendActive)
  <2>1. PopSend(n) = n
    BY <1>1 DEF PopSend
  <2> QED BY <2>1
<1>2. CASE /\ ~(n.sendQueue = <<>> \/ ~SlotFree(n.sendActive))
           /\ f \notin DOMAIN n.senders \/ f \in n.cancelled
  <2>1. PopSend(n) = popped
    BY <1>2 DEF PopSend
  <2> QED BY <1>2, <2>1 DEF Shape, Fields
<1>3. CASE /\ ~(n.sendQueue = <<>> \/ ~SlotFree(n.sendActive))
           /\ ~(f \notin DOMAIN n.senders \/ f \in n.cancelled)
  <2>1. PopSend(n) = [popped EXCEPT !.sendActive = n.sendActive + 1, !.offered = n.offered \cup {f},
                        !.out = n.out \o <<Frame("Offer", f, 0, n.senders[f].version)>>]
    BY <1>3 DEF PopSend, Send, Shape, Fields
  <2> QED BY <1>3, <2>1 DEF Shape, Fields
<1> QED BY <1>1, <1>2, <1>3

\* A popped task that is not cancelled is offered: its conversation begins.
LEMMA PopSendGood ==
    ASSUME OneWay, NEW p, NEW n, NEW m, NEW c, NEW d, Good(p, n, m, c, d)
    PROVE  Good(p, PopSend(n), m, c, d)
<1> DEFINE f == Head(n.sendQueue)
           k == PopSend(n)
           fr == Frame("Offer", f, 0, n.senders[f].version)
           e == d \o n.out
<1>1. /\ p \in Peers /\ Half(p, n) /\ Half(Other(p), m) /\ d \in Seq(Frames) /\ Link(p, n, m, c, e)
  BY DEF Good
<1>2. /\ Shape(n) /\ n.out \in Seq(Frames) /\ SendSide(p, n) /\ RecvSide(Other(p), n)
      /\ Stored(Other(p), n)
  BY <1>1 DEF Half
<1>3. /\ Shape(k)
      /\ \A x \in Fields \ {"sendQueue", "sendQueued", "sendActive", "offered", "out"} : k[x] = n[x]
      /\ k # n => n.sendQueue # <<>> /\ k.sendQueue = Tail(n.sendQueue) /\ k.sendQueued = n.sendQueued \ {f}
      /\ k # n =>
               \/ /\ f \notin DOMAIN n.senders \/ f \in n.cancelled
                  /\ k.sendActive = n.sendActive /\ k.offered = n.offered /\ k.out = n.out
               \/ /\ f \in DOMAIN n.senders /\ f \notin n.cancelled
                  /\ SlotFree(n.sendActive)
                  /\ k.sendActive = n.sendActive + 1 /\ k.offered = n.offered \cup {f}
                  /\ k.out = n.out \o <<fr>>
  BY <1>2, PopSendIs
<1> HIDE DEF k
<1>4. /\ k.senders = n.senders /\ k.accepted = n.accepted /\ k.offers = n.offers
      /\ k.recvQueue = n.recvQueue /\ k.recvQueued = n.recvQueued /\ k.receivers = n.receivers
      /\ k.recvActive = n.recvActive /\ k.cancelled = n.cancelled /\ k.store = n.store
      /\ k.part = n.part /\ k.saved = n.saved /\ k.source = n.source
  BY <1>3 DEF Fields
<1>5. RecvSide(Other(p), k) /\ Stored(Other(p), k) /\ Dated(k, m.source) /\ Dated(n, m.source)
  BY <1>1, <1>2, <1>4 DEF RecvSide, Hold, Stored, Link, Dated
<1>6. \A g \in Files : SameHolds(n, k, g) /\ (g # f => SameSends(n, k, g))
  BY <1>3, <1>4 DEF SameHolds, SameSends
<1>7. ASSUME k # n PROVE Good(p, k, m, c, d)
  <2>1. /\ n.sendQueue # <<>> /\ f \in Files /\ k.sendQueue \in Seq(Files)
        /\ Range(n.sendQueue) = {f} \cup Range(k.sendQueue)
        /\ \A i \in DOMAIN k.sendQueue : i \in Nat \ {0} /\ i + 1 \in DOMAIN n.sendQueue
                                        /\ k.sendQueue[i] = n.sendQueue[i + 1]
        /\ 1 \in DOMAIN n.sendQueue /\ f = n.sendQueue[1]
    <3>1. n.sendQueue # <<>> /\ n.sendQueue \in Seq(Files) /\ k.sendQueue = Tail(n.sendQueue)
      BY <1>2, <1>3, <1>7 DEF SendSide
    <3> QED BY <3>1, QueueTail
  <2>2. k.sendQueued = n.sendQueued \ {f} /\ k.sendQueued \subseteq Range(k.sendQueue)
    BY <1>2, <1>3, <1>7, <2>1 DEF SendSide
  <2>3. ASSUME NEW i \in DOMAIN k.sendQueue, NEW j \in DOMAIN k.sendQueue, k.sendQueue[i] \notin k.cancelled
        PROVE  /\ k.sendQueue[i] \in k.sendQueued
               /\ k.sendQueue[i] = k.sendQueue[j] => i = j
    <3>1. n.sendQueue[i + 1] \in n.sendQueued
      BY <1>2, <1>4, <2>1, <2>3 DEF SendSide
    <3>2. n.sendQueue[i + 1] # n.sendQueue[1]
      <4>1. i + 1 # 1
        BY <2>1
      <4> QED BY <1>2, <1>4, <2>1, <2>3, <4>1 DEF SendSide
    <3>3. n.sendQueue[i + 1] = n.sendQueue[j + 1] => i + 1 = j + 1
      BY <1>2, <1>4, <2>1, <2>3 DEF SendSide
    <3> QED BY <2>1, <2>2, <3>1, <3>2, <3>3
  <2>4. \A g \in DOMAIN k.senders : Task(p, k, g)
    BY <1>2, <1>4 DEF SendSide, Task
  <2>5. CASE k.sendActive = n.sendActive /\ k.offered = n.offered /\ k.out = n.out
    <3>1. SendSide(p, k)
      BY <1>2, <1>4, <2>1, <2>2, <2>3, <2>4, <2>5 DEF SendSide
    <3>2. Half(p, k)
      BY <1>2, <1>3, <1>5, <2>5, <3>1 DEF Half
    <3>3. SameSends(n, k, f)
      BY <1>4, <2>5 DEF SameSends
    <3> QED BY <1>4, <1>6, <2>5, <3>2, <3>3, StepAside
  <2>6. CASE /\ f \in DOMAIN n.senders /\ f \notin n.cancelled /\ SlotFree(n.sendActive)
             /\ k.sendActive = n.sendActive + 1 /\ k.offered = n.offered \cup {f}
             /\ k.out = n.out \o <<fr>>
    <3>1. /\ IsFiniteSet(n.offered) /\ f \in n.sendQueued /\ f \notin n.offered
          /\ n.sendActive \in 0 .. MaxConcurrent /\ n.sendActive <= Cardinality(n.offered)
      <4>1. f \in n.sendQueued
        BY <1>2, <2>1, <2>6 DEF SendSide
      <4> QED BY <1>2, <4>1, FS_Subset DEF SendSide
    <3>2. k.sendActive \in 0 .. MaxConcurrent /\ k.sendActive <= Cardinality(k.offered)
      <4>1. Cardinality(k.offered) = Cardinality(n.offered) + 1
        BY <2>6, <3>1, FS_AddElement
      <4>2. Cardinality(n.offered) \in Nat
        BY <3>1, FS_CardinalityType
      <4> QED BY <2>6, <3>1, <4>1, <4>2, FileTransferAssumption DEF SlotFree
    <3>3. SendSide(p, k)
      <4>1. k.offered \subseteq DOMAIN k.senders /\ k.sendQueued \cap k.offered = {}
        BY <1>2, <1>4, <2>2, <2>6 DEF SendSide
      <4> QED BY <1>2, <1>4, <2>1, <2>2, <2>3, <2>4, <3>2, <4>1 DEF SendSide
    <3>4. Task(p, n, f) /\ <<p, f>> \in Plan /\ n.senders[f].version \in 1 .. n.source[f]
      BY <1>2, <2>6 DEF SendSide, Task
    <3>5. n.source[f] \in Versions
      BY <1>2, <2>1 DEF SendSide
    <3>6. /\ fr \in Frames /\ fr.op = "Offer" /\ fr.file = f /\ fr.version = n.senders[f].version
      BY <2>1, <3>4, <3>5, SlideWindowAssumption, FileTransferAssumption DEF Frame, Frames, Ops, Versions
    <3>7. IsFrame(Other(p), p, n.source, fr)
      BY <3>4, <3>6 DEF IsFrame
    <3>8. /\ <<fr>> \in Seq(Frames) /\ Range(<<fr>>) = {fr} /\ \A g : InTurn(<<fr>>, g)
      BY <3>6, OneFrame
    <3>9. Half(p, k)
      <4>1. k.out \in Seq(Frames)
        BY <1>2, <2>6, <3>8, AppendIs
      <4> QED BY <1>3, <1>5, <3>3, <4>1 DEF Half
    <3>10. e \in Seq(Frames) /\ c \in Seq(Frames) /\ Line(n, m, f, c, e)
      BY <1>1, <2>1, <3>4 DEF Link
    <3>11. Idle(n, m, f, Range(c), Range(e)) /\ f \notin m.cancelled
      BY <2>6, <3>1, <3>10 DEF Line, Talk, StoppedEarly, Stopped, Idle, OfferOnItsWay, Pending,
         Refused, Accepting, Running, Done, Asked
    <3>12. /\ Range(e \o <<fr>>) = Range(e) \cup {fr}
           /\ InTurn(e \o <<fr>>, f)
      <4>1. \A a \in Range(e) : a.file # f
        BY <3>11 DEF Idle, Only
      <4> QED BY <3>8, <3>10, <4>1, AppendIs DEF Line
    <3>13. OfferOnItsWay(k, m, f, Range(c), Range(e \o <<fr>>))
      BY <1>4, <2>6, <3>6, <3>11, <3>12 DEF Idle, OfferOnItsWay, Asked, Only, Carries
    <3>14. Line(k, m, f, c, e \o <<fr>>)
      BY <1>4, <2>6, <3>10, <3>11, <3>12, <3>13 DEF Line, Talk
    <3>15. <<Other(p), f>> \notin Plan
      BY <1>1, <3>4, OtherIs, <2>1 DEF OneWay
    <3>16. Shrinks(c, c, f)
      BY <3>10, ShrinksNot
    <3> QED BY <1>4, <1>5, <1>6, <2>1, <2>6, <3>6, <3>7, <3>8, <3>9, <3>14, <3>15, <3>16, StepAbout
  <2> QED BY <1>3, <1>7, <2>5, <2>6
<1>8. CASE k = n
  BY <1>8 DEF k
<1> QED BY <1>7, <1>8 DEF k

\* The loop of schedule_next_send, run by run.
LEMMA ScheduleIs ==
    ASSUME NEW n, n.sendQueue \in Seq(Files)
    PROVE  LET L == Len(n.sendQueue) IN
           /\ L \in Nat
           /\ \E h : /\ h[0] = n /\ h[L] = ScheduleNextSend(n)
                     /\ \A i \in 0 .. L - 1 : h[i + 1] = PopSend(h[i])
<1> DEFINE L == Len(n.sendQueue)
           Is(h, k) == h = [i \in 0 .. k |-> IF i = 0 THEN n ELSE PopSend(h[i - 1])]
           B == {k \in 0 .. L : \E h : Is(h, k)}
<1>1. L \in Nat
  BY LenProperties
<1>2. 0 \in B
  <2>1. Is([i \in 0 .. 0 |-> n], 0)
    OBVIOUS
  <2> HIDE DEF Is
  <2> QED BY <1>1, <2>1
<1>3. ASSUME NEW k \in 0 .. L - 1, k \in B PROVE k + 1 \in B
  <2>1. PICK h : Is(h, k)
    BY <1>3
  <2> DEFINE g == [i \in 0 .. k + 1 |-> IF i <= k THEN h[i] ELSE PopSend(h[k])]
  <2>2. \A i \in 0 .. k + 1 : g[i] = IF i = 0 THEN n ELSE PopSend(g[i - 1])
    BY <1>1, <2>1
  <2>3. Is(g, k + 1)
    <3>1. DOMAIN g = 0 .. k + 1
      OBVIOUS
    <3>2. g = [i \in 0 .. k + 1 |-> g[i]]
      BY <3>1
    <3> HIDE DEF g
    <3> QED BY <2>2, <3>2
  <2> HIDE DEF Is
  <2> QED BY <1>1, <2>3
<1>4. \E h : Is(h, L)
  <2> HIDE DEF B
  <2>1. L \in B
    BY <1>1, <1>2, <1>3, Reached
  <2> QED BY <2>1 DEF B
<1> DEFINE go == CHOOSE h : Is(h, L)
<1>5. Is(go, L)
  BY <1>4
<1>6. ScheduleNextSend(n) = go[L]
  BY DEF ScheduleNextSend
<1> HIDE DEF go
<1>7. go[0] = n /\ \A i \in 0 .. L - 1 : go[i + 1] = PopSend(go[i])
  BY <1>1, <1>5
<1> QED BY <1>1, <1>6, <1>7

\* What schedule_next_send leaves alone.
SameButSends(n, k) ==
    /\ k.senders = n.senders /\ k.accepted = n.accepted /\ k.offers = n.offers
    /\ k.recvQueue = n.recvQueue /\ k.recvQueued = n.recvQueued /\ k.receivers = n.receivers
    /\ k.recvActive = n.recvActive /\ k.cancelled = n.cancelled /\ k.store = n.store
    /\ k.part = n.part /\ k.saved = n.saved /\ k.source = n.source /\ k.finished = n.finished

\* pop_ready on the sending side is about its queue and its frames only.
LEMMA PopSendKeeps ==
    ASSUME NEW n, Shape(n)
    PROVE  SameButSends(n, PopSend(n))
<1> DEFINE k == PopSend(n)
<1>1. \A x \in Fields \ {"sendQueue", "sendQueued", "sendActive", "offered", "out"} : k[x] = n[x]
  BY PopSendIs
<1> HIDE DEF k
<1>2. SameButSends(n, k)
  BY <1>1 DEF SameButSends, Fields
<1> QED BY <1>2 DEF k

\* schedule_next_send keeps what the two ends know of each other.
LEMMA ScheduleGood ==
    ASSUME OneWay, NEW p, NEW n, NEW m, NEW c, NEW d, Good(p, n, m, c, d)
    PROVE  Good(p, ScheduleNextSend(n), m, c, d) /\ SameButSends(n, ScheduleNextSend(n))
<1> DEFINE L == Len(n.sendQueue)
<1>1. n.sendQueue \in Seq(Files)
  BY DEF Good, Half, SendSide
<1>2. L \in Nat /\ \E h : /\ h[0] = n /\ h[L] = ScheduleNextSend(n)
                        /\ \A i \in 0 .. L - 1 : h[i + 1] = PopSend(h[i])
  BY <1>1, ScheduleIs
<1>3. PICK h : /\ h[0] = n /\ h[L] = ScheduleNextSend(n)
               /\ \A i \in 0 .. L - 1 : h[i + 1] = PopSend(h[i])
  BY <1>2
<1> DEFINE B == {i \in 0 .. L : Good(p, h[i], m, c, d) /\ SameButSends(n, h[i])}
<1> HIDE DEF L
<1>4. 0 \in B
  BY <1>2, <1>3 DEF SameButSends
<1>5. ASSUME NEW i \in 0 .. L - 1, i \in B PROVE i + 1 \in B
  <2>1. Good(p, h[i], m, c, d) /\ SameButSends(n, h[i]) /\ h[i + 1] = PopSend(h[i])
    BY <1>3, <1>5
  <2>2. Good(p, h[i + 1], m, c, d)
    BY <2>1, PopSendGood
  <2>3. Shape(h[i])
    BY <2>1 DEF Good, Half
  <2>5. SameButSends(n, h[i + 1])
    <3>1. PICK a : a = h[i]
      OBVIOUS
    <3>2. SameButSends(a, PopSend(a))
      BY <2>3, <3>1, PopSendKeeps
    <3> QED BY <2>1, <3>1, <3>2 DEF SameButSends
  <2>6. i + 1 \in 0 .. L
    BY <1>2
  <2> QED BY <2>2, <2>5, <2>6
<1>6. L \in B
  <2> HIDE DEF B
  <2> QED BY <1>2, <1>4, <1>5, Reached
<1> QED BY <1>3, <1>6

-----------------------------------------------------------------------------
(* What a sender sends. *)

\* the Data frames of fill_window
Blocks(n, f, w) ==
    LET blocks == Ascending(Sendable(w))
    IN  [i \in 1 .. Len(blocks) |-> Frame("Data", f, blocks[i], n.source[f])]

\* the frames new of p are blocks of f, one for every sendable block of w
AreBlocks(p, n, f, w, new) ==
    /\ new \in Seq(Frames)
    /\ \A fr \in Range(new) :
          /\ fr.file = f /\ fr.op = "Data" /\ fr.seq \in Sendable(w)
          /\ \A q : IsFrame(q, p, n.source, fr)
    /\ \A x \in Sendable(w) : \E fr \in Range(new) : fr.seq = x
    /\ \A g : InTurn(new, g)
    /\ Sendable(w) = {} => new = <<>>

\* Every sendable block goes out, as it is in the source now.
LEMMA BlocksAre ==
    ASSUME NEW p, NEW n, SendSide(p, n), NEW f \in Files, <<p, f>> \in Plan,
           NEW w, Sendable(w) \subseteq Seqs
    PROVE  AreBlocks(p, n, f, w, Blocks(n, f, w))
<1> DEFINE S == Sendable(w)
           t == Ascending(S)
           b == Blocks(n, f, w)
           L == Cardinality(S)
           x(i) == Frame("Data", f, t[i], n.source[f])
<1>1. L \in Nat /\ t \in [1 .. L -> S] /\ \A q \in S : \E i \in 1 .. L : t[i] = q
  BY AscendingLists
<1>2. Len(t) = L
  <2> HIDE DEF t, S
  <2> QED BY <1>1
<1>3. b = [i \in 1 .. L |-> x(i)]
  BY <1>2 DEF Blocks
<1>4. n.source[f] \in Versions
  BY DEF SendSide
<1> HIDE DEF L, t, S, b
<1>5. \A i \in 1 .. L : /\ x(i) \in Frames /\ x(i).file = f /\ x(i).op = "Data"
                        /\ x(i).seq = t[i] /\ t[i] \in S /\ t[i] \in Seqs /\ x(i).version = n.source[f]
  <2> SUFFICES ASSUME NEW i \in 1 .. L
               PROVE  /\ x(i) \in Frames /\ x(i).file = f /\ x(i).op = "Data"
                      /\ x(i).seq = t[i] /\ t[i] \in S /\ t[i] \in Seqs /\ x(i).version = n.source[f]
    OBVIOUS
  <2>1. t[i] \in S /\ t[i] \in Seqs
    BY <1>1 DEF S
  <2>2. t[i] \in 0 .. Total /\ n.source[f] \in 0 .. MaxVersion
    BY <1>4, <2>1, SlideWindowAssumption, FileTransferAssumption DEF Seqs, Versions
  <2> QED BY <2>1, <2>2 DEF Frame, Frames, Ops
<1>6. \A i \in 1 .. L : \A q : IsFrame(q, p, n.source, x(i))
  BY <1>4, <1>5 DEF IsFrame
<1> HIDE DEF x
<1>7. b \in Seq(Frames) /\ DOMAIN b = 1 .. L /\ \A i \in 1 .. L : b[i] = x(i)
  <2>1. \A i \in 1 .. L : x(i) \in Frames
    BY <1>5
  <2> HIDE DEF Frames
  <2> QED BY <1>1, <1>3, <2>1, IsASeq
<1>8. \A fr \in Range(b) : /\ fr.file = f /\ fr.op = "Data" /\ fr.seq \in S
                           /\ \A q : IsFrame(q, p, n.source, fr)
  BY <1>5, <1>6, <1>7 DEF Range
<1>9. \A q \in S : \E fr \in Range(b) : fr.seq = q
  BY <1>1, <1>5, <1>7 DEF Range
<1>10. \A g : InTurn(b, g)
  BY <1>5, <1>7 DEF InTurn, Follow
<1>11. S = {} => b = <<>>
  <2>1. ASSUME S = {} PROVE L = 0
    BY <2>1, FS_EmptySet DEF L
  <2> QED BY <1>3, <2>1
<1> QED BY <1>7, <1>8, <1>9, <1>10, <1>11 DEF S, b, AreBlocks

\* n has come to k: f has the window w, and out was sent since the handler began
Moved(n, k, f, w, out) ==
    /\ Shape(k)
    /\ k.senders = [n.senders EXCEPT ![f].window = w]
    /\ k.accepted = n.accepted \cup {f} /\ k.out = out
    /\ \A x \in Fields \ {"senders", "accepted", "out"} : k[x] = n[x]
Sends(n, k, f, w, new) == Moved(n, k, f, w, n.out \o new)

\* fill_window for an accepted task.
LEMMA FillIs ==
    ASSUME NEW n, Shape(n), NEW f \in DOMAIN n.senders, f \in n.accepted
    PROVE  Sends(n, Fill(n, f), f, FillWindow(n.senders[f].window), Blocks(n, f, n.senders[f].window))
BY DEF Fill, Send, Blocks, Sends, Moved, Shape, Fields, IsMap

\* on_accept: the end of a file that both ends know of, or blocks.
LEMMA OnAcceptFrameIs ==
    ASSUME NEW n, Shape(n), NEW f \in DOMAIN n.senders, NEW r, DOMAIN n.senders[f] = {"window", "version"}
    PROVE  LET v == OnAccept(n.senders[f].window, r)
               k == OnAcceptFrame(n, f, r)
           IN  IF AllAcked(v) THEN Sends(n, k, f, v, FinishFrame(f))
                              ELSE Sends(n, k, f, FillWindow(v), Blocks(n, f, v))
<1> DEFINE v == OnAccept(n.senders[f].window, r)
           m == [n EXCEPT !.senders[f].window = v, !.accepted = n.accepted \cup {f}]
           k == OnAcceptFrame(n, f, r)
<1>1. k = IF AllAcked(v) THEN Send(m, FinishFrame(f)) ELSE Fill(m, f)
  BY DEF OnAcceptFrame
<1> HIDE DEF k
<1>2. /\ Shape(m) /\ f \in DOMAIN m.senders /\ f \in m.accepted /\ m.senders[f].window = v
      /\ m.senders = [n.senders EXCEPT ![f].window = v] /\ m.accepted = n.accepted \cup {f}
      /\ \A x \in Fields \ {"senders", "accepted"} : m[x] = n[x]
  BY DEF Shape, Fields, IsMap
<1>3. CASE AllAcked(v)
  <2>1. k = Send(m, FinishFrame(f))
    BY <1>1, <1>3
  <2> HIDE DEF m
  <2>2. Sends(n, k, f, v, FinishFrame(f))
    BY <1>2, <2>1 DEF Send, Sends, Moved, Shape, Fields
  <2> QED BY <1>3, <2>2 DEF k
<1>4. CASE ~AllAcked(v)
  <2>1. k = Fill(m, f)
    BY <1>1, <1>4
  <2> HIDE DEF m, v
  <2>2. Sends(m, k, f, FillWindow(v), Blocks(m, f, v))
    BY <1>2, <2>1, FillIs
  <2>3. Blocks(m, f, v) = Blocks(n, f, v)
    BY <1>2 DEF Blocks, Fields
  <2>4. [m.senders EXCEPT ![f].window = FillWindow(v)] = [n.senders EXCEPT ![f].window = FillWindow(v)]
    BY <1>2
  <2>5. Sends(n, k, f, FillWindow(v), Blocks(n, f, v))
    BY <1>2, <2>2, <2>3, <2>4 DEF Sends, Moved, Fields
  <2> QED BY <1>4, <2>5 DEF k, v
<1> QED BY <1>3, <1>4

\* on_ack: the end of the file once, or blocks.
LEMMA OnAckFrameIs ==
    ASSUME NEW n, Shape(n), n.out \in Seq(Frames), NEW f \in DOMAIN n.senders, NEW seq,
           DOMAIN n.senders[f] = {"window", "version"}, f \in n.accepted
    PROVE  LET w == n.senders[f].window
               v == OnAck(w, seq)
               end == IF AllAcked(v) /\ ~AllAcked(w) THEN FinishFrame(f) ELSE <<>>
               k == OnAckFrame(n, f, seq)
           IN  Moved(n, k, f, FillWindow(v), (n.out \o end) \o Blocks(n, f, v))
<1> DEFINE w == n.senders[f].window
           v == OnAck(w, seq)
           end == IF AllAcked(v) /\ ~AllAcked(w) THEN FinishFrame(f) ELSE <<>>
           m == [n EXCEPT !.senders[f].window = v]
           l == IF AllAcked(v) /\ ~AllAcked(w) THEN Send(m, FinishFrame(f)) ELSE m
           k == OnAckFrame(n, f, seq)
<1>1. k = Fill(l, f)
  BY DEF OnAckFrame
<1> HIDE DEF k
<1>2. /\ Shape(m) /\ m.senders = [n.senders EXCEPT ![f].window = v]
      /\ \A x \in Fields \ {"senders"} : m[x] = n[x]
  BY DEF Shape, Fields, IsMap
<1>3. /\ Shape(l) /\ l.senders = [n.senders EXCEPT ![f].window = v] /\ l.out = n.out \o end
      /\ \A x \in Fields \ {"senders", "out"} : l[x] = n[x]
  <2> HIDE DEF m
  <2>1. n.out \o <<>> = n.out
    OBVIOUS
  <2>2. CASE AllAcked(v) /\ ~AllAcked(w)
    <3>1. l = Send(m, FinishFrame(f)) /\ end = FinishFrame(f)
      BY <2>2
    <3> HIDE DEF l, end
    <3> QED BY <1>2, <3>1 DEF Send, Shape, Fields
  <2>3. CASE ~(AllAcked(v) /\ ~AllAcked(w))
    <3>1. l = m /\ end = <<>>
      BY <2>3
    <3> HIDE DEF l, end
    <3> QED BY <1>2, <2>1, <3>1 DEF Fields
  <2> QED BY <2>2, <2>3
<1> HIDE DEF l, m, end
<1>4. f \in DOMAIN l.senders /\ f \in l.accepted /\ l.senders[f].window = v /\ l.source = n.source
  BY <1>3 DEF Fields
<1> HIDE DEF v, w
<1>5. Sends(l, k, f, FillWindow(v), Blocks(l, f, v))
  BY <1>1, <1>3, <1>4, FillIs
<1>6. Blocks(l, f, v) = Blocks(n, f, v)
  BY <1>4 DEF Blocks
<1>7. [l.senders EXCEPT ![f].window = FillWindow(v)] = [n.senders EXCEPT ![f].window = FillWindow(v)]
  BY <1>3
<1>8. /\ Shape(k)
      /\ k.senders = [n.senders EXCEPT ![f].window = FillWindow(v)]
      /\ k.accepted = n.accepted /\ k.out = (n.out \o end) \o Blocks(n, f, v)
      /\ \A x \in Fields \ {"senders", "accepted", "out"} : k[x] = n[x]
  <2>1. /\ Shape(k) /\ k.senders = [l.senders EXCEPT ![f].window = FillWindow(v)]
        /\ k.accepted = l.accepted \cup {f} /\ k.out = l.out \o Blocks(l, f, v)
        /\ \A x \in Fields \ {"senders", "accepted", "out"} : k[x] = l[x]
    BY <1>5 DEF Sends, Moved
  <2>2. l.accepted = n.accepted
    BY <1>3 DEF Fields
  <2>3. \A x \in Fields \ {"senders", "accepted", "out"} : k[x] = n[x]
    BY <1>3, <2>1
  <2> QED BY <1>3, <1>6, <1>7, <2>1, <2>2, <2>3
<1>9. Moved(n, k, f, FillWindow(v), (n.out \o end) \o Blocks(n, f, v))
  BY <1>8 DEF Moved
<1> QED BY <1>9 DEF k, v, w, end

\* A step of a sender about its file: only the conversation needs a look.
LEMMA SenderStep ==
    ASSUME OneWay, NEW p, NEW n, NEW m, NEW c, NEW d, Good(p, n, m, c, d),
           NEW f \in DOMAIN n.senders,
           NEW w, Sound(w), Exact(w), Still(w),
           NEW new \in Seq(Frames),
           \A fr \in Range(new) : fr.file = f /\ IsFrame(Other(p), p, n.source, fr),
           NEW k, Sends(n, k, f, w, new),
           NEW c2, Shrinks(c, c2, f), Line(k, m, f, c2, (d \o n.out) \o new)
    PROVE  Good(p, k, m, c2, d)
<1>1. /\ p \in Peers /\ Shape(n) /\ n.out \in Seq(Frames) /\ SendSide(p, n) /\ RecvSide(Other(p), n)
      /\ Stored(Other(p), n) /\ Dated(n, m.source)
  BY DEF Good, Half, Link
<1>2. /\ Shape(k) /\ k.out = n.out \o new
      /\ k.senders = [n.senders EXCEPT ![f].window = w] /\ k.accepted = n.accepted \cup {f}
      /\ k.sendQueue = n.sendQueue /\ k.sendQueued = n.sendQueued /\ k.sendActive = n.sendActive
      /\ k.offered = n.offered /\ k.offers = n.offers /\ k.recvQueue = n.recvQueue
      /\ k.recvQueued = n.recvQueued /\ k.receivers = n.receivers /\ k.recvActive = n.recvActive
      /\ k.cancelled = n.cancelled /\ k.store = n.store /\ k.part = n.part
      /\ k.saved = n.saved /\ k.source = n.source
  BY DEF Sends, Moved, Fields
<1>3. Task(p, n, f) /\ <<p, f>> \in Plan /\ f \in Files
  BY <1>1, FileTransferAssumption DEF SendSide, Task
<1>4. SendSide(p, k)
  <2>1. ASSUME NEW g \in DOMAIN k.senders PROVE Task(p, k, g)
    <3>1. Task(p, n, g)
      BY <1>1, <1>2, <2>1 DEF SendSide
    <3>2. CASE g = f
      BY <1>2, <3>1, <3>2 DEF Task
    <3>3. CASE g # f
      BY <1>2, <2>1, <3>1, <3>3 DEF Task
    <3> QED BY <3>2, <3>3
  <2>2. DOMAIN k.senders = DOMAIN n.senders
    BY <1>2
  <2> QED BY <1>1, <1>2, <2>1, <2>2 DEF SendSide
<1>5. RecvSide(Other(p), k) /\ Stored(Other(p), k) /\ Dated(k, m.source)
  BY <1>1, <1>2 DEF RecvSide, Hold, Stored, Dated
<1>6. Half(p, k)
  <2>1. k.out \in Seq(Frames)
    BY <1>1, <1>2, AppendIs
  <2> QED BY <1>2, <1>4, <1>5, <2>1 DEF Half
<1>7. \A g \in Files \ {f} : SameSends(n, k, g) /\ SameHolds(n, k, g)
  BY <1>2 DEF SameSends, SameHolds
<1>8. <<Other(p), f>> \notin Plan
  BY <1>1, <1>3, OtherIs DEF OneWay
<1> QED BY <1>2, <1>3, <1>5, <1>6, <1>7, <1>8, StepAbout

\* A Finish frame.
LEMMA FinishFrameIs ==
    ASSUME NEW f \in Files
    PROVE  /\ FinishFrame(f) \in Seq(Frames)
           /\ \E fr : /\ Range(FinishFrame(f)) = {fr} /\ fr.file = f /\ fr.op = "Finish"
                      /\ \A p, q, src : <<q, f>> \in Plan => IsFrame(p, q, src, fr)
           /\ \A g : InTurn(FinishFrame(f), g)
<1> DEFINE fr == Frame("Finish", f, 0, 0)
<1>1. fr \in Frames /\ fr.file = f /\ fr.op = "Finish"
  BY SlideWindowAssumption, FileTransferAssumption DEF Frame, Frames, Ops
<1>2. \A p, q, src : <<q, f>> \in Plan => IsFrame(p, q, src, fr)
  BY <1>1 DEF IsFrame
<1> HIDE DEF fr
<1>3. FinishFrame(f) = <<fr>>
  BY DEF FinishFrame, fr
<1> QED BY <1>1, <1>2, <1>3, OneFrame

\* The receiving end has begun: the sender fills its window, or ends the file it has wholly.
LEMMA AcceptGood ==
    ASSUME OneWay, NEW p, NEW n, NEW m, NEW c, NEW d, Good(p, n, m, c, d),
           c # <<>>, Head(c).op = "Accept", Head(c).file \notin n.cancelled
    PROVE  Good(p, OnAcceptFrame(n, Head(c).file, Head(c).seq), m, Tail(c), d)
<1> DEFINE f == Head(c).file
           r == Head(c).seq
           e == d \o n.out
           w == n.senders[f].window
           v == OnAccept(w, r)
           k == OnAcceptFrame(n, f, r)
           P == Range(c)
           P2 == Range(Tail(c))
           Q == Range(e)
<1>1. /\ p \in Peers /\ Shape(n) /\ n.out \in Seq(Frames) /\ SendSide(p, n) /\ c \in Seq(Frames)
      /\ e \in Seq(Frames) /\ \A fr \in Range(c) : IsFrame(p, Other(p), m.source, fr)
  BY DEF Good, Half, Link
<1>2. /\ Head(c) \in P /\ f \in Files /\ r \in 0 .. Total /\ <<p, f>> \in Plan
      /\ P = {Head(c)} \cup P2 /\ Tail(c) \in Seq(Frames)
  <2>1. /\ Tail(c) \in Seq(Frames) /\ Head(c) \in Frames /\ P = {Head(c)} \cup P2
    BY <1>1, TailIs
  <2>2. IsFrame(p, Other(p), m.source, Head(c))
    BY <1>1, <2>1
  <2> QED BY <2>1, <2>2 DEF IsFrame, Frames
<1>3. Line(n, m, f, c, e)
  BY <1>2 DEF Good, Link
<1>4. /\ Accepting(n, m, f, P, Q) \/ (StoppedEarly(n, m, f, P, Q) /\ f \in m.cancelled)
      /\ Accepting(n, m, f, P, Q) => f \notin m.cancelled
  BY <1>2, <1>3, Zenon DEF Line, Talk, StoppedEarly, Stopped, Idle, OfferOnItsWay, Pending,
     Refused, Accepting, Running, Done, Only, Hold
<1>5. /\ Asked(n, f) /\ Only(Q, f, {}) /\ Only(P2, f, {"Cancel"})
      /\ InTurn(Tail(c), f) /\ InTurn(e, f)
  <2>1. InTurn(c, f) /\ InTurn(e, f)
    BY <1>3 DEF Line
  <2>2. InTurn(Tail(c), f) /\ \A fr \in P2 : fr.file = f => <<"Accept", fr.op>> \in Follow
    BY <1>1, <2>1, TailIs
  <2>3. Only(P2, f, {"Cancel"})
    BY <2>2 DEF Only, Follow
  <2> QED BY <1>4, <2>1, <2>2, <2>3 DEF Accepting, StoppedEarly
<1>6. f \in DOMAIN n.senders /\ Task(p, n, f) /\ f \notin n.accepted /\ f \in n.offered
  BY <1>1, <1>5 DEF Asked, SendSide
<1>7. /\ Sound(v) /\ Exact(v) /\ Still(v) /\ v.resume = w.resume /\ v.start \in 0 .. Total /\ v.next = v.start
      /\ v.sent = 0 .. v.start - 1 /\ (v.start = w.resume \/ v.start = r) /\ v.start >= r
  BY <1>2, <1>6, OnAcceptStill, Zenon DEF Task
<1>8. Behind(v)
  <2> HIDE DEF v
  <2> QED BY <1>7 DEF Behind
<1>9. IF AllAcked(v) THEN Sends(n, k, f, v, FinishFrame(f))
                     ELSE Sends(n, k, f, FillWindow(v), Blocks(n, f, v))
  BY <1>1, <1>6, OnAcceptFrameIs DEF Task
<1>10. Shrinks(c, Tail(c), f)
  BY <1>1, ShrinksByHead
<1> HIDE DEF k, v
<1> SUFFICES Good(p, k, m, Tail(c), d)
  BY DEF k
<1>11. \A u, new : Sends(n, k, f, u, new) =>
         /\ f \in k.offered /\ f \in k.accepted /\ k.senders[f].window = u
         /\ k.senders[f].version = n.senders[f].version /\ k.cancelled = n.cancelled
  BY <1>6 DEF Sends, Moved, Fields, Task
<1>12. Carries(P, f, "Cancel") => Carries(P2, f, "Cancel")
  BY <1>2 DEF Carries
<1>13. ASSUME NEW u, NEW new \in Seq(Frames), Sends(n, k, f, u, new),
              \A fr \in Range(new) : fr.file = f /\ fr.op \in {"Data", "Finish"}, InTurn(new, f),
              Carries(Range(new), f, "Finish") <=> AllAcked(u),
              Accepting(n, m, f, P, Q) => Progress(u, m.receivers[f].next, f, P2, Range(new))
       PROVE  Line(k, m, f, Tail(c), e \o new)
  <2>1. Range(e \o new) = Q \cup Range(new) /\ InTurn(e \o new, f)
    BY <1>1, <1>5, <1>13, AppendIs DEF Only
  <2>2. /\ f \in k.offered /\ f \in k.accepted /\ k.senders[f].window = u
        /\ k.senders[f].version = n.senders[f].version /\ k.cancelled = n.cancelled
    BY <1>11, <1>13
  <2>3. SameFrames(Range(new), Q \cup Range(new), f)
    BY <1>5 DEF SameFrames, Only
  <2>4. Carries(Q \cup Range(new), f, "Finish") <=> AllAcked(u)
    BY <1>13, <2>3 DEF SameFrames, Carries
  <2>5. Only(Q \cup Range(new), f, {"Data", "Finish"})
    BY <1>13, <2>3 DEF SameFrames, Only
  <2>6. CASE Accepting(n, m, f, P, Q)
    <3>1. Only(P2, f, {"Ack"})
      <4>1. ~Carries(P2, f, "Cancel")
        BY <1>2, <2>6 DEF Accepting, Only, Carries
      <4> QED BY <1>5, <4>1 DEF Only, Carries
    <3>2. Progress(u, m.receivers[f].next, f, P2, Q \cup Range(new))
      BY <1>13, <2>3, <2>6 DEF Progress, SameFrames, Carries
    <3>3. Running(k, m, f, P2, Q \cup Range(new))
      BY <2>2, <2>5, <2>6, <3>1, <3>2 DEF Accepting, Running
    <3> QED BY <1>4, <1>5, <2>1, <2>2, <2>6, <3>3 DEF Line, Talk
  <2>7. CASE StoppedEarly(n, m, f, P, Q) /\ f \in m.cancelled
    <3>1. Only(P2, f, {"Ack", "Cancel"}) /\ Carries(P2, f, "Cancel")
      BY <1>5, <1>12, <2>7 DEF StoppedEarly, Only
    <3>2. Stopped(k, m, f, P2, Q \cup Range(new))
      BY <2>2, <2>4, <2>5, <2>7, <3>1 DEF StoppedEarly, Stopped
    <3> QED BY <1>5, <2>1, <2>2, <2>7, <3>2 DEF Line, Talk
  <2> QED BY <1>4, <2>6, <2>7
<1>14. Accepting(n, m, f, P, Q) => r = m.receivers[f].next /\ ~Carries(P2, f, "Cancel")
  BY <1>2 DEF Accepting, Only, Carries
<1>15. CASE AllAcked(v)
  <2> DEFINE new == FinishFrame(f)
  <2>1. Sends(n, k, f, v, new)
    BY <1>9, <1>15
  <2>2. /\ new \in Seq(Frames) /\ InTurn(new, f)
        /\ \E fr : /\ Range(new) = {fr} /\ fr.file = f /\ fr.op = "Finish"
                   /\ \A a, b, src : <<b, f>> \in Plan => IsFrame(a, b, src, fr)
    BY <1>2, FinishFrameIs
  <2> HIDE DEF new
  <2>3. Carries(Range(new), f, "Finish")
    BY <2>2 DEF Carries
  <2>4. ASSUME Accepting(n, m, f, P, Q) PROVE Progress(v, m.receivers[f].next, f, P2, Range(new))
    <3>1. Steady(v) /\ v.start = Total
      BY <1>7, <1>8, <1>15, SlideWindowAssumption DEF Steady, AllAcked
    <3>2. /\ \A fr \in P2 : fr.file = f => FALSE
          /\ \A fr \in Range(new) : fr.op = "Finish"
      BY <1>5, <1>14, <2>2, <2>4 DEF Only, Carries
    <3> QED BY <1>2, <1>7, <1>14, <1>15, <2>3, <2>4, <3>1, <3>2 DEF Progress
  <2>5. Line(k, m, f, Tail(c), e \o new)
    BY <1>13, <1>15, <2>1, <2>2, <2>3, <2>4
  <2> QED BY <1>2, <1>6, <1>7, <1>10, <2>1, <2>2, <2>5, SenderStep
<1>16. CASE ~AllAcked(v)
  <2> DEFINE new == Blocks(n, f, v)
             u == FillWindow(v)
  <2>1. Sends(n, k, f, u, new)
    BY <1>9, <1>16
  <2>2. /\ Sound(u) /\ Exact(u) /\ Still(u) /\ u.start = v.start /\ u.resume = v.resume
        /\ Sendable(v) \subseteq Seqs
        /\ Steady(u) /\ u.next >= v.next
        /\ \A q \in Sendable(v) : q < u.next
        /\ u.next > v.next => u.next - 1 \in Sendable(v)
    BY <1>7, <1>8, FillStill
  <2>3. /\ new \in Seq(Frames) /\ InTurn(new, f)
        /\ \A fr \in Range(new) :
              fr.file = f /\ fr.op = "Data" /\ fr.seq \in Sendable(v) /\ IsFrame(Other(p), p, n.source, fr)
        /\ \A x \in Sendable(v) : \E fr \in Range(new) : fr.seq = x
    <3>1. AreBlocks(p, n, f, v, new)
      BY <1>1, <1>2, <2>2, BlocksAre
    <3> HIDE DEF new
    <3> QED BY <3>1 DEF AreBlocks
  <2> HIDE DEF new, u
  <2>4. u.start < Total /\ ~AllAcked(u) /\ ~Carries(Range(new), f, "Finish")
    BY <1>7, <1>16, <2>2, <2>3, SlideWindowAssumption DEF AllAcked, Carries
  <2>5. u.next \in 0 .. Total
    BY <2>2, PartsOfSender DEF Sound
  <2>6. ASSUME Accepting(n, m, f, P, Q) PROVE Progress(u, m.receivers[f].next, f, P2, Range(new))
    <3>1. \A fr \in P2 : fr.file = f => FALSE
      BY <1>5, <1>14, <2>6 DEF Only, Carries
    <3>2. u.start < u.next /\ u.next > v.next /\ u.next - 1 \in Sendable(v)
      BY <1>7, <2>2, <2>4, <2>5 DEF Steady
    <3>3. \E fr \in Range(new) : fr.file = f /\ fr.op = "Data" /\ fr.seq = u.next - 1
      BY <2>3, <3>2
    <3>4. \A fr \in Range(new) : fr.seq < u.next
      BY <2>2, <2>3
    <3> QED BY <1>2, <1>7, <1>14, <2>2, <2>4, <2>5, <2>6, <3>1, <3>2, <3>3, <3>4 DEF Progress
  <2>7. Line(k, m, f, Tail(c), e \o new)
    BY <1>13, <2>1, <2>3, <2>4, <2>6
  <2> QED BY <1>6, <1>10, <2>1, <2>2, <2>3, <2>7, SenderStep
<1> QED BY <1>15, <1>16

\* What an Ack makes the sender send: the end of the file, or blocks.
AckAnswer(p, n, f, w, v, new) ==
    /\ new \in Seq(Frames) /\ InTurn(new, f)
    /\ \A fr \in Range(new) : /\ fr.file = f /\ IsFrame(Other(p), p, n.source, fr)
                              /\ \/ fr.op = "Finish" /\ AllAcked(v) /\ ~AllAcked(w)
                                 \/ fr.op = "Data" /\ ~AllAcked(v) /\ fr.seq \in Sendable(v)
    /\ AllAcked(v) /\ ~AllAcked(w) => Carries(Range(new), f, "Finish")
    /\ \A x \in Sendable(v) : \E fr \in Range(new) : fr.file = f /\ fr.op = "Data" /\ fr.seq = x

\* on_ack sends Finish, or the blocks the window has room for.
LEMMA AckAnswerIs ==
    ASSUME NEW p \in Peers, NEW n, Shape(n), n.out \in Seq(Frames), SendSide(p, n),
           NEW f \in DOMAIN n.senders, f \in n.accepted, NEW seq \in Seqs
    PROVE  LET w == n.senders[f].window
               v == OnAck(w, seq)
           IN  \E new : /\ AckAnswer(p, n, f, w, v, new)
                        /\ Sends(n, OnAckFrame(n, f, seq), f, FillWindow(v), new)
<1> DEFINE w == n.senders[f].window
           v == OnAck(w, seq)
           k == OnAckFrame(n, f, seq)
           end == IF AllAcked(v) /\ ~AllAcked(w) THEN FinishFrame(f) ELSE <<>>
           b == Blocks(n, f, v)
           new == end \o b
<1>1. Task(p, n, f) /\ f \in Files /\ <<p, f>> \in Plan
  BY FileTransferAssumption DEF SendSide, Task
<1>2. Moved(n, k, f, FillWindow(v), (n.out \o end) \o b)
  BY <1>1, OnAckFrameIs DEF Task
<1>3. Sound(v) /\ Exact(v) /\ Still(v)
  BY <1>1, OnAckStill DEF Task
<1>4. Sendable(v) \subseteq Seqs /\ (AllAcked(v) => Sendable(v) = {})
  BY <1>3, FillStill
<1>5. AreBlocks(p, n, f, v, b)
  BY <1>1, <1>4, BlocksAre
<1>6. /\ FinishFrame(f) \in Seq(Frames) /\ InTurn(FinishFrame(f), f)
      /\ \A fr \in Range(FinishFrame(f)) : /\ fr.file = f /\ fr.op = "Finish"
                                           /\ IsFrame(Other(p), p, n.source, fr)
      /\ Carries(Range(FinishFrame(f)), f, "Finish")
  <2>1. PICK fr : /\ Range(FinishFrame(f)) = {fr} /\ fr.file = f /\ fr.op = "Finish"
                  /\ \A a, b1, src : <<b1, f>> \in Plan => IsFrame(a, b1, src, fr)
    BY <1>1, FinishFrameIs
  <2>2. FinishFrame(f) \in Seq(Frames) /\ InTurn(FinishFrame(f), f)
    BY <1>1, FinishFrameIs
  <2> QED BY <1>1, <2>1, <2>2 DEF Carries
<1>7. end \in Seq(Frames) /\ b \in Seq(Frames)
  BY <1>5, <1>6, NoFrame DEF AreBlocks
<1> HIDE DEF b, k, v, w
<1>8. AckAnswer(p, n, f, w, v, new)
  <2>1. CASE AllAcked(v)
    <3>1. b = <<>>
      BY <1>4, <1>5, <2>1 DEF AreBlocks
    <3>2. new = end
      BY <1>7, <3>1
    <3>3. CASE AllAcked(w)
      <4>1. new = <<>>
        BY <3>2, <3>3
      <4> HIDE DEF new
      <4> QED BY <1>4, <2>1, <3>3, <4>1, NoFrame DEF AckAnswer
    <3>4. CASE ~AllAcked(w)
      <4>1. new = FinishFrame(f)
        BY <2>1, <3>2, <3>4
      <4> HIDE DEF new
      <4> QED BY <1>4, <1>6, <2>1, <3>4, <4>1 DEF AckAnswer
    <3> QED BY <3>3, <3>4
  <2>2. CASE ~AllAcked(v)
    <3>1. new = b
      BY <1>7, <2>2
    <3> HIDE DEF new
    <3> QED BY <1>5, <2>2, <3>1 DEF AckAnswer, AreBlocks
  <2> QED BY <2>1, <2>2
<1>9. Sends(n, k, f, FillWindow(v), new)
  <2>1. (n.out \o end) \o b = n.out \o new
    <3> HIDE DEF end
    <3> QED BY <1>7, FramesAssociative
  <2> HIDE DEF new
  <2> QED BY <1>2, <2>1 DEF Sends, Moved
<1> HIDE DEF new
<1>10. \E x : AckAnswer(p, n, f, w, v, x) /\ Sends(n, k, f, FillWindow(v), x)
  BY <1>8, <1>9
<1> QED BY <1>10 DEF k, v, w

\* An acknowledged block moves the window on.
LEMMA AckGood ==
    ASSUME OneWay, NEW p, NEW n, NEW m, NEW c, NEW d, Good(p, n, m, c, d),
           c # <<>>, Head(c).op = "Ack", Head(c).file \notin n.cancelled
    PROVE  Good(p, OnAckFrame(n, Head(c).file, Head(c).seq), m, Tail(c), d)
<1> DEFINE f == Head(c).file
           seq == Head(c).seq
           e == d \o n.out
           w == n.senders[f].window
           v == OnAck(w, seq)
           u == FillWindow(v)
           k == OnAckFrame(n, f, seq)
           r == m.receivers[f].next
           P == Range(c)
           P2 == Range(Tail(c))
           Q == Range(e)
<1>1. /\ p \in Peers /\ Shape(n) /\ n.out \in Seq(Frames) /\ SendSide(p, n) /\ c \in Seq(Frames)
      /\ e \in Seq(Frames) /\ \A fr \in Range(c) : IsFrame(p, Other(p), m.source, fr)
      /\ RecvSide(p, m)
  BY OtherIs DEF Good, Half, Link
<1>2. /\ Head(c) \in P /\ f \in Files /\ seq \in Seqs /\ <<p, f>> \in Plan
      /\ P = {Head(c)} \cup P2 /\ Tail(c) \in Seq(Frames)
  <2>1. /\ Tail(c) \in Seq(Frames) /\ Head(c) \in Frames /\ P = {Head(c)} \cup P2
    BY <1>1, TailIs
  <2>2. IsFrame(p, Other(p), m.source, Head(c))
    BY <1>1, <2>1
  <2> QED BY <2>1, <2>2 DEF IsFrame, Frames
<1>3. Line(n, m, f, c, e)
  BY <1>2 DEF Good, Link
<1>4. \/ Running(n, m, f, P, Q) /\ f \notin m.cancelled
      \/ Done(n, m, f, P, Q) /\ f \notin m.cancelled
      \/ Stopped(n, m, f, P, Q) /\ f \in m.cancelled
  BY <1>2, <1>3 DEF Line, Talk, StoppedEarly, Idle, OfferOnItsWay, Pending,
     Refused, Accepting, Only
<1>5. f \in n.offered /\ f \in n.accepted /\ f \in DOMAIN n.senders /\ Task(p, n, f)
  BY <1>1, <1>4 DEF Running, Done, Stopped, SendSide
<1>6. InTurn(e, f) /\ InTurn(Tail(c), f) /\ Shrinks(c, Tail(c), f)
  <2>1. InTurn(e, f) /\ InTurn(c, f)
    BY <1>2, <1>3, <1>5 DEF Line
  <2> QED BY <1>1, <2>1, TailIs, ShrinksByHead
<1>7. /\ Sound(v) /\ Exact(v) /\ Still(v)
      /\ v.resume = w.resume /\ v.next = w.next /\ v.sent = w.sent
      /\ w.start \in 0 .. Total /\ v.start = Larger(w.start, seq + 1)
      /\ w.next \in 0 .. Total /\ w.resume \in 0 .. Total
  <2>1. Sound(w) /\ Exact(w) /\ Still(w)
    BY <1>5 DEF Task
  <2> HIDE DEF w
  <2> QED BY <1>2, <2>1, OnAckStill, PartsOfSender DEF Sound
<1>8. /\ Sound(u) /\ Exact(u) /\ Still(u)
      /\ u.resume = v.resume /\ u.start = v.start
      /\ Behind(v) => /\ Steady(u) /\ u.next >= v.next
                      /\ \A q \in Sendable(v) : q < u.next
                      /\ u.next > v.next => u.next - 1 \in Sendable(v)
  BY <1>7, FillStill, Zenon
<1>9. PICK new : AckAnswer(p, n, f, w, v, new) /\ Sends(n, k, f, u, new)
  BY <1>1, <1>2, <1>5, AckAnswerIs
<1> HIDE DEF k, v, u, w
<1>10. /\ f \in k.offered /\ f \in k.accepted /\ k.senders[f].window = u
       /\ k.senders[f].version = n.senders[f].version /\ k.cancelled = n.cancelled
  BY <1>5, <1>9 DEF Sends, Moved, Fields, Task
<1>11. (AllAcked(w) => AllAcked(v)) /\ (AllAcked(u) <=> AllAcked(v))
  BY <1>2, <1>7, <1>8, SlideWindowAssumption DEF AllAcked, Larger, Seqs
<1>12. Carries(Q, f, "Finish") => AllAcked(w)
  BY <1>4, Zenon DEF Running, Done, Stopped, Progress, Only, Carries, w
<1>13. new \in Seq(Frames) /\ Range(e \o new) = Q \cup Range(new) /\ InTurn(e \o new, f)
  <2>1. \A a \in Q, b \in Range(new) : a.file = f /\ b.file = f => <<a.op, b.op>> \in Follow
    <3> SUFFICES ASSUME NEW a \in Q, NEW b \in Range(new), a.file = f PROVE <<a.op, b.op>> \in Follow
      OBVIOUS
    <3>1. a.op \in {"Data", "Finish"}
      BY <1>4 DEF Running, Done, Stopped, Only
    <3>2. a.op = "Finish" => AllAcked(w)
      BY <1>12 DEF Carries
    <3>3. (b.op = "Finish" /\ ~AllAcked(w)) \/ (b.op = "Data" /\ ~AllAcked(v))
      BY <1>9 DEF AckAnswer
    <3> QED BY <1>11, <3>1, <3>2, <3>3 DEF Follow
  <2> QED BY <1>1, <1>6, <1>9, <2>1, AppendIs DEF AckAnswer
<1>14. /\ Only(Range(new), f, {"Data", "Finish"})
       /\ Carries(Range(new), f, "Finish") <=> AllAcked(v) /\ ~AllAcked(w)
  <2>1. ASSUME NEW fr \in Range(new)
        PROVE  (fr.op = "Finish" /\ AllAcked(v) /\ ~AllAcked(w)) \/ (fr.op = "Data" /\ ~AllAcked(v))
    BY <1>9, <2>1 DEF AckAnswer
  <2>2. AllAcked(v) /\ ~AllAcked(w) => Carries(Range(new), f, "Finish")
    BY <1>9 DEF AckAnswer
  <2> QED BY <2>1, <2>2 DEF Only, Carries
<1> DEFINE Q2 == Q \cup Range(new)
<1>15. ASSUME Running(n, m, f, P, Q) /\ f \notin m.cancelled
       PROVE  Line(k, m, f, Tail(c), e \o new)
  <2>1. Progress(w, r, f, P, Q) /\ f \in DOMAIN m.receivers /\ r \in 0 .. Total
    BY <1>1, <1>15 DEF Running, RecvSide, w
  <2>2. seq < r /\ r <= w.next /\ Behind(v)
    <3>1. seq < r /\ r <= w.next /\ Behind(w)
      BY <1>2, <2>1 DEF Progress, Steady
    <3> QED BY <1>2, <1>7, <2>1, <3>1, SlideWindowAssumption DEF Behind, Larger, Seqs
  <2>3. u.next \in 0 .. Total
    BY <1>8, PartsOfSender DEF Sound
  <2>4. /\ Steady(u) /\ u.next >= w.next /\ (u.start = w.start \/ u.start = seq + 1)
        /\ u.start >= w.start /\ u.start >= seq + 1 /\ u.resume = w.resume
        /\ w.next \in Int /\ r \in Int /\ seq \in Int /\ w.start \in Int /\ u.start \in Int /\ w.resume \in Int
    BY <1>2, <1>7, <1>8, <2>1, <2>2, SlideWindowAssumption DEF Larger, Seqs
  <2>5. r <= u.next /\ (u.start <= u.resume \/ u.start <= r)
    BY <2>1, <2>2, <2>3, <2>4 DEF Progress
  <2>6. Carries(Q2, f, "Finish") <=> AllAcked(u)
    BY <1>11, <1>14, <2>1 DEF Progress, Carries
  <2>7. \A fr \in P2 : fr.file = f => fr.seq < r
    BY <1>2, <2>1 DEF Progress
  <2>8. \A fr \in Q2 : fr.file = f /\ fr.op = "Data" => fr.seq < u.next
    <3> SUFFICES ASSUME NEW fr \in Q2, fr.file = f, fr.op = "Data" PROVE fr.seq < u.next
      OBVIOUS
    <3>1. CASE fr \in Q
      <4>1. fr.seq < w.next
        BY <2>1, <3>1 DEF Progress
      <4>2. fr.seq \in Int
        <5>1. IsFrame(Other(p), p, n.source, fr)
          BY <3>1 DEF Good, Link
        <5> QED BY <5>1 DEF IsFrame, Frames
      <4> QED BY <2>3, <2>4, <4>1, <4>2
    <3>2. CASE fr \in Range(new)
      <4>1. fr.seq \in Sendable(v)
        BY <1>9, <3>2 DEF AckAnswer
      <4> QED BY <1>8, <2>2, <4>1
    <3> QED BY <3>1, <3>2
  <2>9. ASSUME u.start < Total, r < u.next
        PROVE  \E fr \in Q2 : fr.file = f /\ fr.op = "Data" /\ fr.seq = u.next - 1
    <3>1. CASE u.next > w.next
      <4>1. u.next - 1 \in Sendable(v)
        BY <1>7, <1>8, <2>2, <3>1
      <4>2. \E fr \in Range(new) : fr.file = f /\ fr.op = "Data" /\ fr.seq = u.next - 1
        BY <1>9, <4>1 DEF AckAnswer
      <4> QED BY <4>2
    <3>2. CASE u.next = w.next
      <4>1. w.start < Total /\ r < w.next
        BY <2>4, <2>9, <3>2, SlideWindowAssumption
      <4>2. \E fr \in Q : fr.file = f /\ fr.op = "Data" /\ fr.seq = w.next - 1
        BY <2>1, <4>1 DEF Progress
      <4> QED BY <3>2, <4>2
    <3> QED BY <2>3, <2>4, <3>1, <3>2
  <2>10. ASSUME r > u.start PROVE \E fr \in P2 : fr.file = f /\ fr.op = "Ack" /\ fr.seq = r - 1
    <3>1. r > w.start /\ seq # r - 1
      BY <2>4, <2>10
    <3>2. PICK fr \in P : fr.file = f /\ fr.op = "Ack" /\ fr.seq = r - 1
      BY <2>1, <3>1 DEF Progress
    <3>3. fr \in P2
      BY <1>2, <3>1, <3>2
    <3> QED BY <3>2, <3>3
  <2>11. Progress(u, r, f, P2, Q2)
    BY <2>4, <2>5, <2>6, <2>7, <2>8, <2>9, <2>10 DEF Progress
  <2>12. Only(P2, f, {"Ack"}) /\ Only(Q2, f, {"Data", "Finish"})
    BY <1>2, <1>14, <1>15 DEF Running, Only
  <2>13. Running(k, m, f, P2, Q2)
    BY <1>10, <1>15, <2>11, <2>12 DEF Running
  <2> QED BY <1>6, <1>10, <1>13, <1>15, <2>13 DEF Line, Talk
<1>16. ASSUME Done(n, m, f, P, Q) /\ f \notin m.cancelled
       PROVE  Line(k, m, f, Tail(c), e \o new)
  <2>1. AllAcked(w) /\ AllAcked(u) /\ AllAcked(v)
    BY <1>11, <1>16 DEF Done, w
  <2>2. Only(Q2, f, {}) /\ Only(P2, f, {"Ack", "FinishAck"}) /\ Carries(P2, f, "FinishAck")
    BY <1>2, <1>9, <1>16, <2>1 DEF Done, Only, Carries, AckAnswer
  <2>3. Done(k, m, f, P2, Q2)
    BY <1>10, <1>16, <2>1, <2>2 DEF Done
  <2> QED BY <1>6, <1>10, <1>13, <1>16, <2>3 DEF Line, Talk
<1>17. ASSUME Stopped(n, m, f, P, Q) /\ f \in m.cancelled
       PROVE  Line(k, m, f, Tail(c), e \o new)
  <2>1. Only(P2, f, {"Ack", "Cancel"}) /\ Carries(P2, f, "Cancel") /\ Only(Q2, f, {"Data", "Finish"})
    BY <1>2, <1>14, <1>17 DEF Stopped, Only, Carries
  <2>2. Carries(Q2, f, "Finish") => AllAcked(u)
    BY <1>11, <1>12, <1>14 DEF Carries
  <2>3. Stopped(k, m, f, P2, Q2)
    BY <1>10, <1>17, <2>1, <2>2 DEF Stopped
  <2> QED BY <1>6, <1>10, <1>13, <1>17, <2>3 DEF Line, Talk
<1>18. Line(k, m, f, Tail(c), e \o new)
  BY <1>4, <1>15, <1>16, <1>17
<1>19. \A fr \in Range(new) : fr.file = f /\ IsFrame(Other(p), p, n.source, fr)
  BY <1>9 DEF AckAnswer
<1>20. Good(p, k, m, Tail(c), d)
  BY <1>5, <1>6, <1>8, <1>9, <1>13, <1>18, <1>19, SenderStep
<1> QED BY <1>20 DEF k

-----------------------------------------------------------------------------
(* A task ends. *)

\* n has come to k, which has no task for f any more (cleanup_task)
Cleaned(n, k, f, direction, how) ==
    /\ Shape(k)
    /\ k.senders = Without(n.senders, f) /\ k.sendQueued = n.sendQueued \ {f}
    /\ k.offered = n.offered \ {f} /\ k.accepted = n.accepted \ {f}
    /\ k.offers = Without(n.offers, f) /\ k.recvQueued = Without(n.recvQueued, f)
    /\ k.receivers = Without(n.receivers, f)
    /\ k.finished = With(n.finished, f, <<direction, how>>)
    /\ k.sendQueue = n.sendQueue /\ k.sendActive = n.sendActive
    /\ k.recvQueue = n.recvQueue /\ k.recvActive = n.recvActive
    /\ k.cancelled = n.cancelled /\ k.out = n.out /\ k.store = n.store
    /\ k.part = n.part /\ k.saved = n.saved /\ k.source = n.source

\* cleanup_task and note_finished, field by field.
LEMMA CleanedIs ==
    ASSUME NEW n, Shape(n), NEW f, NEW direction, NEW how
    PROVE  Cleaned(n, Ended(CleanupTask(n, f), f, direction, how), f, direction, how)
BY WithoutIs DEF Cleaned, Ended, CleanupTask, Shape, Fields

\* n without the record of f, with other counts
Released(n, f, cancelled, active) ==
    [n EXCEPT !.store = Without(n.store, f), !.cancelled = cancelled, !.sendActive = active]

\* The main step of on_reject and on_finish_ack.
LEMMA SendEndsIs ==
    ASSUME NEW n, Shape(n), NEW f, NEW how
    PROVE  LET k == Ended(CleanupTask(FreeSendSlot(Forget(n, f)), f), f, "send", how) IN
           Cleaned(Released(n, f, n.cancelled, Less1(n.sendActive)), k, f, "send", how)
<1> DEFINE l == Released(n, f, n.cancelled, Less1(n.sendActive))
<1>1. Shape(l) /\ FreeSendSlot(Forget(n, f)) = l
  BY DEF FreeSendSlot, Forget, Released, Shape, Fields
<1> HIDE DEF l
<1>2. Cleaned(l, Ended(CleanupTask(l, f), f, "send", how), f, "send", how)
  BY <1>1, CleanedIs
<1> QED BY <1>1, <1>2 DEF l

\* The main step of on_cancel and cmd_cancel for a file that is sent.
LEMMA SendCancelIs ==
    ASSUME NEW n, Shape(n), NEW f, NEW byPeer \in BOOLEAN
    PROVE  LET m == [Forget(n, f) EXCEPT !.cancelled = @ \cup {f}]
               k == Ended(CleanupTask(IF f \in n.sendQueued /\ ~byPeer THEN m ELSE FreeSendSlot(m), f),
                          f, "send", "Cancelled") IN
           Cleaned(Released(n, f, n.cancelled \cup {f},
                            IF f \in n.sendQueued /\ ~byPeer THEN n.sendActive ELSE Less1(n.sendActive)),
                   k, f, "send", "Cancelled")
<1> DEFINE m == [Forget(n, f) EXCEPT !.cancelled = @ \cup {f}]
           x == IF f \in n.sendQueued /\ ~byPeer THEN m ELSE FreeSendSlot(m)
           l == Released(n, f, n.cancelled \cup {f},
                         IF f \in n.sendQueued /\ ~byPeer THEN n.sendActive ELSE Less1(n.sendActive))
<1>1. Shape(l) /\ x = l
  BY DEF FreeSendSlot, Forget, Released, Shape, Fields
<1> HIDE DEF l, x
<1>2. Cleaned(l, Ended(CleanupTask(x, f), f, "send", "Cancelled"), f, "send", "Cancelled")
  BY <1>1, CleanedIs
<1> QED BY <1>2 DEF l, x

-----------------------------------------------------------------------------
(* A sender's task ends. *)

\* n has come to k and sent nothing; only f is touched
Leaves(p, n, k, f) ==
    /\ Half(p, k) /\ k.source = n.source /\ k.out = n.out
    /\ \A g \in Files \ {f} : SameSends(n, k, g) /\ SameHolds(n, k, g)
    /\ \A src : Dated(n, src) => Dated(k, src)

\* an offered task that ends gives its slot back; one that is cancelled is marked
Counted(n, f, cancelled, active) ==
    /\ (cancelled = n.cancelled /\ f \in n.offered) \/ cancelled = n.cancelled \cup {f}
    /\ active = Less1(n.sendActive) \/ (active = n.sendActive /\ f \notin n.offered)

\* What is left of an end when its sender of f is gone.
LEMMA SenderGone ==
    ASSUME OneWay, NEW p \in Peers, NEW n, Half(p, n), NEW f \in DOMAIN n.senders,
           NEW active, NEW cancelled, NEW k, NEW how,
           Cleaned(Released(n, f, cancelled, active), k, f, "send", how),
           Counted(n, f, cancelled, active)
    PROVE  /\ Leaves(p, n, k, f)
           /\ f \notin k.offered /\ f \notin k.accepted /\ k.cancelled = cancelled
<1>1. /\ Shape(n) /\ n.out \in Seq(Frames) /\ SendSide(p, n) /\ RecvSide(Other(p), n)
      /\ Stored(Other(p), n)
  BY DEF Half
<1>2. f \in Files /\ <<p, f>> \in Plan /\ <<Other(p), f>> \notin Plan
  BY <1>1, OtherIs, FileTransferAssumption DEF SendSide, Task, OneWay
<1>3. /\ Shape(k)
      /\ k.senders = Without(n.senders, f) /\ k.sendQueued = n.sendQueued \ {f}
      /\ k.offered = n.offered \ {f} /\ k.accepted = n.accepted \ {f}
      /\ k.offers = Without(n.offers, f) /\ k.recvQueued = Without(n.recvQueued, f)
      /\ k.receivers = Without(n.receivers, f)
      /\ k.sendQueue = n.sendQueue /\ k.sendActive = active
      /\ k.recvQueue = n.recvQueue /\ k.recvActive = n.recvActive
      /\ k.cancelled = cancelled /\ k.out = n.out /\ k.store = Without(n.store, f)
      /\ k.part = n.part /\ k.saved = n.saved /\ k.source = n.source
  BY <1>1 DEF Cleaned, Released, Shape, Fields
<1>4. k.offers = n.offers /\ k.recvQueued = n.recvQueued /\ k.receivers = n.receivers
  <2>1. f \notin Hold(n)
    BY <1>1, <1>2 DEF RecvSide
  <2> QED BY <1>1, <1>3, <2>1, WithoutIs DEF Hold, Shape
<1>5. /\ DOMAIN k.senders = DOMAIN n.senders \ {f}
      /\ \A g \in DOMAIN k.senders : k.senders[g] = n.senders[g]
      /\ DOMAIN k.store = DOMAIN n.store \ {f}
      /\ \A g \in DOMAIN k.store : k.store[g] = n.store[g]
  <2>1. /\ DOMAIN Without(n.senders, f) = DOMAIN n.senders \ {f}
        /\ \A g \in DOMAIN n.senders \ {f} : Without(n.senders, f)[g] = n.senders[g]
    BY WithoutIs
  <2>2. /\ DOMAIN Without(n.store, f) = DOMAIN n.store \ {f}
        /\ \A g \in DOMAIN n.store \ {f} : Without(n.store, f)[g] = n.store[g]
    BY WithoutIs
  <2> QED BY <1>3, <2>1, <2>2
<1>6. k.sendActive \in 0 .. MaxConcurrent /\ k.sendActive <= Cardinality(k.offered)
  <2>1. /\ IsFiniteSet(n.offered) /\ Cardinality(n.offered) \in Nat
        /\ n.sendActive \in 0 .. MaxConcurrent /\ n.sendActive <= Cardinality(n.offered)
    <3>1. IsFiniteSet(n.offered)
      BY <1>1, FS_Subset DEF SendSide
    <3> QED BY <1>1, <3>1, FS_CardinalityType DEF SendSide
  <2>2. /\ f \in n.offered => Cardinality(k.offered) = Cardinality(n.offered) - 1
        /\ f \notin n.offered => k.offered = n.offered
    <3>1. Cardinality(n.offered \ {f}) = IF f \in n.offered THEN Cardinality(n.offered) - 1
                                         ELSE Cardinality(n.offered)
      BY <2>1, FS_RemoveElement
    <3>2. f \notin n.offered => n.offered \ {f} = n.offered
      OBVIOUS
    <3> QED BY <1>3, <3>1, <3>2
  <2>3. f \in n.offered => Cardinality(n.offered) > 0
    BY <2>1, FS_EmptySet
  <2> USE DEF Counted
  <2>4. active \in 0 .. MaxConcurrent /\ active <= n.sendActive
        /\ (f \in n.offered /\ n.sendActive > 0 => active = n.sendActive - 1)
    BY <2>1, FileTransferAssumption DEF Less1
  <2>5. CASE f \in n.offered
    <3>1. active = Less1(n.sendActive)
      BY <2>5
    <3>2. Cardinality(k.offered) = Cardinality(n.offered) - 1
      BY <2>2, <2>5
    <3> QED BY <1>3, <2>1, <2>3, <2>4, <2>5, <3>1, <3>2, FileTransferAssumption DEF Less1
  <2>6. CASE f \notin n.offered
    <3>1. k.offered = n.offered
      BY <2>2, <2>6
    <3>2. Cardinality(k.offered) = Cardinality(n.offered)
      BY <3>1
    <3>3. k.sendActive = active
      BY <1>3
    <3> QED BY <2>1, <2>4, <3>2, <3>3
  <2> QED BY <2>5, <2>6
<1> USE DEF Counted
<1>7. SendSide(p, k)
  <2>1. \A g \in DOMAIN k.senders : Task(p, k, g)
    BY <1>1, <1>3, <1>5 DEF SendSide, Task
  <2>2. IsFiniteSet(DOMAIN k.senders)
    BY <1>1, <1>5, FS_Subset DEF SendSide
  <2>3. k.sendQueued \subseteq Range(k.sendQueue) /\ k.sendQueued \cap k.offered = {}
    BY <1>1, <1>3 DEF SendSide
  <2>4. ASSUME NEW i \in DOMAIN k.sendQueue, NEW j \in DOMAIN k.sendQueue, k.sendQueue[i] \notin k.cancelled
        PROVE  /\ k.sendQueue[i] \in k.sendQueued
               /\ k.sendQueue[i] = k.sendQueue[j] => i = j
    BY <1>1, <1>3, <2>4 DEF SendSide
  <2>5. k.accepted \subseteq DOMAIN k.senders /\ k.offered \subseteq DOMAIN k.senders
    BY <1>1, <1>3, <1>5 DEF SendSide
  <2> QED BY <1>1, <1>3, <1>6, <2>1, <2>2, <2>3, <2>4, <2>5 DEF SendSide
<1>8. RecvSide(Other(p), k)
  BY <1>1, <1>2, <1>3, <1>4 DEF RecvSide, Hold
<1>9. Stored(Other(p), k)
  BY <1>1, <1>3, <1>5 DEF Stored
<1>10. Half(p, k)
  BY <1>1, <1>3, <1>7, <1>8, <1>9 DEF Half
<1>11. \A g \in Files \ {f} : SameSends(n, k, g) /\ SameHolds(n, k, g)
  BY <1>3, <1>4, <1>5 DEF SameSends, SameHolds
<1>12. \A src : Dated(n, src) => Dated(k, src)
  BY <1>4 DEF Dated
<1> QED BY <1>3, <1>10, <1>11, <1>12 DEF Leaves

\* n has come to k, which has ended the sender of f
SenderEnded(n, k, f, how) ==
    /\ k.recvQueue = n.recvQueue /\ k.recvActive = n.recvActive
    /\ k.saved = n.saved /\ k.source = n.source
    /\ k.senders = Without(n.senders, f) /\ k.finished = With(n.finished, f, <<"send", how>>)

\* A Reject or the FinishAck ends the conversation.  What a FinishAck ends is saved.
LEMMA EndsGood ==
    ASSUME OneWay, NEW p, NEW n, NEW m, NEW c, NEW d, Good(p, n, m, c, d),
           c # <<>>, Head(c).op \in {"Reject", "FinishAck"}, Head(c).file \notin n.cancelled,
           NEW how
    PROVE  LET f == Head(c).file
               k == SendEnds(n, f, how)
           IN  /\ Good(p, k, m, Tail(c), d)
               /\ f \in DOMAIN n.senders /\ SenderEnded(n, k, f, how)
               /\ Head(c).op = "FinishAck" => [i \in 1 .. Total |-> n.senders[f].version] \in m.saved[f]
<1> DEFINE f == Head(c).file
           e == d \o n.out
           l == Ended(CleanupTask(FreeSendSlot(Forget(n, f)), f), f, "send", how)
           P == Range(c)
           P2 == Range(Tail(c))
           Q == Range(e)
<1>1. /\ p \in Peers /\ Half(p, n) /\ Shape(n) /\ n.out \in Seq(Frames) /\ SendSide(p, n)
      /\ c \in Seq(Frames) /\ e \in Seq(Frames) /\ \A fr \in P : IsFrame(p, Other(p), m.source, fr)
      /\ Dated(n, m.source)
  BY DEF Good, Half, Link
<1>2. /\ Head(c) \in P /\ f \in Files /\ <<p, f>> \in Plan
      /\ P = {Head(c)} \cup P2 /\ Tail(c) \in Seq(Frames)
  <2>1. /\ Tail(c) \in Seq(Frames) /\ Head(c) \in Frames /\ P = {Head(c)} \cup P2
    BY <1>1, TailIs
  <2>2. IsFrame(p, Other(p), m.source, Head(c))
    BY <1>1, <2>1
  <2> QED BY <2>1, <2>2 DEF IsFrame, Frames
<1>3. Line(n, m, f, c, e)
  BY <1>2 DEF Good, Link
<1>4. /\ f \notin m.cancelled
      /\ \/ Refused(n, m, f, P, Q) /\ Head(c).op = "Reject"
         \/ Done(n, m, f, P, Q) /\ Head(c).op = "FinishAck"
  BY <1>2, <1>3, Zenon DEF Line, Talk, StoppedEarly, Stopped, Idle, OfferOnItsWay, Pending,
     Refused, Accepting, Running, Done, Only
<1>5. f \in n.offered /\ f \in DOMAIN n.senders /\ f \notin Hold(m) /\ Only(Q, f, {})
  BY <1>1, <1>4 DEF Refused, Done, Asked, SendSide
<1>6. InTurn(e, f) /\ InTurn(Tail(c), f) /\ Shrinks(c, Tail(c), f) /\ Only(P2, f, {})
  <2>1. InTurn(e, f) /\ InTurn(c, f)
    BY <1>2, <1>3 DEF Line
  <2>2. \A fr \in P2 : fr.file = f => <<Head(c).op, fr.op>> \in Follow
    BY <1>1, <2>1, TailIs
  <2>3. Only(P2, f, {})
    BY <2>2 DEF Only, Follow
  <2> QED BY <1>1, <2>1, <2>3, TailIs, ShrinksByHead
<1>7. Cleaned(Released(n, f, n.cancelled, Less1(n.sendActive)), l, f, "send", how)
  BY <1>1, SendEndsIs
<1> HIDE DEF l
<1>9. /\ Leaves(p, n, l, f)
      /\ f \notin l.offered /\ f \notin l.accepted /\ l.cancelled = n.cancelled
  <2>1. /\ OneWay /\ p \in Peers /\ Half(p, n) /\ f \in DOMAIN n.senders
        /\ Counted(n, f, n.cancelled, Less1(n.sendActive))
    BY <1>1, <1>5 DEF Counted
  <2> QED BY <1>7, <2>1, SenderGone
<1>91. <<Other(p), f>> \notin Plan
  BY <1>1, <1>2, OtherIs DEF OneWay
<1>10. /\ l.recvQueue = n.recvQueue /\ l.recvActive = n.recvActive /\ l.saved = n.saved
       /\ l.senders = Without(n.senders, f) /\ l.finished = With(n.finished, f, <<"send", how>>)
  BY <1>1, <1>7 DEF Cleaned, Released, Shape, Fields
<1>11. Idle(l, m, f, P2, Q)
  BY <1>5, <1>6, <1>9 DEF Idle
<1>12. <<>> \in Seq(Frames) /\ Range(<<>>) = {} /\ l.out = n.out \o <<>> /\ e \o <<>> = e
  BY <1>1, <1>9, NoFrame DEF Leaves
<1>13. Line(l, m, f, Tail(c), e \o <<>>)
  BY <1>4, <1>6, <1>9, <1>11, <1>12 DEF Line, Talk
<1>14. Good(p, l, m, Tail(c), d)
  BY <1>1, <1>2, <1>6, <1>9, <1>12, <1>13, <1>91, StepAbout DEF Leaves
<1>15. SendEnds(n, f, how) = ScheduleNextSend(l)
  BY <1>5 DEF SendEnds, l
<1>16. Good(p, ScheduleNextSend(l), m, Tail(c), d) /\ SameButSends(l, ScheduleNextSend(l))
  BY <1>14, ScheduleGood
<1>17. Head(c).op = "FinishAck" => [i \in 1 .. Total |-> n.senders[f].version] \in m.saved[f]
  BY <1>4 DEF Done
<1>18. SenderEnded(n, ScheduleNextSend(l), f, how)
  BY <1>9, <1>10, <1>16 DEF SameButSends, SenderEnded, Leaves
<1> QED BY <1>5, <1>15, <1>16, <1>17, <1>18

\* n0 is n after it sent new
Said(n, n0, new) ==
    /\ Shape(n0) /\ new \in Seq(Frames) /\ n0.out = n.out \o new
    /\ \A x \in Fields \ {"out"} : n0[x] = n[x]

\* Nothing said, or one frame.
LEMMA SaidNothing ==
    ASSUME NEW n, Shape(n), n.out \in Seq(Frames)
    PROVE  Said(n, n, <<>>)
BY NoFrame DEF Said

\* Sending says the frames and nothing else.
LEMMA SendSays ==
    ASSUME NEW n, Shape(n), NEW new \in Seq(Frames)
    PROVE  Said(n, Send(n, new), new)
BY DEF Said, Send, Shape, Fields

\* What is said does not touch what is held.
LEMMA SaidHalf ==
    ASSUME NEW p, NEW n, Half(p, n), NEW n0, NEW new, Said(n, n0, new)
    PROVE  Half(p, n0)
<1>1. n0.out \in Seq(Frames)
  BY AppendIs DEF Half, Said
<1>2. /\ n0.senders = n.senders /\ n0.sendQueue = n.sendQueue /\ n0.sendQueued = n.sendQueued
      /\ n0.sendActive = n.sendActive /\ n0.offered = n.offered /\ n0.accepted = n.accepted
      /\ n0.offers = n.offers /\ n0.recvQueue = n.recvQueue /\ n0.recvQueued = n.recvQueued
      /\ n0.receivers = n.receivers /\ n0.recvActive = n.recvActive /\ n0.cancelled = n.cancelled
      /\ n0.store = n.store /\ n0.part = n.part /\ n0.saved = n.saved /\ n0.source = n.source
  BY DEF Said, Fields
<1>3. SendSide(p, n0)
  BY <1>2 DEF Half, SendSide, Task
<1>4. RecvSide(Other(p), n0)
  BY <1>2 DEF Half, RecvSide, Hold
<1>5. Stored(Other(p), n0)
  BY <1>2 DEF Half, Stored
<1> QED BY <1>1, <1>3, <1>4, <1>5 DEF Half, Said

\* frames that cancel f
Cancels(p, n, f, new) ==
    /\ new \in Seq(Frames) /\ InTurn(new, f)
    /\ \A fr \in Range(new) : fr.file = f /\ fr.op = "Cancel" /\ IsFrame(Other(p), p, n.source, fr)

\* the frames new tell the other end, or it neither holds f nor will be offered it
Heard(m, f, new, e) ==
    \/ Carries(Range(new), f, "Cancel")
    \/ f \notin Hold(m) /\ ~Carries(Range(e), f, "Offer")

\* Whoever cancels a file that is sent, it is over at the sending end.
LEMMA CancelSendGood ==
    ASSUME OneWay, NEW p, NEW n, NEW m, NEW c, NEW d, Good(p, n, m, c, d),
           NEW f \in DOMAIN n.senders, NEW byPeer \in BOOLEAN,
           NEW new, Cancels(p, n, f, new), NEW n0, Said(n, n0, new),
           NEW c2, Shrinks(c, c2, f),
           Heard(m, f, new, d \o n.out)
    PROVE  LET k == Cancelled(n0, f, byPeer) IN
           /\ Good(p, k, m, c2, d)
           /\ SenderEnded(n, k, f, "Cancelled")
<1> DEFINE e == d \o n.out
           z == [Forget(n0, f) EXCEPT !.cancelled = @ \cup {f}]
           l == Ended(CleanupTask(IF f \in n0.sendQueued /\ ~byPeer THEN z ELSE FreeSendSlot(z), f),
                      f, "send", "Cancelled")
           active == IF f \in n0.sendQueued /\ ~byPeer THEN n0.sendActive ELSE Less1(n0.sendActive)
           Q == Range(e)
           Q2 == Range(e \o new)
<1>1. /\ p \in Peers /\ Half(p, n) /\ Shape(n) /\ n.out \in Seq(Frames) /\ SendSide(p, n)
      /\ e \in Seq(Frames) /\ \A fr \in Q : IsFrame(Other(p), p, n.source, fr)
      /\ Dated(n, m.source)
  BY DEF Good, Half, Link
<1>2. /\ f \in Files /\ <<p, f>> \in Plan
  BY <1>1, FileTransferAssumption DEF SendSide, Task
<1>3. <<Other(p), f>> \notin Plan
  BY <1>1, <1>2, OtherIs DEF OneWay
<1>4. /\ Half(p, n0) /\ Shape(n0) /\ n0.out = n.out \o new /\ new \in Seq(Frames)
      /\ n0.senders = n.senders /\ n0.recvQueue = n.recvQueue /\ n0.recvActive = n.recvActive
      /\ n0.saved = n.saved /\ n0.finished = n.finished /\ n0.source = n.source
      /\ n0.offers = n.offers /\ n0.recvQueued = n.recvQueued /\ n0.receivers = n.receivers
      /\ n0.offered = n.offered /\ n0.accepted = n.accepted /\ n0.cancelled = n.cancelled
      /\ n0.sendQueued = n.sendQueued
  BY <1>1, SaidHalf DEF Said, Fields
<1>5. Cleaned(Released(n0, f, n0.cancelled \cup {f}, active), l, f, "send", "Cancelled")
  BY <1>4, SendCancelIs
<1>6. Counted(n0, f, n0.cancelled \cup {f}, active)
  <2>1. f \in n0.sendQueued => f \notin n0.offered
    BY <1>1, <1>4 DEF SendSide
  <2> QED BY <2>1 DEF Counted
<1> HIDE DEF l, active
<1>7. /\ Leaves(p, n0, l, f)
      /\ f \notin l.offered /\ f \notin l.accepted /\ l.cancelled = n0.cancelled \cup {f}
  <2>1. f \in DOMAIN n0.senders
    BY <1>4
  <2> QED BY <1>1, <1>4, <1>5, <1>6, <2>1, SenderGone
<1>8. /\ l.recvQueue = n.recvQueue /\ l.recvActive = n.recvActive /\ l.saved = n.saved
      /\ l.senders = Without(n.senders, f)
      /\ l.finished = With(n.finished, f, <<"send", "Cancelled">>)
  BY <1>4, <1>5 DEF Cleaned, Released, Shape, Fields
<1>9. /\ Half(p, l) /\ l.source = n.source /\ l.out = n.out \o new /\ Dated(l, m.source)
      /\ \A g \in Files \ {f} : SameSends(n, l, g) /\ SameHolds(n, l, g)
  <2>1. Dated(n0, m.source)
    BY <1>1, <1>4 DEF Dated
  <2>2. \A g \in Files \ {f} : SameSends(n0, l, g) /\ SameHolds(n0, l, g)
    BY <1>7 DEF Leaves
  <2>3. \A g \in Files \ {f} : SameSends(n, l, g) /\ SameHolds(n, l, g)
    BY <1>4, <2>2 DEF SameSends, SameHolds
  <2> QED BY <1>4, <1>7, <2>1, <2>3 DEF Leaves
<1>10. InTurn(e \o new, f) /\ Q2 = Q \cup Range(new)
  <2>1. \A a \in Q, b \in Range(new) : a.file = f /\ b.file = f => <<a.op, b.op>> \in Follow
    <3> SUFFICES ASSUME NEW a \in Q, NEW b \in Range(new), a.file = f PROVE <<a.op, b.op>> \in Follow
      OBVIOUS
    <3>1. a.op \in {"Offer", "Data", "Finish", "Cancel"}
      <4>1. IsFrame(Other(p), p, n.source, a)
        BY <1>1
      <4>2. a.op \in Ops
        BY <4>1 DEF IsFrame, Frames
      <4> QED BY <1>3, <4>1, <4>2 DEF IsFrame, Ops
    <3>2. b.op = "Cancel"
      BY DEF Cancels
    <3> QED BY <3>1, <3>2 DEF Follow
  <2>2. InTurn(e, f)
    BY <1>2 DEF Good, Link, Line
  <2> QED BY <1>1, <2>1, <2>2, AppendIs DEF Cancels
<1>11. Over(l, m, f, Q2)
  <2>1. Carries(Q2, f, "Offer") => Carries(Q, f, "Offer")
    BY <1>10 DEF Carries, Cancels
  <2>2. Carries(Range(new), f, "Cancel") => Carries(Q2, f, "Cancel")
    BY <1>10 DEF Carries
  <2> QED BY <1>7, <2>1, <2>2 DEF Over, Heard
<1>12. Line(l, m, f, c2, e \o new)
  BY <1>7, <1>10, <1>11 DEF Line, Talk
<1>13. \A fr \in Range(new) : fr.file = f /\ IsFrame(Other(p), p, n.source, fr)
  BY DEF Cancels
<1>14. Good(p, l, m, c2, d)
  BY <1>2, <1>3, <1>4, <1>9, <1>12, <1>13, StepAbout
<1>15. Cancelled(n0, f, byPeer) = ScheduleNextSend(l)
  BY <1>4 DEF Cancelled, l
<1>16. Good(p, ScheduleNextSend(l), m, c2, d) /\ SameButSends(l, ScheduleNextSend(l))
  BY <1>14, ScheduleGood
<1>17. SenderEnded(n, ScheduleNextSend(l), f, "Cancelled")
  BY <1>8, <1>9, <1>16 DEF SameButSends, SenderEnded
<1> QED BY <1>15, <1>16, <1>17

-----------------------------------------------------------------------------
(* A transfer is asked for. *)

\* n has come to k, which sends f as well
Queues(n, k, f) ==
    /\ k.recvQueue = n.recvQueue /\ k.recvActive = n.recvActive /\ k.saved = n.saved
    /\ k.source = n.source /\ k.finished = n.finished
    /\ DOMAIN k.senders = DOMAIN n.senders \cup {f}

\* The task is queued, with the progress of an earlier session.
LEMMA StartSendGood ==
    ASSUME OneWay, NEW p, NEW n, NEW m, NEW c, NEW d, Good(p, n, m, c, d),
           NEW f, <<p, f>> \in Plan, f \notin DOMAIN n.senders, f \notin n.sendQueued
    PROVE  LET resume == IF f \in DOMAIN n.store /\ n.store[f].direction = "send"
                           THEN n.store[f].next ELSE 0
               task == [window |-> NewSender(resume), version |-> n.source[f]]
               k == ScheduleNextSend([Record(n, f, "send", resume) EXCEPT
                        !.senders = With(@, f, task), !.sendQueue = Append(@, f),
                        !.sendQueued = @ \cup {f}])
           IN  Good(p, k, m, c, d) /\ Queues(n, k, f)
<1> DEFINE resume == IF f \in DOMAIN n.store /\ n.store[f].direction = "send"
                       THEN n.store[f].next ELSE 0
           task == [window |-> NewSender(resume), version |-> n.source[f]]
           l == [Record(n, f, "send", resume) EXCEPT
                    !.senders = With(@, f, task), !.sendQueue = Append(@, f),
                    !.sendQueued = @ \cup {f}]
           rec == [direction |-> "send", next |-> resume]
<1>1. /\ p \in Peers /\ Half(p, n) /\ Shape(n) /\ n.out \in Seq(Frames) /\ SendSide(p, n)
      /\ RecvSide(Other(p), n) /\ Stored(Other(p), n) /\ f \in Files
  BY FileTransferAssumption DEF Good, Half
<1>2. resume \in 0 .. Total
  <2>1. ASSUME f \in DOMAIN n.store PROVE n.store[f].next \in 0 .. Total
    <3>1. n.store[f] \in [direction : {"send", "recv"}, next : 0 .. Total]
      BY <1>1, <2>1 DEF Stored
    <3> QED BY <3>1
  <2>2. 0 \in 0 .. Total
    BY SlideWindowAssumption
  <2> QED BY <2>1, <2>2
<1> HIDE DEF resume
<1>3. /\ Shape(l)
      /\ l.senders = With(n.senders, f, task) /\ l.sendQueue = Append(n.sendQueue, f)
      /\ l.sendQueued = n.sendQueued \cup {f} /\ l.store = With(n.store, f, rec)
      /\ l.sendActive = n.sendActive /\ l.offered = n.offered /\ l.accepted = n.accepted
      /\ l.offers = n.offers /\ l.recvQueue = n.recvQueue /\ l.recvQueued = n.recvQueued
      /\ l.receivers = n.receivers /\ l.recvActive = n.recvActive /\ l.cancelled = n.cancelled
      /\ l.part = n.part /\ l.saved = n.saved /\ l.source = n.source /\ l.out = n.out
      /\ l.finished = n.finished
  BY <1>1, WithIs DEF Record, Shape, Fields
<1> HIDE DEF l
<1>4. /\ DOMAIN l.senders = DOMAIN n.senders \cup {f} /\ l.senders[f] = task
      /\ \A g \in DOMAIN n.senders \ {f} : l.senders[g] = n.senders[g]
  <2> HIDE DEF task
  <2> DEFINE w == With(n.senders, f, task)
  <2>1. /\ DOMAIN w = DOMAIN n.senders \cup {f} /\ w[f] = task
        /\ \A g \in DOMAIN n.senders \ {f} : w[g] = n.senders[g]
    BY DEF With
  <2> HIDE DEF w
  <2>2. l.senders = w
    BY <1>3 DEF w
  <2> QED BY <2>1, <2>2
<1>5. /\ DOMAIN l.store = DOMAIN n.store \cup {f} /\ l.store[f] = rec
      /\ \A g \in DOMAIN n.store \ {f} : l.store[g] = n.store[g]
  <2> HIDE DEF rec
  <2> DEFINE w == With(n.store, f, rec)
  <2>1. /\ DOMAIN w = DOMAIN n.store \cup {f} /\ w[f] = rec
        /\ \A g \in DOMAIN n.store \ {f} : w[g] = n.store[g]
    BY DEF With
  <2> HIDE DEF w
  <2>2. l.store = w
    BY <1>3 DEF w
  <2> QED BY <2>1, <2>2
<1>6. Task(p, l, f)
  <2>1. /\ Sound(NewSender(resume)) /\ Exact(NewSender(resume)) /\ Still(NewSender(resume))
        /\ NewSender(resume).sent = {}
    BY <1>2, NewSenderStill
  <2>2. n.source[f] \in 1 .. n.source[f]
    BY <1>1, FileTransferAssumption DEF SendSide, Versions
  <2>3. /\ DOMAIN task = {"window", "version"} /\ task.window = NewSender(resume)
        /\ task.version = n.source[f]
    OBVIOUS
  <2> HIDE DEF task
  <2> QED BY <1>3, <1>4, <2>1, <2>2, <2>3 DEF Task
<1>7. ASSUME NEW g \in DOMAIN l.senders PROVE Task(p, l, g)
  <2>1. CASE g = f
    BY <1>6, <2>1
  <2>2. CASE g # f
    <3>1. Task(p, n, g) /\ l.senders[g] = n.senders[g]
      BY <1>1, <1>4, <1>7, <2>2 DEF SendSide
    <3> HIDE DEF task
    <3> QED BY <1>3, <3>1 DEF Task
  <2> QED BY <2>1, <2>2
<1>8. IsFiniteSet(DOMAIN l.senders)
  BY <1>1, <1>4, FS_AddElement DEF SendSide
<1>9. /\ l.sendQueue \in Seq(Files) /\ Range(l.sendQueue) = Range(n.sendQueue) \cup {f}
      /\ \A i \in DOMAIN l.sendQueue :
            \/ i \in DOMAIN n.sendQueue /\ l.sendQueue[i] = n.sendQueue[i]
            \/ i = Len(n.sendQueue) + 1 /\ l.sendQueue[i] = f
  BY <1>1, <1>3, QueueAppend DEF SendSide
<1>10. ASSUME NEW i \in DOMAIN l.sendQueue, NEW j \in DOMAIN l.sendQueue, l.sendQueue[i] \notin l.cancelled
       PROVE  /\ l.sendQueue[i] \in l.sendQueued
              /\ l.sendQueue[i] = l.sendQueue[j] => i = j
  <2>1. ASSUME NEW h \in DOMAIN n.sendQueue, n.sendQueue[h] = f PROVE f \in n.cancelled
    BY <1>1, <2>1 DEF SendSide
  <2>2. CASE i \in DOMAIN n.sendQueue /\ l.sendQueue[i] = n.sendQueue[i]
    <3>1. l.sendQueue[i] # f
      BY <1>3, <1>10, <2>1, <2>2
    <3>2. l.sendQueue[i] \in n.sendQueued
      BY <1>1, <1>3, <1>10, <2>2 DEF SendSide
    <3>3. ASSUME l.sendQueue[i] = l.sendQueue[j] PROVE i = j
      <4>1. j \in DOMAIN n.sendQueue /\ l.sendQueue[j] = n.sendQueue[j]
        BY <1>9, <3>1, <3>3
      <4> QED BY <1>1, <1>3, <1>10, <2>2, <3>3, <4>1 DEF SendSide
    <3> QED BY <1>3, <3>2, <3>3
  <2>3. CASE i = Len(n.sendQueue) + 1 /\ l.sendQueue[i] = f
    <3>1. ASSUME l.sendQueue[j] = f PROVE j = i
      BY <1>3, <1>9, <1>10, <2>1, <2>3, <3>1
    <3> QED BY <1>3, <2>3, <3>1
  <2> QED BY <1>9, <2>2, <2>3
<1>11. SendSide(p, l)
  <2>1. l.accepted \subseteq DOMAIN l.senders /\ l.offered \subseteq DOMAIN l.senders
        /\ l.sendQueued \subseteq Range(l.sendQueue) /\ l.sendQueued \cap l.offered = {}
    BY <1>1, <1>3, <1>4, <1>9 DEF SendSide
  <2> QED BY <1>1, <1>3, <1>7, <1>8, <1>9, <1>10, <2>1 DEF SendSide
<1>12. RecvSide(Other(p), l)
  BY <1>1, <1>3 DEF RecvSide, Hold
<1>13. Stored(Other(p), l)
  <2>1. rec \in [direction : {"send", "recv"}, next : 0 .. Total] /\ rec.direction # "recv"
    BY <1>2
  <2> HIDE DEF rec
  <2> QED BY <1>1, <1>3, <1>5, <2>1 DEF Stored
<1>14. Half(p, l)
  BY <1>1, <1>3, <1>11, <1>12, <1>13 DEF Half
<1>15. \A g \in Files : SameSends(n, l, g) /\ SameHolds(n, l, g)
  BY <1>3, <1>4 DEF SameSends, SameHolds
<1>16. Good(p, l, m, c, d)
  BY <1>3, <1>14, <1>15, StepAside
<1>17. Good(p, ScheduleNextSend(l), m, c, d) /\ SameButSends(l, ScheduleNextSend(l))
  BY <1>16, ScheduleGood
<1> DEFINE k == ScheduleNextSend(l)
<1>18. Queues(n, k, f)
  BY <1>3, <1>4, <1>17 DEF SameButSends, Queues
<1> QED BY <1>17, <1>18 DEF l, resume

-----------------------------------------------------------------------------
(* A tick. *)

\* k's senders are those of n with some blocks unmarked
Unmarks(n, k) ==
    /\ Shape(k) /\ DOMAIN k.senders = DOMAIN n.senders
    /\ \A f \in DOMAIN n.senders : LET w == n.senders[f].window
                                       v == k.senders[f].window IN
          /\ DOMAIN k.senders[f] = {"window", "version"}
          /\ k.senders[f].version = n.senders[f].version
          /\ Sound(v) /\ Exact(v) /\ Still(v)
          /\ v.resume = w.resume /\ v.next = w.next /\ v.start = w.start /\ v.sent \subseteq w.sent
    /\ \A x \in Fields \ {"senders"} : k[x] = n[x]

\* A conversation does not notice it.
LEMMA TalkUnmarked ==
    ASSUME NEW n, NEW k, NEW m, NEW f, NEW P, NEW Q, Unmarks(n, k),
           n.offered \subseteq DOMAIN n.senders, Talk(n, m, f, P, Q)
    PROVE  Talk(k, m, f, P, Q)
<1>1. /\ k.offered = n.offered /\ k.accepted = n.accepted /\ k.cancelled = n.cancelled
  BY DEF Unmarks, Fields
<1>2. Asked(k, f) <=> Asked(n, f)
  BY <1>1 DEF Asked
<1>3. f \in n.offered => k.senders[f].version = n.senders[f].version
  BY DEF Unmarks
<1>4. ASSUME f \in n.offered
      PROVE  /\ AllAcked(k.senders[f].window) <=> AllAcked(n.senders[f].window)
             /\ \A r : Progress(n.senders[f].window, r, f, P, Q) => Progress(k.senders[f].window, r, f, P, Q)
  <2> DEFINE w == n.senders[f].window
             v == k.senders[f].window
  <2>1. v.resume = w.resume /\ v.next = w.next /\ v.start = w.start /\ v.sent \subseteq w.sent
    BY <1>4 DEF Unmarks
  <2> HIDE DEF v, w
  <2>2. AllAcked(v) <=> AllAcked(w)
    BY <2>1 DEF AllAcked
  <2>3. Steady(w) => Steady(v)
    BY <2>1 DEF Steady, Behind
  <2>4. ASSUME NEW r, Progress(w, r, f, P, Q) PROVE Progress(v, r, f, P, Q)
    BY <2>1, <2>2, <2>3, <2>4 DEF Progress
  <2> QED BY <2>2, <2>4 DEF v, w
<1>5. CASE f \in n.cancelled
  BY <1>1, <1>5 DEF Talk, Over
<1>6. ASSUME StoppedEarly(n, m, f, P, Q) PROVE StoppedEarly(k, m, f, P, Q)
  BY <1>2, <1>6 DEF StoppedEarly
<1>7. ASSUME Stopped(n, m, f, P, Q) PROVE Stopped(k, m, f, P, Q)
  BY <1>1, <1>4, <1>7 DEF Stopped
<1>8. ASSUME Idle(n, m, f, P, Q) PROVE Idle(k, m, f, P, Q)
  BY <1>1, <1>8 DEF Idle
<1>9. ASSUME OfferOnItsWay(n, m, f, P, Q) PROVE OfferOnItsWay(k, m, f, P, Q)
  BY <1>2, <1>3, <1>9 DEF OfferOnItsWay, Asked
<1>10. ASSUME Pending(n, m, f, P, Q) PROVE Pending(k, m, f, P, Q)
  BY <1>2, <1>3, <1>10 DEF Pending, Asked
<1>11. ASSUME Refused(n, m, f, P, Q) PROVE Refused(k, m, f, P, Q)
  BY <1>2, <1>11 DEF Refused
<1>12. ASSUME Accepting(n, m, f, P, Q) PROVE Accepting(k, m, f, P, Q)
  BY <1>2, <1>3, <1>12 DEF Accepting, Asked
<1>13. ASSUME Running(n, m, f, P, Q) PROVE Running(k, m, f, P, Q)
  BY <1>1, <1>3, <1>4, <1>13 DEF Running
<1>14. ASSUME Done(n, m, f, P, Q) PROVE Done(k, m, f, P, Q)
  BY <1>1, <1>3, <1>4, <1>14 DEF Done
<1> QED BY <1>1, <1>5, <1>6, <1>7, <1>8, <1>9, <1>10, <1>11, <1>12, <1>13, <1>14 DEF Talk

\* Blocks that are due are unmarked; the other end sees nothing of it.
LEMMA UnmarkGood ==
    ASSUME OneWay, NEW p, NEW n, NEW m, NEW c, NEW d, Good(p, n, m, c, d), NEW k, Unmarks(n, k)
    PROVE  Good(p, k, m, c, d)
<1> DEFINE e == d \o n.out
<1>1. /\ p \in Peers /\ Half(p, n) /\ Half(Other(p), m) /\ Drained(m) /\ d \in Seq(Frames)
      /\ Link(p, n, m, c, e) /\ Shape(n) /\ n.out \in Seq(Frames) /\ SendSide(p, n)
      /\ RecvSide(Other(p), n) /\ Stored(Other(p), n)
  BY DEF Good, Half
<1>2. /\ k.out = n.out
      /\ k.sendQueue = n.sendQueue /\ k.sendQueued = n.sendQueued /\ k.sendActive = n.sendActive
      /\ k.offered = n.offered /\ k.accepted = n.accepted /\ k.offers = n.offers /\ k.recvQueue = n.recvQueue
      /\ k.recvQueued = n.recvQueued /\ k.receivers = n.receivers /\ k.recvActive = n.recvActive
      /\ k.cancelled = n.cancelled /\ k.store = n.store /\ k.part = n.part
      /\ k.saved = n.saved /\ k.source = n.source
  BY DEF Unmarks, Fields
<1>3. DOMAIN k.senders = DOMAIN n.senders /\ \A f \in DOMAIN k.senders : Task(p, k, f)
  <2> SUFFICES ASSUME NEW f \in DOMAIN n.senders PROVE Task(p, k, f)
    BY DEF Unmarks
  <2>1. Task(p, n, f)
    BY <1>1 DEF SendSide
  <2> QED BY <1>2, <2>1 DEF Task, Unmarks
<1>4. Half(p, k)
  <2>1. SendSide(p, k)
    BY <1>1, <1>2, <1>3 DEF SendSide
  <2>2. RecvSide(Other(p), k) /\ Stored(Other(p), k)
    BY <1>1, <1>2 DEF RecvSide, Hold, Stored
  <2> QED BY <1>1, <1>2, <2>1, <2>2 DEF Half, Unmarks
<1>5. Dated(k, m.source)
  BY <1>1, <1>2 DEF Dated, Link
<1>6. ASSUME NEW g \in Files, <<p, g>> \in Plan PROVE Line(k, m, g, c, e)
  <2>1. Line(n, m, g, c, e) /\ n.offered \subseteq DOMAIN n.senders
    BY <1>1, <1>6 DEF Link, SendSide
  <2> QED BY <1>2, <2>1, TalkUnmarked DEF Line
<1>7. ASSUME NEW g \in Files, <<Other(p), g>> \in Plan PROVE Line(m, k, g, e, c)
  <2>1. Line(m, n, g, e, c) /\ m.offered \subseteq DOMAIN m.senders
    BY <1>1, <1>7 DEF Link, Half, SendSide
  <2>2. SameSends(m, m, g) /\ SameHolds(n, k, g) /\ \A F : SameFrames(F, F, g)
    BY <1>2 DEF SameSends, SameHolds, SameFrames
  <2> QED BY <2>1, <2>2, SameTalk DEF Line
<1>8. Link(p, k, m, c, e)
  BY <1>1, <1>2, <1>5, <1>6, <1>7 DEF Link
<1> QED BY <1>1, <1>2, <1>4, <1>8 DEF Good

\* fill_window for any task.
LEMMA FillGood ==
    ASSUME OneWay, NEW p, NEW n, NEW m, NEW c, NEW d, Good(p, n, m, c, d), NEW f
    PROVE  Good(p, Fill(n, f), m, c, d)
<1> DEFINE e == d \o n.out
           w == n.senders[f].window
           u == FillWindow(w)
           k == Fill(n, f)
           new == Blocks(n, f, w)
           r == m.receivers[f].next
           P == Range(c)
           Q == Range(e)
           Q2 == Q \cup Range(new)
<1>1. /\ p \in Peers /\ Shape(n) /\ n.out \in Seq(Frames) /\ SendSide(p, n) /\ c \in Seq(Frames)
      /\ e \in Seq(Frames) /\ RecvSide(p, m)
  BY OtherIs DEF Good, Half, Link
<1>2. CASE f \notin n.accepted
  BY <1>2 DEF Fill
<1>3. CASE f \in n.accepted
  <2>1. /\ f \in DOMAIN n.senders /\ f \in Files /\ <<p, f>> \in Plan /\ Task(p, n, f)
    BY <1>1, <1>3, FileTransferAssumption DEF SendSide, Task
  <2>2. Line(n, m, f, c, e)
    BY <2>1 DEF Good, Link
  <2>3. /\ f \notin n.cancelled /\ f \in n.offered
        /\ \/ Running(n, m, f, P, Q) /\ f \notin m.cancelled
           \/ Done(n, m, f, P, Q) /\ f \notin m.cancelled
           \/ Stopped(n, m, f, P, Q) /\ f \in m.cancelled
    BY <1>3, <2>2 DEF Line, Talk, StoppedEarly, Idle, OfferOnItsWay, Pending,
       Refused, Accepting, Over, Asked, Running, Done, Stopped
  <2>4. /\ Sound(u) /\ Exact(u) /\ Still(u) /\ Sound(w) /\ Exact(w) /\ Still(w)
        /\ u.resume = w.resume /\ u.start = w.start
        /\ Sendable(w) \subseteq Seqs /\ (AllAcked(w) => Sendable(w) = {})
        /\ Behind(w) => /\ Steady(u) /\ u.next >= w.next
                        /\ \A q \in Sendable(w) : q < u.next
                        /\ u.next > w.next => u.next - 1 \in Sendable(w)
    <3>1. Sound(w) /\ Exact(w) /\ Still(w)
      BY <2>1 DEF Task
    <3> HIDE DEF w
    <3> QED BY <3>1, FillStill
  <2>5. Sends(n, k, f, u, new)
    BY <1>1, <1>3, <2>1, FillIs
  <2>6. AreBlocks(p, n, f, w, new)
    BY <1>1, <2>1, <2>4, BlocksAre
  <2> HIDE DEF k, u, w, new
  <2>7. /\ f \in k.offered /\ f \in k.accepted /\ k.senders[f].window = u
        /\ k.senders[f].version = n.senders[f].version /\ k.cancelled = n.cancelled
    BY <1>3, <2>1, <2>3, <2>5 DEF Sends, Moved, Fields, Task
  <2>8. AllAcked(u) <=> AllAcked(w)
    BY <2>4 DEF AllAcked
  <2>9. Carries(Q, f, "Finish") => AllAcked(w)
    BY <2>3 DEF Running, Done, Stopped, Progress, Only, Carries, w
  <2>10. ASSUME NEW fr \in Range(new) PROVE fr.file = f /\ fr.op = "Data" /\ ~AllAcked(w) /\ fr.seq \in Sendable(w)
    BY <2>4, <2>6 DEF AreBlocks
  <2>11. new \in Seq(Frames) /\ Range(e \o new) = Q2 /\ InTurn(e \o new, f)
    <3>1. \A a \in Q, b \in Range(new) : a.file = f /\ b.file = f => <<a.op, b.op>> \in Follow
      <4> SUFFICES ASSUME NEW a \in Q, NEW b \in Range(new), a.file = f PROVE <<a.op, b.op>> \in Follow
        OBVIOUS
      <4>1. a.op \in {"Data", "Finish"}
        BY <2>3 DEF Running, Done, Stopped, Only
      <4>2. a.op # "Finish"
        BY <2>9, <2>10 DEF Carries
      <4> QED BY <2>10, <4>1, <4>2 DEF Follow
    <3> QED BY <1>1, <2>2, <2>6, <3>1, AppendIs DEF AreBlocks, Line
  <2>12. /\ Only(Q2, f, {"Data", "Finish"}) \/ ~Only(Q, f, {"Data", "Finish"})
         /\ Carries(Q2, f, "Finish") <=> Carries(Q, f, "Finish")
    BY <2>10 DEF Only, Carries
  <2>13. ASSUME Running(n, m, f, P, Q) PROVE Running(k, m, f, P, Q2)
    <3>1. Progress(w, r, f, P, Q) /\ f \in DOMAIN m.receivers /\ r \in 0 .. Total
      BY <1>1, <2>13 DEF Running, RecvSide, w
    <3>2. /\ Behind(w) /\ r <= w.next /\ w.next \in 0 .. Total /\ u.next \in 0 .. Total
          /\ w.start \in 0 .. Total
      <4>1. Behind(w) /\ r <= w.next
        BY <3>1 DEF Progress, Steady
      <4> QED BY <2>4, <4>1, PartsOfSender DEF Sound
    <3>3. /\ Steady(u) /\ u.next >= w.next /\ u.start = w.start /\ u.resume = w.resume
      BY <2>4, <3>2
    <3>4. \A fr \in Q2 : fr.file = f /\ fr.op = "Data" => fr.seq < u.next
      <4> SUFFICES ASSUME NEW fr \in Q2, fr.file = f, fr.op = "Data" PROVE fr.seq < u.next
        OBVIOUS
      <4>1. CASE fr \in Q
        <5>1. fr.seq < w.next
          BY <3>1, <4>1 DEF Progress
        <5>2. fr.seq \in Int
          <6>1. IsFrame(Other(p), p, n.source, fr)
            BY <4>1 DEF Good, Link
          <6> QED BY <6>1 DEF IsFrame, Frames
        <5> QED BY <3>2, <3>3, <5>1, <5>2
      <4>2. CASE fr \in Range(new)
        BY <2>4, <2>10, <3>2, <4>2
      <4> QED BY <4>1, <4>2
    <3>5. ASSUME u.start < Total, r < u.next
          PROVE  \E fr \in Q2 : fr.file = f /\ fr.op = "Data" /\ fr.seq = u.next - 1
      <4>1. CASE u.next > w.next
        <5>1. u.next - 1 \in Sendable(w)
          BY <2>4, <3>2, <4>1
        <5>2. \E fr \in Range(new) : fr.seq = u.next - 1
          BY <2>6, <5>1 DEF AreBlocks
        <5> QED BY <2>10, <5>2
      <4>2. CASE u.next = w.next
        <5>1. \E fr \in Q : fr.file = f /\ fr.op = "Data" /\ fr.seq = w.next - 1
          BY <3>1, <3>3, <3>5, <4>2 DEF Progress
        <5> QED BY <4>2, <5>1
      <4> QED BY <3>2, <3>3, <4>1, <4>2
    <3>6. r <= u.next
      BY <3>1, <3>2, <3>3
    <3>7. Progress(u, r, f, P, Q2)
      BY <2>8, <2>12, <3>1, <3>3, <3>4, <3>5, <3>6 DEF Progress
    <3> QED BY <2>7, <2>12, <2>13, <3>7 DEF Running
  <2>14. ASSUME Done(n, m, f, P, Q) PROVE Done(k, m, f, P, Q2)
    <3>1. AllAcked(w) /\ AllAcked(u)
      BY <2>8, <2>14 DEF Done, w
    <3>2. Only(Q2, f, {})
      BY <2>10, <2>14, <3>1 DEF Done, Only
    <3> QED BY <2>7, <2>14, <3>1, <3>2 DEF Done
  <2>15. ASSUME Stopped(n, m, f, P, Q) PROVE Stopped(k, m, f, P, Q2)
    BY <2>7, <2>8, <2>9, <2>12, <2>15 DEF Stopped
  <2>16. Line(k, m, f, c, e \o new)
    BY <2>2, <2>3, <2>7, <2>11, <2>13, <2>14, <2>15 DEF Line, Talk
  <2>17. Shrinks(c, c, f)
    BY <1>1, ShrinksNot
  <2>18. \A fr \in Range(new) : fr.file = f /\ IsFrame(Other(p), p, n.source, fr)
    BY <2>6 DEF AreBlocks
  <2>19. Good(p, k, m, c, d)
    BY <2>1, <2>4, <2>5, <2>11, <2>16, <2>17, <2>18, SenderStep
  <2> QED BY <2>19 DEF k
<1> QED BY <1>2, <1>3

\* What every handler of the sending side leaves alone.
SameRecv(n, k) ==
    /\ DOMAIN k.senders = DOMAIN n.senders
    /\ k.recvQueue = n.recvQueue /\ k.recvActive = n.recvActive
    /\ k.saved = n.saved /\ k.source = n.source /\ k.finished = n.finished

\* The blocks that are due are blocks in flight.
LEMMA UnmarkedIs ==
    ASSUME NEW p, NEW n, Shape(n), SendSide(p, n), NEW due \in SUBSET InFlight(n)
    PROVE  LET k == [n EXCEPT !.senders = [f \in DOMAIN @ |-> Unmarked(n, f, due)]]
           IN  Unmarks(n, k)
<1> DEFINE X(f) == {q \in Seqs : <<f, q>> \in due}
           k == [n EXCEPT !.senders = [f \in DOMAIN @ |-> Unmarked(n, f, due)]]
<1>1. /\ Shape(k) /\ DOMAIN k.senders = DOMAIN n.senders
      /\ \A x \in Fields \ {"senders"} : k[x] = n[x]
      /\ \A f \in DOMAIN n.senders :
            k.senders[f] = Unmarked(n, f, due)
  BY DEF Shape, Fields, IsMap
<1> HIDE DEF k
<1>2. ASSUME NEW f \in DOMAIN n.senders
      PROVE  LET w == n.senders[f].window
                 v == k.senders[f].window IN
          /\ DOMAIN k.senders[f] = {"window", "version"}
          /\ k.senders[f].version = n.senders[f].version
          /\ Sound(v) /\ Exact(v) /\ Still(v)
          /\ v.resume = w.resume /\ v.next = w.next /\ v.start = w.start /\ v.sent \subseteq w.sent
  <2> DEFINE w == n.senders[f].window
             v == RetransmitDue(w, X(f))
  <2>1. Task(p, n, f)
    BY DEF SendSide
  <2>2. X(f) \in SUBSET DOMAIN w.age
    <3> SUFFICES ASSUME NEW q \in X(f) PROVE q \in DOMAIN w.age
      OBVIOUS
    <3>1. <<f, q>> \in InFlight(n)
      OBVIOUS
    <3> QED BY <3>1 DEF InFlight
  <2> HIDE DEF X
  <2>3. /\ k.senders[f].window = v /\ k.senders[f].version = n.senders[f].version
        /\ DOMAIN k.senders[f] = {"window", "version"}
    <3> HIDE DEF v
    <3>1. k.senders[f] = [n.senders[f] EXCEPT !.window = v]
      BY <1>1 DEF v, X, Unmarked
    <3> QED BY <2>1, <3>1 DEF Task
  <2>4. Sound(w) /\ Exact(w) /\ Still(w)
    BY <2>1 DEF Task
  <2> HIDE DEF w
  <2>5. /\ Sound(v) /\ Exact(v) /\ Still(v)
        /\ v.resume = w.resume /\ v.next = w.next /\ v.start = w.start /\ v.sent \subseteq w.sent
    BY <2>2, <2>4, UnmarkStill
  <2> HIDE DEF v
  <2> QED BY <2>3, <2>5 DEF w
<1>3. Unmarks(n, k)
  BY <1>1, <1>2 DEF Unmarks
<1> QED BY <1>3 DEF k

\* The files of the tasks are listed.
LEMMA TasksListed ==
    ASSUME NEW S, IsFiniteSet(S)
    PROVE  Len(SetToSeq(S)) \in Nat
<1>1. PICK n \in Nat : ExistsBijection(1 .. n, S)
  BY FS_NatBijection
<1>2. n = Cardinality(S)
  BY <1>1, FS_CountingElements
<1>30. PICK h : h \in Bijection(1 .. n, S)
  BY <1>1 DEF ExistsBijection
<1>3. h \in [1 .. Cardinality(S) -> S] /\ IsInjective(h)
  BY <1>2, <1>30 DEF Bijection, Injection, Surjection, IsInjective
<1> DEFINE t == CHOOSE g \in [1 .. Cardinality(S) -> S] : IsInjective(g)
<1>4. t \in [1 .. Cardinality(S) -> S]
  BY <1>3
<1>5. t \in Seq(S) /\ SetToSeq(S) = t
  BY <1>1, <1>2, <1>4 DEF SetToSeq
<1> QED BY <1>5, LenProperties

\* fill_window of the tasks in turn, from u to k
Fills(u, k, tasks) ==
    /\ Len(tasks) \in Nat
    /\ \E h : /\ h[0] = u /\ h[Len(tasks)] = k
             /\ \A i \in 0 .. Len(tasks) - 1 : h[i + 1] = Fill(h[i], tasks[i + 1])

\* The loop of on_tick over the tasks.
LEMMA RepeatedIs ==
    ASSUME NEW n, NEW due, IsFiniteSet(DOMAIN n.senders)
    PROVE  Fills([n EXCEPT !.senders = [f \in DOMAIN @ |-> Unmarked(n, f, due)]],
                 Repeated(n, due), SetToSeq(DOMAIN n.senders))
<1> DEFINE tasks == SetToSeq(DOMAIN n.senders)
           L == Len(tasks)
           u == [n EXCEPT !.senders = [f \in DOMAIN @ |-> Unmarked(n, f, due)]]
           Is(h, k) == h = [i \in 0 .. k |-> IF i = 0 THEN u ELSE Fill(h[i - 1], tasks[i])]
           B == {k \in 0 .. L : \E h : Is(h, k)}
<1>1. L \in Nat
  BY TasksListed
<1> HIDE DEF u, L, tasks
<1>2. 0 \in B
  <2>1. Is([i \in 0 .. 0 |-> u], 0)
    OBVIOUS
  <2> HIDE DEF Is
  <2> QED BY <1>1, <2>1
<1>3. ASSUME NEW k \in 0 .. L - 1, k \in B PROVE k + 1 \in B
  <2>1. PICK h : Is(h, k)
    BY <1>3
  <2> DEFINE g == [i \in 0 .. k + 1 |-> IF i <= k THEN h[i] ELSE Fill(h[k], tasks[k + 1])]
  <2>2. \A i \in 0 .. k + 1 : g[i] = IF i = 0 THEN u ELSE Fill(g[i - 1], tasks[i])
    BY <1>1, <2>1
  <2>3. Is(g, k + 1)
    <3>1. DOMAIN g = 0 .. k + 1
      OBVIOUS
    <3>2. g = [i \in 0 .. k + 1 |-> g[i]]
      BY <3>1
    <3> HIDE DEF g
    <3> QED BY <2>2, <3>2
  <2> HIDE DEF Is
  <2> QED BY <1>1, <2>3
<1>4. \E h : Is(h, L)
  <2> HIDE DEF B
  <2>1. L \in B
    BY <1>1, <1>2, <1>3, Reached
  <2> QED BY <2>1 DEF B
<1> DEFINE go == CHOOSE h : Is(h, L)
<1>5. Is(go, L)
  BY <1>4
<1>6. Repeated(n, due) = go[L]
  BY DEF Repeated, u, tasks, L
<1> HIDE DEF go
<1>7. go[0] = u /\ \A i \in 0 .. L - 1 : go[i + 1] = Fill(go[i], tasks[i + 1])
  BY <1>1, <1>5
<1>8. Fills(u, Repeated(n, due), tasks)
  BY <1>1, <1>6, <1>7 DEF Fills, L
<1> QED BY <1>8 DEF u, tasks

\* fill_window is about the sending side.
LEMMA FillKeeps ==
    ASSUME NEW p, NEW n, Shape(n), SendSide(p, n), NEW f
    PROVE  SameRecv(n, Fill(n, f))
<1>1. CASE f \notin n.accepted
  BY <1>1 DEF Fill, SameRecv
<1>2. CASE f \in n.accepted
  <2>1. Sends(n, Fill(n, f), f, FillWindow(n.senders[f].window), Blocks(n, f, n.senders[f].window))
    BY <1>2, FillIs DEF SendSide
  <2>2. f \in DOMAIN n.senders
    BY <1>2 DEF SendSide
  <2> DEFINE k == Fill(n, f)
  <2> HIDE DEF k
  <2> QED BY <2>1, <2>2 DEF Sends, Moved, SameRecv, Fields, k
<1> QED BY <1>1, <1>2

\* Blocks sent again in a tick.
LEMMA RepeatedGood ==
    ASSUME OneWay, NEW p, NEW n, NEW m, NEW c, NEW d, Good(p, n, m, c, d),
           NEW due \in SUBSET InFlight(n)
    PROVE  Good(p, Repeated(n, due), m, c, d) /\ SameRecv(n, Repeated(n, due))
<1> DEFINE tasks == SetToSeq(DOMAIN n.senders)
           L == Len(tasks)
           u == [n EXCEPT !.senders = [f \in DOMAIN @ |-> Unmarked(n, f, due)]]
<1>1. Shape(n) /\ SendSide(p, n) /\ IsFiniteSet(DOMAIN n.senders)
  BY DEF Good, Half, SendSide
<1>2. L \in Nat /\ \E h : /\ h[0] = u /\ h[L] = Repeated(n, due)
                        /\ \A i \in 0 .. L - 1 : h[i + 1] = Fill(h[i], tasks[i + 1])
  <2>1. Fills(u, Repeated(n, due), tasks)
    BY <1>1, RepeatedIs
  <2> HIDE DEF u, tasks
  <2> QED BY <2>1 DEF Fills
<1>3. PICK h : /\ h[0] = u /\ h[L] = Repeated(n, due)
               /\ \A i \in 0 .. L - 1 : h[i + 1] = Fill(h[i], tasks[i + 1])
  BY <1>2
<1>4. Unmarks(n, u)
  BY <1>1, UnmarkedIs
<1> HIDE DEF u
<1>5. Good(p, u, m, c, d)
  BY <1>4, UnmarkGood
<1>6. SameRecv(n, u)
  BY <1>4 DEF Unmarks, SameRecv, Fields
<1> DEFINE B == {i \in 0 .. L : Good(p, h[i], m, c, d) /\ SameRecv(n, h[i])}
<1> HIDE DEF L, tasks
<1>7. 0 \in B
  BY <1>2, <1>3, <1>5, <1>6
<1>8. ASSUME NEW i \in 0 .. L - 1, i \in B PROVE i + 1 \in B
  <2>1. PICK x : x = h[i]
    OBVIOUS
  <2>2. Good(p, x, m, c, d) /\ SameRecv(n, x) /\ h[i + 1] = Fill(x, tasks[i + 1])
    BY <1>3, <1>8, <2>1
  <2>3. Good(p, h[i + 1], m, c, d)
    BY <2>2, FillGood
  <2>4. Shape(x) /\ SendSide(p, x)
    BY <2>2 DEF Good, Half
  <2>5. SameRecv(x, h[i + 1])
    BY <2>2, <2>4, FillKeeps
  <2>6. SameRecv(n, h[i + 1])
    BY <2>2, <2>5 DEF SameRecv
  <2> QED BY <1>2, <2>3, <2>6
<1>9. L \in B
  <2> HIDE DEF B
  <2> QED BY <1>2, <1>7, <1>8, Reached
<1> QED BY <1>3, <1>9

\* The records are written.
LEMMA SaveIs ==
    ASSUME OneWay, NEW p \in Peers, NEW n, Half(p, n), NEW last \in BOOLEAN
    PROVE  /\ Half(p, SaveProgress(n, last))
           /\ \A x \in Fields \ {"store"} : SaveProgress(n, last)[x] = n[x]
<1> DEFINE OfSender(f) == f \in DOMAIN n.senders /\ ~(last /\ f \in DOMAIN n.receivers)
           next(f) == IF OfSender(f) THEN ResumeSeq(n.senders[f].window)
                      ELSE IF f \in DOMAIN n.receivers THEN n.receivers[f].next
                      ELSE n.store[f].next
           k == SaveProgress(n, last)
<1>1. /\ Shape(n) /\ n.out \in Seq(Frames) /\ SendSide(p, n) /\ RecvSide(Other(p), n)
      /\ Stored(Other(p), n)
  BY DEF Half
<1>2. /\ Shape(k) /\ DOMAIN k.store = DOMAIN n.store
      /\ \A x \in Fields \ {"store"} : k[x] = n[x]
      /\ \A f \in DOMAIN n.store : k.store[f] =
            IF OfSender(f) THEN [n.store[f] EXCEPT !.next = ResumeSeq(n.senders[f].window)]
            ELSE IF f \in DOMAIN n.receivers THEN [n.store[f] EXCEPT !.next = n.receivers[f].next]
            ELSE n.store[f]
  BY <1>1 DEF SaveProgress, Shape, Fields
<1> HIDE DEF k
<1>3. ASSUME NEW f \in DOMAIN n.store
      PROVE  /\ k.store[f] \in [direction : {"send", "recv"}, next : 0 .. Total]
             /\ k.store[f].direction = n.store[f].direction /\ k.store[f].next = next(f)
  <2>1. n.store[f] \in [direction : {"send", "recv"}, next : 0 .. Total]
    BY <1>1 DEF Stored
  <2>2. OfSender(f) => ResumeSeq(n.senders[f].window) \in 0 .. Total
    BY <1>1, PartsOfSender DEF SendSide, Task, Sound, ResumeSeq
  <2>3. f \in DOMAIN n.receivers => n.receivers[f].next \in 0 .. Total
    BY <1>1 DEF RecvSide
  <2> HIDE DEF OfSender
  <2> QED BY <1>2, <2>1, <2>2, <2>3
<1>4. Stored(Other(p), k)
  <2> SUFFICES ASSUME NEW f \in DOMAIN n.store
               PROVE  /\ f \in Files /\ k.store[f] \in [direction : {"send", "recv"}, next : 0 .. Total]
                      /\ k.store[f].direction = "recv" =>
                            /\ <<Other(p), f>> \in Plan
                            /\ f \in DOMAIN k.part => k.store[f].next <= Len(k.part[f])
    BY <1>2 DEF Stored
  <2>1. f \in Files /\ k.part = n.part
    BY <1>1, <1>2 DEF Stored, Fields
  <2>2. ASSUME n.store[f].direction = "recv", f \in DOMAIN n.part PROVE next(f) <= Len(n.part[f])
    <3>1. <<Other(p), f>> \in Plan /\ n.store[f].next <= Len(n.part[f])
      BY <1>1, <2>2 DEF Stored
    <3>2. f \notin DOMAIN n.senders
      BY <1>1, <2>1, <3>1, OtherIs DEF SendSide, Task, OneWay
    <3>3. ASSUME f \in DOMAIN n.receivers PROVE n.receivers[f].next <= Len(n.part[f])
      <4>1. n.receivers[f].next \in 0 .. Total /\ Len(n.part[f]) = n.receivers[f].next
        BY <1>1, <3>3 DEF RecvSide
      <4> QED BY <4>1
    <3> QED BY <3>1, <3>2, <3>3
  <2>3. n.store[f].direction = "recv" => <<Other(p), f>> \in Plan
    BY <1>1 DEF Stored
  <2> HIDE DEF next
  <2> QED BY <1>3, <2>1, <2>2, <2>3
<1>5. /\ k.senders = n.senders /\ k.sendQueue = n.sendQueue /\ k.sendQueued = n.sendQueued
      /\ k.sendActive = n.sendActive /\ k.offered = n.offered /\ k.accepted = n.accepted
      /\ k.offers = n.offers /\ k.recvQueue = n.recvQueue /\ k.recvQueued = n.recvQueued
      /\ k.receivers = n.receivers /\ k.recvActive = n.recvActive /\ k.cancelled = n.cancelled
      /\ k.part = n.part /\ k.saved = n.saved /\ k.source = n.source /\ k.out = n.out
  BY <1>2 DEF Fields
<1>6. SendSide(p, k) /\ RecvSide(Other(p), k)
  BY <1>1, <1>5 DEF SendSide, Task, RecvSide, Hold
<1>7. Half(p, k)
  BY <1>1, <1>2, <1>4, <1>5, <1>6 DEF Half
<1> QED BY <1>2, <1>7 DEF k

\* on_tick
LEMMA TickGood ==
    ASSUME OneWay, NEW p, NEW n, NEW m, NEW c, NEW d, Good(p, n, m, c, d),
           NEW due \in SUBSET InFlight(n)
    PROVE  LET k == SaveProgress(Repeated(n, due), FALSE) IN
           Good(p, k, m, c, d) /\ SameRecv(n, k)
<1> DEFINE l == Repeated(n, due)
           k == SaveProgress(l, FALSE)
<1>1. Good(p, l, m, c, d) /\ SameRecv(n, l)
  BY RepeatedGood
<1> HIDE DEF l
<1>2. p \in Peers /\ Half(p, l)
  BY <1>1 DEF Good
<1>3. Half(p, k) /\ \A x \in Fields \ {"store"} : k[x] = l[x]
  BY <1>2, SaveIs
<1> HIDE DEF k
<1>4. /\ k.senders = l.senders /\ k.offered = l.offered /\ k.accepted = l.accepted
      /\ k.offers = l.offers /\ k.recvQueue = l.recvQueue /\ k.recvQueued = l.recvQueued
      /\ k.receivers = l.receivers /\ k.recvActive = l.recvActive /\ k.cancelled = l.cancelled
      /\ k.saved = l.saved /\ k.source = l.source /\ k.out = l.out /\ k.finished = l.finished
  BY <1>3 DEF Fields
<1>5. \A g \in Files : SameSends(l, k, g) /\ SameHolds(l, k, g)
  BY <1>4 DEF SameSends, SameHolds
<1>6. Good(p, k, m, c, d)
  BY <1>1, <1>3, <1>4, <1>5, StepAside
<1>7. SameRecv(n, k)
  BY <1>1, <1>4 DEF SameRecv
<1> QED BY <1>6, <1>7 DEF k, l

-----------------------------------------------------------------------------
(* Steps of the receiving side. *)

\* the sending half of k is that of n
SendsAlone(n, k) ==
    /\ k.senders = n.senders /\ k.sendQueue = n.sendQueue /\ k.sendQueued = n.sendQueued
    /\ k.sendActive = n.sendActive /\ k.offered = n.offered /\ k.accepted = n.accepted
    /\ k.source = n.source /\ n.cancelled \subseteq k.cancelled

\* Such a half is as good as it was.
LEMMA SendsAloneSide ==
    ASSUME NEW p, NEW n, NEW k, SendSide(p, n), SendsAlone(n, k)
    PROVE  SendSide(p, k)
BY DEF SendSide, SendsAlone, Task

\* A step of the receiving side about a file: only its conversation needs a look.
LEMMA RecvStep ==
    ASSUME OneWay, NEW p, NEW n, NEW m, NEW c, NEW d, Good(p, n, m, c, d),
           NEW f \in Files, <<Other(p), f>> \in Plan,
           NEW k, Shape(k), SendsAlone(n, k), k.cancelled \subseteq n.cancelled \cup {f},
           RecvSide(Other(p), k), Stored(Other(p), k), Dated(k, m.source),
           \A g \in Files \ {f} : SameHolds(n, k, g),
           NEW new \in Seq(Frames), k.out = n.out \o new,
           \A fr \in Range(new) : fr.file = f /\ IsFrame(Other(p), p, n.source, fr),
           NEW c2, Shrinks(c, c2, f), Line(m, k, f, (d \o n.out) \o new, c2)
    PROVE  Good(p, k, m, c2, d)
<1>1. p \in Peers /\ Half(p, n) /\ n.out \in Seq(Frames) /\ SendSide(p, n)
  BY DEF Good, Half
<1>2. SendSide(p, k) /\ k.source = n.source
  BY <1>1, SendsAloneSide DEF SendsAlone
<1>3. k.out \in Seq(Frames)
  BY <1>1, AppendIs
<1>4. Half(p, k)
  BY <1>2, <1>3 DEF Half
<1>5. \A g \in Files \ {f} : SameSends(n, k, g) /\ SameHolds(n, k, g)
  BY DEF SendsAlone, SameSends
<1>6. <<p, f>> \notin Plan
  BY <1>1, OtherIs DEF OneWay
<1> QED BY <1>2, <1>4, <1>5, <1>6, StepAbout

\* k holds nothing of f any more; what it held of other files it still does
Gone(n, k, f) ==
    /\ Shape(k) /\ SendsAlone(n, k) /\ k.cancelled \subseteq n.cancelled \cup {f}
    /\ k.offers = Without(n.offers, f) /\ k.recvQueued = Without(n.recvQueued, f)
    /\ k.receivers = Without(n.receivers, f)
    /\ k.recvQueue \in Seq(Files) /\ Range(n.recvQueue) \subseteq Range(k.recvQueue) \cup {f}
    /\ k.recvActive = IF f \in DOMAIN n.receivers THEN Less1(n.recvActive) ELSE n.recvActive
    /\ k.part = n.part \/ k.part = Without(n.part, f)
    /\ DOMAIN k.store \subseteq DOMAIN n.store
    /\ \A g \in DOMAIN k.store : k.store[g] = n.store[g]
    /\ k.saved \in [Files -> SUBSET Seq(Versions)]
    /\ \A g \in Files : n.saved[g] \subseteq k.saved[g]

\* what is left is a good receiving half
LeavesRecv(p, n, k, f) ==
    /\ RecvSide(Other(p), k) /\ Stored(Other(p), k) /\ f \notin Hold(k)
    /\ \A g \in Files \ {f} : SameHolds(n, k, g)
    /\ \A src : Dated(n, src) => Dated(k, src)

\* What is left of an end that holds nothing of f any more.
LEMMA GoneLeaves ==
    ASSUME NEW p, NEW n, Half(p, n), NEW f, NEW k, Gone(n, k, f)
    PROVE  LeavesRecv(p, n, k, f)
<1>1. /\ RecvSide(Other(p), n) /\ Stored(Other(p), n) /\ Shape(n)
  BY DEF Half
<1>0. ASSUME NEW x PROVE /\ DOMAIN Without(x, f) = DOMAIN x \ {f}
                         /\ \A g \in DOMAIN Without(x, f) : Without(x, f)[g] = x[g]
  BY WithoutIs, ZenonT(40)
<1>2. /\ DOMAIN k.offers = DOMAIN n.offers \ {f} /\ \A g \in DOMAIN k.offers : k.offers[g] = n.offers[g]
  <2>1. k.offers = Without(n.offers, f)
    BY DEF Gone
  <2>2. PICK x : x = n.offers
    OBVIOUS
  <2>3. /\ DOMAIN Without(x, f) = DOMAIN x \ {f}
        /\ \A g \in DOMAIN Without(x, f) : Without(x, f)[g] = x[g]
    BY <1>0
  <2> QED BY <2>1, <2>2, <2>3
<1>3. /\ DOMAIN k.recvQueued = DOMAIN n.recvQueued \ {f}
      /\ \A g \in DOMAIN k.recvQueued : k.recvQueued[g] = n.recvQueued[g]
  <2>1. k.recvQueued = Without(n.recvQueued, f)
    BY DEF Gone
  <2>2. PICK x : x = n.recvQueued
    OBVIOUS
  <2>3. /\ DOMAIN Without(x, f) = DOMAIN x \ {f}
        /\ \A g \in DOMAIN Without(x, f) : Without(x, f)[g] = x[g]
    BY <1>0
  <2> QED BY <2>1, <2>2, <2>3
<1>4. /\ DOMAIN k.receivers = DOMAIN n.receivers \ {f}
      /\ \A g \in DOMAIN k.receivers : k.receivers[g] = n.receivers[g]
  <2>1. k.receivers = Without(n.receivers, f)
    BY DEF Gone
  <2>2. PICK x : x = n.receivers
    OBVIOUS
  <2>3. /\ DOMAIN Without(x, f) = DOMAIN x \ {f}
        /\ \A g \in DOMAIN Without(x, f) : Without(x, f)[g] = x[g]
    BY <1>0
  <2> QED BY <2>1, <2>2, <2>3
<1>5. /\ DOMAIN n.part \ {f} \subseteq DOMAIN k.part /\ DOMAIN k.part \subseteq DOMAIN n.part
      /\ \A g \in DOMAIN k.part : k.part[g] = n.part[g]
  <2>1. k.part = n.part \/ k.part = Without(n.part, f)
    BY DEF Gone
  <2>2. PICK x : x = n.part
    OBVIOUS
  <2>3. /\ DOMAIN Without(x, f) = DOMAIN x \ {f}
        /\ \A g \in DOMAIN Without(x, f) : Without(x, f)[g] = x[g]
    BY <1>0
  <2> QED BY <2>1, <2>2, <2>3
<1>6. Hold(k) = Hold(n) \ {f}
  BY <1>2, <1>3, <1>4 DEF Hold
<1>7. /\ IsFiniteSet(DOMAIN k.receivers) /\ k.recvActive = Cardinality(DOMAIN k.receivers)
      /\ k.recvActive \in 0 .. MaxConcurrent
  <2>1. /\ IsFiniteSet(DOMAIN n.receivers) /\ n.recvActive = Cardinality(DOMAIN n.receivers)
        /\ n.recvActive \in 0 .. MaxConcurrent
    BY <1>1 DEF RecvSide
  <2>2. IsFiniteSet(DOMAIN k.receivers)
    BY <1>4, <2>1, FS_Subset
  <2>3. CASE f \in DOMAIN n.receivers
    <3>1. k.recvActive = Less1(n.recvActive)
      BY <2>3 DEF Gone
    <3>2. Cardinality(DOMAIN k.receivers) = Cardinality(DOMAIN n.receivers) - 1
      BY <1>4, <2>1, <2>3, FS_RemoveElement
    <3>3. Cardinality(DOMAIN n.receivers) # 0
      BY <2>1, <2>3, FS_EmptySet
    <3> QED BY <2>1, <2>2, <3>1, <3>2, <3>3, FileTransferAssumption DEF Less1
  <2>4. CASE f \notin DOMAIN n.receivers
    <3>1. DOMAIN k.receivers = DOMAIN n.receivers
      BY <1>4, <2>4
    <3>2. k.recvActive = n.recvActive
      BY <2>4 DEF Gone
    <3> QED BY <2>1, <3>1, <3>2
  <2> QED BY <2>3, <2>4
<1>8. RecvSide(Other(p), k)
  <2>1. \A g \in Hold(k) : <<Other(p), g>> \in Plan /\ g \notin k.cancelled
    BY <1>1, <1>6 DEF RecvSide, Gone
  <2>2. /\ DOMAIN k.offers \cap DOMAIN k.recvQueued = {}
        /\ DOMAIN k.offers \cap DOMAIN k.receivers = {}
        /\ DOMAIN k.recvQueued \cap DOMAIN k.receivers = {}
    BY <1>1, <1>2, <1>3, <1>4 DEF RecvSide
  <2>3. /\ \A g \in DOMAIN k.offers : k.offers[g] \in Versions
        /\ \A g \in DOMAIN k.recvQueued : k.recvQueued[g] \in Versions
        /\ \A g \in DOMAIN k.part : k.part[g] \in Seq(Versions)
    BY <1>1, <1>2, <1>3, <1>5 DEF RecvSide
  <2>4. \A g \in DOMAIN k.receivers :
          /\ k.receivers[g] \in [version : Versions, next : 0 .. Total]
          /\ g \in DOMAIN k.part /\ Len(k.part[g]) = k.receivers[g].next
    BY <1>1, <1>4, <1>5 DEF RecvSide
  <2>5. k.recvQueue \in Seq(Files) /\ DOMAIN k.recvQueued \subseteq Range(k.recvQueue)
    BY <1>1, <1>3 DEF RecvSide, Gone
  <2> QED BY <1>7, <2>1, <2>2, <2>3, <2>4, <2>5 DEF RecvSide, Gone
<1>9. Stored(Other(p), k)
  BY <1>1, <1>5 DEF Stored, Gone
<1>10. \A g \in Files \ {f} : SameHolds(n, k, g)
  BY <1>2, <1>3, <1>4 DEF SameHolds, Gone, SendsAlone
<1>11. \A src : Dated(n, src) => Dated(k, src)
  BY <1>2, <1>3, <1>4 DEF Dated
<1> QED BY <1>6, <1>8, <1>9, <1>10, <1>11 DEF LeavesRecv

\* A file that the other end may send is not sent by this one.
LEMMA NoSends ==
    ASSUME OneWay, NEW p \in Peers, NEW n, SendSide(p, n), NEW f \in Files, <<Other(p), f>> \in Plan
    PROVE  /\ f \notin DOMAIN n.senders /\ f \notin n.offered /\ f \notin n.accepted
           /\ f \notin n.sendQueued
<1>1. <<p, f>> \notin Plan
  BY OtherIs DEF OneWay
<1> QED BY <1>1 DEF SendSide, Task

\* cleanup_task of a file that is not sent
LEMMA CleanedRecv ==
    ASSUME OneWay, NEW p \in Peers, NEW n, Half(p, n), NEW f \in Files, <<Other(p), f>> \in Plan,
           NEW l, Shape(l), SendsAlone(n, l), NEW k, NEW how, Cleaned(l, k, f, "recv", how)
    PROVE  SendsAlone(n, k)
<1>1. f \notin DOMAIN n.senders /\ f \notin n.offered /\ f \notin n.accepted /\ f \notin n.sendQueued
  BY NoSends DEF Half
<1>2. Without(n.senders, f) = n.senders
  BY <1>1, WithoutIs, ZenonT(40) DEF Half, Shape
<1> QED BY <1>1, <1>2 DEF Cleaned, SendsAlone

-----------------------------------------------------------------------------
(* The first of the accepted offers. *)

\* it is gone, or has been cancelled
Skips(n, k, f) ==
    /\ f \notin DOMAIN n.recvQueued \/ f \in n.cancelled
    /\ Shape(k) /\ k.recvQueued = Without(n.recvQueued, f) /\ k.recvQueue = Tail(n.recvQueue)
    /\ \A x \in Fields \ {"recvQueue", "recvQueued"} : k[x] = n[x]

\* it cannot be begun
Refuses(n, k, f) ==
    /\ f \in DOMAIN n.recvQueued
    /\ Shape(k) /\ k.recvQueued = Without(n.recvQueued, f) /\ k.recvQueue = Tail(n.recvQueue)
    /\ DOMAIN k.store \subseteq DOMAIN n.store /\ \A g \in DOMAIN k.store : k.store[g] = n.store[g]
    /\ k.out = n.out \o <<Frame("Reject", f, 0, 0)>>
    /\ \A x \in Fields \ {"recvQueue", "recvQueued", "store", "out", "finished"} : k[x] = n[x]

\* it is begun, with its first blocks on disk
Begins(n, k, f, from, part) ==
    /\ f \in DOMAIN n.recvQueued /\ from \in 0 .. Total
    /\ part \in Seq(Versions) /\ Len(part) = from
    /\ Shape(k) /\ k.recvQueued = Without(n.recvQueued, f) /\ k.recvQueue = Tail(n.recvQueue)
    /\ k.recvActive = n.recvActive + 1
    /\ k.receivers = With(n.receivers, f, [version |-> n.recvQueued[f], next |-> from])
    /\ k.part = With(n.part, f, part)
    /\ DOMAIN k.store \subseteq DOMAIN n.store \cup {f}
    /\ k.store[f] = [direction |-> "recv", next |-> from]
    /\ \A g \in DOMAIN k.store \ {f} : k.store[g] = n.store[g]
    /\ k.out = n.out \o <<Frame("Accept", f, from, 0)>>
    /\ \A x \in Fields \ {"recvQueue", "recvQueued", "receivers", "recvActive", "part", "store", "out"} : k[x] = n[x]

\* prune_missing takes records away.
LEMMA PrunedIs ==
    ASSUME NEW n, Shape(n)
    PROVE  LET k == Pruned(n) IN
           /\ Shape(k) /\ DOMAIN k.store \subseteq DOMAIN n.store
           /\ \A g \in DOMAIN k.store : /\ k.store[g] = n.store[g]
                                        /\ k.store[g].direction = "recv" => g \in DOMAIN n.part
           /\ \A x \in Fields \ {"store"} : k[x] = n[x]
BY DEF Pruned, Restrict, Shape, Fields

\* What PopRecv does.
LEMMA PopRecvIs ==
    ASSUME NEW p, NEW n, Half(p, n), NEW bad
    PROVE  LET f == Head(n.recvQueue)
               k == PopRecv(n, bad)
           IN  \/ k = n /\ Drained(n)
               \/ /\ ~Drained(n)
                  /\ \/ Skips(n, k, f) \/ Refuses(n, k, f)
                     \/ \E from, part : Begins(n, k, f, from, part)
<1> DEFINE f == Head(n.recvQueue)
           popped == [n EXCEPT !.recvQueue = Tail(n.recvQueue)]
           pruned == Pruned(popped)
           from == ResumeFrom(pruned, f)
           k == PopRecv(n, bad)
<1>1. Shape(n) /\ RecvSide(Other(p), n) /\ Stored(Other(p), n)
  BY DEF Half
<1>2. CASE Drained(n)
  BY <1>2 DEF Drained, PopRecv
<1>3. ASSUME ~Drained(n), f \notin DOMAIN n.recvQueued \/ f \in n.cancelled PROVE Skips(n, k, f)
  <2>1. k = [popped EXCEPT !.recvQueued = Without(@, f)]
    BY <1>3 DEF Drained, PopRecv
  <2>2. IsMap(Without(n.recvQueued, f))
    BY WithoutIs
  <2> HIDE DEF k
  <2>3. Shape(k) /\ k.recvQueued = Without(n.recvQueued, f) /\ k.recvQueue = Tail(n.recvQueue)
    BY <1>1, <2>1, <2>2 DEF Shape, Fields
  <2>4. \A x \in Fields \ {"recvQueue", "recvQueued"} : k[x] = n[x]
    BY <1>1, <2>1 DEF Shape, Fields
  <2> QED BY <1>3, <2>3, <2>4 DEF Skips
<1>4. /\ Shape(pruned) /\ DOMAIN pruned.store \subseteq DOMAIN n.store
      /\ \A g \in DOMAIN pruned.store : /\ pruned.store[g] = n.store[g]
                                        /\ pruned.store[g].direction = "recv" => g \in DOMAIN n.part
      /\ pruned.recvQueue = Tail(n.recvQueue)
      /\ \A x \in Fields \ {"store", "recvQueue"} : pruned[x] = n[x]
  <2>1. /\ Shape(popped) /\ popped.recvQueue = Tail(n.recvQueue)
        /\ \A x \in Fields \ {"recvQueue"} : popped[x] = n[x]
    BY <1>1 DEF Shape, Fields
  <2> HIDE DEF popped
  <2>2. /\ Shape(pruned) /\ DOMAIN pruned.store \subseteq DOMAIN popped.store
        /\ \A g \in DOMAIN pruned.store : /\ pruned.store[g] = popped.store[g]
                                          /\ pruned.store[g].direction = "recv" => g \in DOMAIN popped.part
        /\ \A x \in Fields \ {"store"} : pruned[x] = popped[x]
    BY <2>1, PrunedIs
  <2>3. popped.store = n.store /\ popped.part = n.part
    BY <2>1 DEF Fields
  <2>4. pruned.recvQueue = popped.recvQueue
    BY <2>2 DEF Fields
  <2> QED BY <2>1, <2>2, <2>3, <2>4
<1>5. PopRecv(n, bad) = IF n.recvQueue = <<>> \/ ~SlotFree(n.recvActive) THEN n
        ELSE IF f \notin DOMAIN n.recvQueued \/ f \in n.cancelled
          THEN [popped EXCEPT !.recvQueued = Without(@, f)]
        ELSE IF f \in bad \/ (from > 0 /\ from > Len(pruned.part[f]))
          THEN Ended(Forget(Send([pruned EXCEPT !.recvQueued = Without(@, f)],
                                 <<Frame("Reject", f, 0, 0)>>), f),
                     f, "recv", "Failed")
        ELSE Send([Begin(pruned, f, from) EXCEPT !.recvActive = @ + 1],
                  <<Frame("Accept", f, from, 0)>>)
  BY DEF PopRecv
<1> HIDE DEF pruned, popped
<1>6. pruned.recvQueued = n.recvQueued /\ pruned.part = n.part /\ pruned.receivers = n.receivers
      /\ pruned.out = n.out /\ pruned.recvActive = n.recvActive
  BY <1>4 DEF Fields
<1>7. from \in 0 .. Total /\ (from > 0 => f \in DOMAIN n.part /\ from <= Len(n.part[f]))
  <2>1. CASE f \in DOMAIN pruned.store /\ pruned.store[f].direction = "recv"
    <3>1. f \in DOMAIN n.part /\ f \in DOMAIN n.store /\ pruned.store[f] = n.store[f]
      BY <1>4, <2>1
    <3>2. n.store[f].next \in 0 .. Total /\ n.store[f].next <= Len(n.part[f])
      <4>1. n.store[f] \in [direction : {"send", "recv"}, next : 0 .. Total]
        BY <1>1, <3>1 DEF Stored
      <4> QED BY <1>1, <2>1, <3>1, <4>1 DEF Stored
    <3> QED BY <2>1, <3>1, <3>2 DEF ResumeFrom
  <2>2. CASE ~(f \in DOMAIN pruned.store /\ pruned.store[f].direction = "recv")
    BY <2>2, SlideWindowAssumption DEF ResumeFrom
  <2> QED BY <2>1, <2>2
<1> HIDE DEF from, f
<1>8. ASSUME ~Drained(n), ~(f \notin DOMAIN n.recvQueued \/ f \in n.cancelled), f \in bad
      PROVE  Refuses(n, k, f)
  <2>1. k = Ended(Forget(Send([pruned EXCEPT !.recvQueued = Without(@, f)],
                              <<Frame("Reject", f, 0, 0)>>), f), f, "recv", "Failed")
    BY <1>5, <1>8 DEF Drained
  <2>2. /\ Shape(k) /\ k.recvQueued = Without(pruned.recvQueued, f) /\ k.recvQueue = pruned.recvQueue
        /\ k.store = Without(pruned.store, f) /\ k.out = pruned.out \o <<Frame("Reject", f, 0, 0)>>
        /\ \A x \in Fields \ {"recvQueued", "store", "out", "finished"} : k[x] = pruned[x]
    <3> DEFINE queued == Without(pruned.recvQueued, f)
               left == Without(pruned.store, f)
               over == With(pruned.finished, f, <<"recv", "Failed">>)
               said == pruned.out \o <<Frame("Reject", f, 0, 0)>>
    <3>1. k = [pruned EXCEPT !.recvQueued = queued, !.out = said, !.store = left, !.finished = over]
      BY <1>4, <2>1 DEF Ended, Forget, Send, Shape, Fields
    <3>2. IsMap(queued)
      BY WithoutIs
    <3> HIDE DEF k, queued, left, over, said
    <3>3. /\ Shape(k) /\ k.recvQueued = queued /\ k.recvQueue = pruned.recvQueue
          /\ k.store = left /\ k.out = said
          /\ \A x \in Fields \ {"recvQueued", "store", "out", "finished"} : k[x] = pruned[x]
      BY <1>4, <3>1, <3>2 DEF Shape, Fields
    <3> QED BY <3>3 DEF queued, left, said
  <2> HIDE DEF k
  <2>3. DOMAIN k.store = DOMAIN pruned.store \ {f} /\ \A g \in DOMAIN k.store : k.store[g] = pruned.store[g]
    <3>1. PICK x : x = pruned.store
      OBVIOUS
    <3>2. DOMAIN Without(x, f) = DOMAIN x \ {f} /\ \A g \in DOMAIN x \ {f} : Without(x, f)[g] = x[g]
      BY WithoutIs
    <3> QED BY <2>2, <3>1, <3>2
  <2>4. \A x \in Fields \ {"recvQueue", "recvQueued", "store", "out", "finished"} : k[x] = n[x]
    BY <1>4, <2>2
  <2> QED BY <1>4, <1>6, <1>8, <2>2, <2>3, <2>4 DEF Refuses
<1>9. ASSUME ~Drained(n), ~(f \notin DOMAIN n.recvQueued \/ f \in n.cancelled), f \notin bad
      PROVE  \E x, y : Begins(n, k, f, x, y)
  <2> DEFINE part == IF from = 0 THEN <<>> ELSE SubSeq(n.part[f], 1, from)
             rec == [direction |-> "recv", next |-> from]
             new == [version |-> n.recvQueued[f], next |-> from]
  <2>1. k = Send([Begin(pruned, f, from) EXCEPT !.recvActive = @ + 1], <<Frame("Accept", f, from, 0)>>)
    BY <1>5, <1>6, <1>7, <1>9 DEF Drained
  <2>2. part \in Seq(Versions) /\ Len(part) = from
    <3>1. CASE from = 0
      BY <3>1
    <3>2. CASE from # 0
      <4>1. f \in DOMAIN n.part /\ 1 \in 1 .. Len(n.part[f]) + 1 /\ from \in 1 .. Len(n.part[f])
            /\ n.part[f] \in Seq(Versions) /\ Len(n.part[f]) \in Nat
        <5>1. f \in DOMAIN n.part /\ n.part[f] \in Seq(Versions)
          BY <1>1, <1>7, <3>2 DEF RecvSide
        <5>2. Len(n.part[f]) \in Nat
          BY <5>1, LenProperties
        <5> QED BY <1>7, <3>2, <5>1, <5>2
      <4> QED BY <1>7, <3>2, <4>1
    <3> QED BY <3>1, <3>2
  <2> HIDE DEF part
  <2>3. Begin(pruned, f, from) = Record([pruned EXCEPT !.part = With(@, f, part),
             !.receivers = With(@, f, new), !.recvQueued = Without(@, f)], f, "recv", from)
    BY <1>6 DEF Begin, part
  <2>4. /\ Shape(k) /\ k.recvQueued = Without(pruned.recvQueued, f) /\ k.recvQueue = pruned.recvQueue
        /\ k.recvActive = pruned.recvActive + 1
        /\ k.receivers = With(pruned.receivers, f, new)
        /\ k.part = With(pruned.part, f, part)
        /\ k.store = With(pruned.store, f, rec)
        /\ k.out = pruned.out \o <<Frame("Accept", f, from, 0)>>
        /\ \A x \in Fields \ {"recvQueued", "receivers", "recvActive", "part", "store", "out"} : k[x] = pruned[x]
    <3> DEFINE queued == Without(pruned.recvQueued, f)
               left == With(pruned.store, f, rec)
               began == With(pruned.receivers, f, new)
               onDisk == With(pruned.part, f, part)
               said == pruned.out \o <<Frame("Accept", f, from, 0)>>
    <3> HIDE DEF new
    <3>1. k = [pruned EXCEPT !.recvQueued = queued, !.receivers = began, !.part = onDisk,
                             !.store = left, !.recvActive = pruned.recvActive + 1, !.out = said]
      <4> DEFINE begun == [pruned EXCEPT !.recvQueued = queued, !.receivers = began, !.part = onDisk,
                                         !.store = left]
      <4>1. Begin(pruned, f, from) = begun
        BY <1>4, <2>3 DEF Record, Shape, Fields
      <4>2. begun.recvActive = pruned.recvActive /\ begun.out = pruned.out
        BY <1>4 DEF Shape, Fields
      <4>3. k = [[begun EXCEPT !.recvActive = @ + 1] EXCEPT !.out = @ \o <<Frame("Accept", f, from, 0)>>]
        BY <2>1, <4>1 DEF Send
      <4> HIDE DEF k, queued, left, began, onDisk
      <4> QED BY <1>4, <4>2, <4>3 DEF Shape, Fields
    <3>2. IsMap(queued) /\ IsMap(began)
      BY WithoutIs, WithIs
    <3> HIDE DEF k, queued, left, began, onDisk, said
    <3>3. /\ Shape(k) /\ k.recvQueued = queued /\ k.recvQueue = pruned.recvQueue
          /\ k.recvActive = pruned.recvActive + 1 /\ k.receivers = began
          /\ k.part = onDisk /\ k.store = left /\ k.out = said
          /\ \A x \in Fields \ {"recvQueued", "receivers", "recvActive", "part", "store", "out"} : k[x] = pruned[x]
      BY <1>4, <3>1, <3>2 DEF Shape, Fields
    <3> QED BY <3>3 DEF queued, left, said, began, onDisk
  <2> HIDE DEF k
  <2>5. /\ DOMAIN k.store = DOMAIN pruned.store \cup {f} /\ k.store[f] = rec
        /\ \A g \in DOMAIN k.store \ {f} : k.store[g] = pruned.store[g]
    <3> HIDE DEF rec
    <3>1. PICK x : x = pruned.store
      OBVIOUS
    <3>2. /\ DOMAIN With(x, f, rec) = DOMAIN x \cup {f} /\ With(x, f, rec)[f] = rec
          /\ \A g \in DOMAIN x \ {f} : With(x, f, rec)[g] = x[g]
      BY DEF With
    <3> QED BY <2>4, <3>1, <3>2
  <2>6. \A x \in Fields \ {"recvQueue", "recvQueued", "receivers", "recvActive", "part", "store", "out"} : k[x] = n[x]
    BY <1>4, <2>4
  <2>7. Begins(n, k, f, from, part)
    BY <1>4, <1>6, <1>7, <1>9, <2>2, <2>4, <2>5, <2>6 DEF Begins
  <2> QED BY <2>7
<1> QED BY <1>2, <1>3, <1>8, <1>9 DEF f

\* What the steps of maybe_start_recv leave alone.
SameButRecv(n, k) == SendsAlone(n, k) /\ k.cancelled = n.cancelled /\ k.saved = n.saved

\* One frame about a file, for whoever it may go to.
LEMMA OneSaid ==
    ASSUME NEW op \in Ops, NEW f \in Files, NEW r \in 0 .. Total
    PROVE  LET fr == Frame(op, f, r, 0) IN
           /\ <<fr>> \in Seq(Frames) /\ Range(<<fr>>) = {fr} /\ \A g : InTurn(<<fr>>, g)
           /\ fr.op = op /\ fr.file = f /\ fr.seq = r /\ fr \in Frames
<1> DEFINE fr == Frame(op, f, r, 0)
<1>1. fr \in Frames /\ fr.op = op /\ fr.file = f /\ fr.seq = r
  BY SlideWindowAssumption, FileTransferAssumption DEF Frame, Frames
<1> HIDE DEF fr
<1>2. /\ <<fr>> \in Seq(Frames) /\ Range(<<fr>>) = {fr} /\ \A g : InTurn(<<fr>>, g)
  BY <1>1, OneFrame
<1> QED BY <1>1, <1>2 DEF fr

\* A file that waits for the user or for a slot: its sender waits, or has cancelled.
LEMMA QueuedLine ==
    ASSUME OneWay, NEW p, NEW n, NEW m, NEW c, NEW d, Good(p, n, m, c, d), 
           NEW f \in DOMAIN n.offers \cup DOMAIN n.recvQueued
    PROVE  /\ f \in Files /\ <<Other(p), f>> \in Plan /\ f \notin n.cancelled
           /\ (f \in DOMAIN n.recvQueued => f \notin DOMAIN n.offers) /\ f \notin DOMAIN n.receivers
           /\ Line(m, n, f, d \o n.out, c)
           /\ \/ f \in m.cancelled /\ Over(m, n, f, Range(c))
              \/ f \notin m.cancelled /\ Pending(m, n, f, Range(d \o n.out), Range(c))
<1>1. /\ <<Other(p), f>> \in Plan /\ f \notin n.cancelled
      /\ (f \in DOMAIN n.recvQueued => f \notin DOMAIN n.offers) /\ f \notin DOMAIN n.receivers
      /\ f \in Hold(n)
  BY DEF Good, Half, RecvSide, Hold
<1>2. f \in Files
  BY <1>1, FileTransferAssumption
<1>3. Line(m, n, f, d \o n.out, c)
  BY <1>1, <1>2 DEF Good, Link
<1> QED BY <1>1, <1>2, <1>3 DEF Line, Talk, Idle, OfferOnItsWay, Refused, Accepting, Running, Done

\* A queued offer that is gone changes nothing.
LEMMA SkipGood ==
    ASSUME OneWay, NEW p, NEW n, NEW m, NEW c, NEW d, Good(p, n, m, c, d), n.recvQueue # <<>>,
           NEW k, Skips(n, k, Head(n.recvQueue))
    PROVE  Good(p, k, m, c, d) /\ SameButRecv(n, k)
<1> DEFINE f == Head(n.recvQueue)
<1>1. /\ p \in Peers /\ Half(p, n) /\ Shape(n) /\ n.out \in Seq(Frames) /\ SendSide(p, n)
      /\ RecvSide(Other(p), n) /\ Stored(Other(p), n)
  BY DEF Good, Half
<1>2. /\ Tail(n.recvQueue) \in Seq(Files) /\ Range(n.recvQueue) = {f} \cup Range(Tail(n.recvQueue))
  BY <1>1, QueueTail DEF RecvSide
<1>3. f \notin DOMAIN n.recvQueued
  BY <1>1 DEF Skips, RecvSide, Hold
<1>4. k.recvQueued = n.recvQueued /\ k.recvQueue = Tail(n.recvQueue) /\ Shape(k)
  <2>1. Without(n.recvQueued, f) = n.recvQueued
    BY <1>1, <1>3, WithoutIs DEF Shape
  <2> QED BY <2>1 DEF Skips
<1>5. /\ k.senders = n.senders /\ k.sendQueue = n.sendQueue /\ k.sendQueued = n.sendQueued
      /\ k.sendActive = n.sendActive /\ k.offered = n.offered /\ k.accepted = n.accepted
      /\ k.offers = n.offers /\ k.finished = n.finished
      /\ k.receivers = n.receivers /\ k.recvActive = n.recvActive /\ k.cancelled = n.cancelled
      /\ k.part = n.part /\ k.saved = n.saved /\ k.source = n.source /\ k.out = n.out /\ k.store = n.store
  BY DEF Skips, Fields
<1>6. SendSide(p, k) /\ Stored(Other(p), k)
  BY <1>1, <1>5 DEF SendSide, Task, Stored
<1>7. RecvSide(Other(p), k)
  <2>1. DOMAIN k.recvQueued \subseteq Range(k.recvQueue)
    BY <1>1, <1>2, <1>3, <1>4 DEF RecvSide
  <2> QED BY <1>1, <1>2, <1>4, <1>5, <2>1 DEF RecvSide, Hold
<1>8. Half(p, k)
  BY <1>1, <1>4, <1>5, <1>6, <1>7 DEF Half
<1>9. \A g \in Files : SameSends(n, k, g) /\ SameHolds(n, k, g)
  BY <1>4, <1>5 DEF SameSends, SameHolds
<1>10. Good(p, k, m, c, d)
  BY <1>5, <1>8, <1>9, StepAside
<1> QED BY <1>5, <1>10 DEF SameButRecv, SendsAlone

\* An offer is refused: its sender is told.
LEMMA RefusedGood ==
    ASSUME OneWay, NEW p, NEW n, NEW m, NEW c, NEW d, Good(p, n, m, c, d),
           NEW f \in DOMAIN n.offers \cup DOMAIN n.recvQueued,
           NEW k, Gone(n, k, f), k.cancelled = n.cancelled, k.out = n.out \o <<Frame("Reject", f, 0, 0)>>
    PROVE  Good(p, k, m, c, d)
<1> DEFINE e == d \o n.out
           fr == Frame("Reject", f, 0, 0)
           P == Range(e)
           P2 == Range(e \o <<fr>>)
           Q == Range(c)
<1>1. /\ p \in Peers /\ Half(p, n) /\ c \in Seq(Frames) /\ e \in Seq(Frames) /\ Dated(n, m.source)
  BY DEF Good, Half, Link
<1>4. /\ f \in Files /\ <<Other(p), f>> \in Plan /\ f \notin n.cancelled
      /\ Line(m, n, f, e, c)
      /\ \/ f \in m.cancelled /\ Over(m, n, f, Q)
         \/ f \notin m.cancelled /\ Pending(m, n, f, P, Q)
  BY QueuedLine
<1>8. LeavesRecv(p, n, k, f)
  BY <1>1, GoneLeaves
<1>9. /\ <<fr>> \in Seq(Frames) /\ Range(<<fr>>) = {fr} /\ \A g : InTurn(<<fr>>, g)
      /\ fr.op = "Reject" /\ fr.file = f /\ fr \in Frames
  <2>1. "Reject" \in Ops /\ 0 \in 0 .. Total
    BY SlideWindowAssumption DEF Ops
  <2> QED BY <1>4, <2>1, OneSaid
<1> HIDE DEF fr
<1>10. IsFrame(Other(p), p, n.source, fr)
  BY <1>4, <1>9 DEF IsFrame
<1>11. P2 = P \cup {fr} /\ (InTurn(e, f) /\ Only(P, f, {}) => InTurn(e \o <<fr>>, f))
  <2>1. ASSUME Only(P, f, {}) PROVE \A a \in P : a.file # f
    BY <2>1 DEF Only
  <2> QED BY <1>1, <1>9, <2>1, AppendIs
<1>12. Line(m, k, f, e \o <<fr>>, c)
  <2>1. CASE f \in m.cancelled /\ Over(m, n, f, Q)
    <3>1. Over(m, k, f, Q)
      BY <1>8, <2>1 DEF Over, LeavesRecv
    <3> QED BY <1>4, <2>1, <3>1 DEF Line, Talk
  <2>2. CASE f \notin m.cancelled /\ Pending(m, n, f, P, Q)
    <3>1. Refused(m, k, f, P2, Q)
      BY <1>8, <1>9, <1>11, <2>2 DEF Pending, Refused, LeavesRecv, Only, Carries
    <3>2. InTurn(e \o <<fr>>, f)
      BY <1>4, <1>11, <2>2 DEF Line, Pending
    <3> QED BY <1>4, <2>2, <3>1, <3>2 DEF Line, Talk
  <2> QED BY <1>4, <2>1, <2>2
<1>13. /\ Shape(k) /\ SendsAlone(n, k) /\ k.cancelled \subseteq n.cancelled \cup {f}
       /\ RecvSide(Other(p), k) /\ Stored(Other(p), k) /\ Dated(k, m.source)
       /\ \A g \in Files \ {f} : SameHolds(n, k, g)
  BY <1>1, <1>8 DEF Gone, LeavesRecv
<1>14. k.out = n.out \o <<fr>>
  BY DEF fr
<1>15. Shrinks(c, c, f)
  BY <1>1, ShrinksNot
<1> QED BY <1>4, <1>9, <1>10, <1>12, <1>13, <1>14, <1>15, RecvStep

\* A queued offer that cannot be begun is refused.
LEMMA RefuseGood ==
    ASSUME OneWay, NEW p, NEW n, NEW m, NEW c, NEW d, Good(p, n, m, c, d), n.recvQueue # <<>>,
           NEW k, Refuses(n, k, Head(n.recvQueue))
    PROVE  Good(p, k, m, c, d) /\ SameButRecv(n, k)
<1> DEFINE f == Head(n.recvQueue)
<1>1. Shape(n) /\ RecvSide(Other(p), n)
  BY DEF Good, Half
<1>2. /\ Tail(n.recvQueue) \in Seq(Files) /\ Range(n.recvQueue) = {f} \cup Range(Tail(n.recvQueue))
  BY <1>1, QueueTail DEF RecvSide
<1>3. f \in DOMAIN n.recvQueued
  BY DEF Refuses
<1>4. f \notin DOMAIN n.offers /\ f \notin DOMAIN n.receivers
  BY <1>3, QueuedLine
<1>5. /\ k.senders = n.senders /\ k.sendQueue = n.sendQueue /\ k.sendQueued = n.sendQueued
      /\ k.sendActive = n.sendActive /\ k.offered = n.offered /\ k.accepted = n.accepted
      /\ k.offers = n.offers
      /\ k.receivers = n.receivers /\ k.recvActive = n.recvActive /\ k.cancelled = n.cancelled
      /\ k.part = n.part /\ k.saved = n.saved /\ k.source = n.source
      /\ k.out = n.out \o <<Frame("Reject", f, 0, 0)>>
  BY DEF Refuses, Fields
<1>6. SameButRecv(n, k)
  BY <1>5 DEF SameButRecv, SendsAlone
<1>7. Gone(n, k, f)
  <2>1. Without(n.offers, f) = n.offers /\ Without(n.receivers, f) = n.receivers
    BY <1>1, <1>4, WithoutIs DEF Shape
  <2>2. n.saved \in [Files -> SUBSET Seq(Versions)]
    BY <1>1 DEF RecvSide
  <2>3. /\ Shape(k) /\ k.recvQueued = Without(n.recvQueued, f) /\ k.recvQueue = Tail(n.recvQueue)
        /\ DOMAIN k.store \subseteq DOMAIN n.store /\ \A g \in DOMAIN k.store : k.store[g] = n.store[g]
    BY DEF Refuses
  <2> QED BY <1>2, <1>4, <1>5, <1>6, <2>1, <2>2, <2>3 DEF Gone, SameButRecv
<1>8. Good(p, k, m, c, d)
  BY <1>3, <1>5, <1>7, RefusedGood
<1> QED BY <1>6, <1>8

\* A queued offer is begun: the sender gets its Accept.
LEMMA BeginGood ==
    ASSUME OneWay, NEW p, NEW n, NEW m, NEW c, NEW d, Good(p, n, m, c, d), n.recvQueue # <<>>,
           SlotFree(n.recvActive), NEW k, NEW from, NEW part, Begins(n, k, Head(n.recvQueue), from, part)
    PROVE  Good(p, k, m, c, d) /\ SameButRecv(n, k)
<1> DEFINE f == Head(n.recvQueue)
           e == d \o n.out
           new == [version |-> n.recvQueued[f], next |-> from]
           fr == Frame("Accept", f, from, 0)
           P == Range(e)
           P2 == Range(e \o <<fr>>)
           Q == Range(c)
<1>1. /\ p \in Peers /\ Half(p, n) /\ Shape(n) /\ n.out \in Seq(Frames) /\ RecvSide(Other(p), n)
      /\ Stored(Other(p), n) /\ c \in Seq(Frames) /\ e \in Seq(Frames) /\ Dated(n, m.source)
  BY DEF Good, Half, Link
<1>2. /\ Tail(n.recvQueue) \in Seq(Files) /\ Range(n.recvQueue) = {f} \cup Range(Tail(n.recvQueue))
  BY <1>1, QueueTail DEF RecvSide
<1>3. f \in DOMAIN n.recvQueued /\ from \in 0 .. Total /\ part \in Seq(Versions) /\ Len(part) = from
  BY DEF Begins
<1>4. /\ f \in Files /\ <<Other(p), f>> \in Plan /\ f \notin n.cancelled
      /\ f \notin DOMAIN n.offers /\ f \notin DOMAIN n.receivers
      /\ Line(m, n, f, e, c)
      /\ \/ f \in m.cancelled /\ Over(m, n, f, Q)
         \/ f \notin m.cancelled /\ Pending(m, n, f, P, Q)
  BY <1>3, QueuedLine
<1>5. /\ k.senders = n.senders /\ k.sendQueue = n.sendQueue /\ k.sendQueued = n.sendQueued
      /\ k.sendActive = n.sendActive /\ k.offered = n.offered /\ k.accepted = n.accepted
      /\ k.offers = n.offers /\ k.cancelled = n.cancelled
      /\ k.saved = n.saved /\ k.source = n.source
  BY DEF Begins, Fields
<1>6. SameButRecv(n, k)
  BY <1>5 DEF SameButRecv, SendsAlone
<1>7. /\ new \in [version : Versions, next : 0 .. Total]
      /\ new.version = n.recvQueued[f] /\ new.next = from
  BY <1>1, <1>3 DEF RecvSide
<1>8. /\ Shape(k) /\ k.recvQueued = Without(n.recvQueued, f) /\ k.recvQueue = Tail(n.recvQueue)
      /\ k.recvActive = n.recvActive + 1
      /\ k.receivers = With(n.receivers, f, new)
      /\ k.part = With(n.part, f, part)
      /\ DOMAIN k.store \subseteq DOMAIN n.store \cup {f}
      /\ k.store[f] = [direction |-> "recv", next |-> from]
      /\ \A g \in DOMAIN k.store \ {f} : k.store[g] = n.store[g]
      /\ k.out = n.out \o <<fr>>
  BY DEF Begins
<1> HIDE DEF new
<1>9. /\ DOMAIN k.recvQueued = DOMAIN n.recvQueued \ {f}
      /\ \A g \in DOMAIN k.recvQueued : k.recvQueued[g] = n.recvQueued[g]
  <2>1. PICK x : x = n.recvQueued
    OBVIOUS
  <2>2. DOMAIN Without(x, f) = DOMAIN x \ {f} /\ \A g \in DOMAIN x \ {f} : Without(x, f)[g] = x[g]
    BY WithoutIs
  <2> QED BY <1>8, <2>1, <2>2
<1>10. /\ DOMAIN k.receivers = DOMAIN n.receivers \cup {f} /\ k.receivers[f] = new
       /\ \A g \in DOMAIN k.receivers \ {f} : k.receivers[g] = n.receivers[g]
  <2>1. PICK x : x = n.receivers
    OBVIOUS
  <2>2. /\ DOMAIN With(x, f, new) = DOMAIN x \cup {f} /\ With(x, f, new)[f] = new
        /\ \A g \in DOMAIN x \ {f} : With(x, f, new)[g] = x[g]
    BY DEF With
  <2> QED BY <1>8, <2>1, <2>2
<1>11. /\ DOMAIN k.part = DOMAIN n.part \cup {f} /\ k.part[f] = part
       /\ \A g \in DOMAIN k.part \ {f} : k.part[g] = n.part[g]
  <2>1. PICK x : x = n.part
    OBVIOUS
  <2>2. /\ DOMAIN With(x, f, part) = DOMAIN x \cup {f} /\ With(x, f, part)[f] = part
        /\ \A g \in DOMAIN x \ {f} : With(x, f, part)[g] = x[g]
    BY DEF With
  <2> QED BY <1>8, <2>1, <2>2
<1>12. /\ IsFiniteSet(DOMAIN k.receivers) /\ k.recvActive = Cardinality(DOMAIN k.receivers)
       /\ k.recvActive \in 0 .. MaxConcurrent
  <2>1. /\ IsFiniteSet(DOMAIN n.receivers) /\ n.recvActive = Cardinality(DOMAIN n.receivers)
        /\ n.recvActive \in 0 .. MaxConcurrent
    BY <1>1 DEF RecvSide
  <2>2. /\ IsFiniteSet(DOMAIN k.receivers)
        /\ Cardinality(DOMAIN k.receivers) = Cardinality(DOMAIN n.receivers) + 1
    BY <1>4, <1>10, <2>1, FS_AddElement
  <2> QED BY <1>8, <2>1, <2>2, FileTransferAssumption DEF SlotFree
<1>13. RecvSide(Other(p), k)
  <2>1. Hold(k) \subseteq Hold(n)
    BY <1>3, <1>5, <1>9, <1>10 DEF Hold
  <2>2. \A g \in Hold(k) : <<Other(p), g>> \in Plan /\ g \notin k.cancelled
    BY <1>1, <1>5, <2>1 DEF RecvSide
  <2>3. /\ DOMAIN k.offers \cap DOMAIN k.recvQueued = {}
        /\ DOMAIN k.offers \cap DOMAIN k.receivers = {}
        /\ DOMAIN k.recvQueued \cap DOMAIN k.receivers = {}
    BY <1>1, <1>4, <1>5, <1>9, <1>10 DEF RecvSide
  <2>4. /\ \A g \in DOMAIN k.offers : k.offers[g] \in Versions
        /\ \A g \in DOMAIN k.recvQueued : k.recvQueued[g] \in Versions
    BY <1>1, <1>5, <1>9 DEF RecvSide
  <2>5. \A g \in DOMAIN k.part : k.part[g] \in Seq(Versions)
    BY <1>1, <1>3, <1>11 DEF RecvSide
  <2>6. ASSUME NEW g \in DOMAIN k.receivers
        PROVE  /\ k.receivers[g] \in [version : Versions, next : 0 .. Total]
               /\ g \in DOMAIN k.part /\ Len(k.part[g]) = k.receivers[g].next
    <3>1. CASE g = f
      BY <1>3, <1>7, <1>10, <1>11, <3>1
    <3>2. CASE g # f
      <4>1. g \in DOMAIN n.receivers /\ k.receivers[g] = n.receivers[g]
        BY <1>10, <2>6, <3>2
      <4>2. g \in DOMAIN n.part /\ Len(n.part[g]) = n.receivers[g].next
            /\ n.receivers[g] \in [version : Versions, next : 0 .. Total]
        BY <1>1, <4>1 DEF RecvSide
      <4>3. g \in DOMAIN k.part /\ k.part[g] = n.part[g]
        BY <1>11, <3>2, <4>2
      <4> QED BY <4>1, <4>2, <4>3
    <3> QED BY <3>1, <3>2
  <2>7. k.recvQueue \in Seq(Files) /\ DOMAIN k.recvQueued \subseteq Range(k.recvQueue)
    BY <1>1, <1>2, <1>8, <1>9 DEF RecvSide
  <2>8. k.saved \in [Files -> SUBSET Seq(Versions)]
    BY <1>1, <1>5 DEF RecvSide
  <2> QED BY <1>12, <2>2, <2>3, <2>4, <2>5, <2>6, <2>7, <2>8 DEF RecvSide
<1>14. Stored(Other(p), k)
  <2> SUFFICES ASSUME NEW g \in DOMAIN k.store
               PROVE  /\ g \in Files /\ k.store[g] \in [direction : {"send", "recv"}, next : 0 .. Total]
                      /\ k.store[g].direction = "recv" =>
                            /\ <<Other(p), g>> \in Plan
                            /\ g \in DOMAIN k.part => k.store[g].next <= Len(k.part[g])
    BY DEF Stored
  <2>1. CASE g = f
    BY <1>3, <1>4, <1>8, <1>11, <2>1
  <2>2. CASE g # f
    <3>1. g \in DOMAIN n.store /\ k.store[g] = n.store[g]
      BY <1>8, <2>2
    <3>2. g \in DOMAIN k.part => g \in DOMAIN n.part /\ k.part[g] = n.part[g]
      BY <1>11, <2>2
    <3> QED BY <1>1, <3>1, <3>2 DEF Stored
  <2> QED BY <2>1, <2>2
<1>15. Dated(k, m.source)
  BY <1>1, <1>3, <1>5, <1>7, <1>9, <1>10 DEF Dated
<1>16. \A g \in Files \ {f} : SameHolds(n, k, g)
  BY <1>5, <1>9, <1>10 DEF SameHolds
<1>17. /\ <<fr>> \in Seq(Frames) /\ Range(<<fr>>) = {fr} /\ \A g : InTurn(<<fr>>, g)
       /\ fr.op = "Accept" /\ fr.file = f /\ fr.seq = from /\ fr \in Frames
  <2>1. "Accept" \in Ops
    BY DEF Ops
  <2> QED BY <1>3, <1>4, <2>1, OneSaid
<1> HIDE DEF fr
<1>18. IsFrame(Other(p), p, n.source, fr)
  BY <1>4, <1>17 DEF IsFrame
<1>19. P2 = P \cup {fr} /\ (InTurn(e, f) /\ Only(P, f, {}) => InTurn(e \o <<fr>>, f))
  <2>1. ASSUME Only(P, f, {}) PROVE \A a \in P : a.file # f
    BY <2>1 DEF Only
  <2> QED BY <1>1, <1>17, <2>1, AppendIs
<1>20. f \notin DOMAIN k.offers /\ f \notin DOMAIN k.recvQueued /\ f \in Hold(n)
  BY <1>3, <1>4, <1>5, <1>9 DEF Hold
<1>21. Line(m, k, f, e \o <<fr>>, c)
  <2>1. CASE f \in m.cancelled /\ Over(m, n, f, Q)
    <3>1. Over(m, k, f, Q)
      BY <1>20, <2>1 DEF Over
    <3> QED BY <1>4, <2>1, <3>1 DEF Line, Talk
  <2>2. CASE f \notin m.cancelled /\ Pending(m, n, f, P, Q)
    <3>1. HeldAt(k, f, m.senders[f].version)
      BY <1>3, <1>7, <1>10, <1>20, <2>2 DEF Pending, HeldAt
    <3>2. k.receivers[f].next = from /\ f \in DOMAIN k.receivers
      BY <1>7, <1>10
    <3>3. Accepting(m, k, f, P2, Q)
      BY <1>17, <1>19, <2>2, <3>1, <3>2 DEF Pending, Accepting, Only, Carries
    <3>4. InTurn(e \o <<fr>>, f)
      BY <1>4, <1>19, <2>2 DEF Line, Pending
    <3> QED BY <1>4, <1>5, <2>2, <3>3, <3>4 DEF Line, Talk
  <2> QED BY <1>4, <2>1, <2>2
<1>22. SendsAlone(n, k) /\ k.cancelled \subseteq n.cancelled \cup {f}
  BY <1>5, <1>6 DEF SameButRecv
<1>23. Shrinks(c, c, f)
  BY <1>1, ShrinksNot
<1>24. \A x \in Range(<<fr>>) : x.file = f /\ IsFrame(Other(p), p, n.source, x)
  BY <1>17, <1>18
<1>25. Good(p, k, m, c, d)
  BY <1>4, <1>8, <1>13, <1>14, <1>15, <1>16, <1>17, <1>21, <1>22, <1>23, <1>24, RecvStep
<1> QED BY <1>6, <1>25

\* A run of maybe_start_recv keeps all in order, and the queue shrinks by one or waits.
LEMMA PopRecvGood ==
    ASSUME OneWay, NEW p, NEW n, NEW m, NEW c, NEW d, Good(p, n, m, c, d), NEW bad
    PROVE  LET k == PopRecv(n, bad) IN
           /\ Good(p, k, m, c, d) /\ SameButRecv(n, k)
           /\ \/ k = n /\ Drained(n)
              \/ ~Drained(n) /\ Len(k.recvQueue) = Len(n.recvQueue) - 1
<1> DEFINE f == Head(n.recvQueue)
           k == PopRecv(n, bad)
<1>1. Half(p, n) /\ n.recvQueue \in Seq(Files)
  BY DEF Good, Half, RecvSide
<1>2. \/ k = n /\ Drained(n)
      \/ /\ ~Drained(n)
         /\ \/ Skips(n, k, f) \/ Refuses(n, k, f)
            \/ \E from, part : Begins(n, k, f, from, part)
  BY <1>1, PopRecvIs
<1> HIDE DEF k
<1>3. CASE k = n /\ Drained(n)
  BY <1>3 DEF SameButRecv, SendsAlone, k
<1>4. CASE ~Drained(n)
  <2>1. n.recvQueue # <<>> /\ SlotFree(n.recvActive)
    BY <1>4 DEF Drained
  <2>2. Len(Tail(n.recvQueue)) = Len(n.recvQueue) - 1
    BY <1>1, <2>1, QueueTail
  <2>3. k.recvQueue = Tail(n.recvQueue)
    BY <1>2, <1>4 DEF Skips, Refuses, Begins
  <2>4. Good(p, k, m, c, d) /\ SameButRecv(n, k)
    BY <1>2, <1>4, <2>1, SkipGood, RefuseGood, BeginGood
  <2> QED BY <1>4, <2>2, <2>3, <2>4 DEF k
<1> QED BY <1>2, <1>3, <1>4

\* The loop of maybe_start_recv, run by run.
StartsRecv(n, k, bad) ==
    /\ Len(n.recvQueue) \in Nat
    /\ \E h : /\ h[0] = n /\ h[Len(n.recvQueue)] = k
              /\ \A i \in 0 .. Len(n.recvQueue) - 1 : h[i + 1] = PopRecv(h[i], bad)

\* maybe_start_recv is so many pop_ready in a row.
LEMMA MaybeStartIs ==
    ASSUME NEW n, n.recvQueue \in Seq(Files), NEW bad
    PROVE  StartsRecv(n, MaybeStartRecv(n, bad), bad)
<1> DEFINE L == Len(n.recvQueue)
           Is(h, k) == h = [i \in 0 .. k |-> IF i = 0 THEN n ELSE PopRecv(h[i - 1], bad)]
           B == {k \in 0 .. L : \E h : Is(h, k)}
<1>1. L \in Nat
  BY LenProperties
<1>2. 0 \in B
  <2>1. Is([i \in 0 .. 0 |-> n], 0)
    OBVIOUS
  <2> HIDE DEF Is
  <2> QED BY <1>1, <2>1
<1>3. ASSUME NEW k \in 0 .. L - 1, k \in B PROVE k + 1 \in B
  <2>1. PICK h : Is(h, k)
    BY <1>3
  <2> DEFINE g == [i \in 0 .. k + 1 |-> IF i <= k THEN h[i] ELSE PopRecv(h[k], bad)]
  <2>2. \A i \in 0 .. k + 1 : g[i] = IF i = 0 THEN n ELSE PopRecv(g[i - 1], bad)
    BY <1>1, <2>1
  <2>3. Is(g, k + 1)
    <3>1. DOMAIN g = 0 .. k + 1
      OBVIOUS
    <3>2. g = [i \in 0 .. k + 1 |-> g[i]]
      BY <3>1
    <3> HIDE DEF g
    <3> QED BY <2>2, <3>2
  <2> HIDE DEF Is
  <2> QED BY <1>1, <2>3
<1>4. \E h : Is(h, L)
  <2> HIDE DEF B
  <2>1. L \in B
    BY <1>1, <1>2, <1>3, Reached
  <2> QED BY <2>1 DEF B
<1> DEFINE go == CHOOSE h : Is(h, L)
<1>5. Is(go, L)
  BY <1>4
<1>6. MaybeStartRecv(n, bad) = go[L]
  BY DEF MaybeStartRecv
<1> HIDE DEF go
<1>7. go[0] = n /\ \A i \in 0 .. L - 1 : go[i + 1] = PopRecv(go[i], bad)
  BY <1>1, <1>5
<1> QED BY <1>1, <1>6, <1>7 DEF StartsRecv

\* maybe_start_recv leaves nobody waiting for a slot that is free.
LEMMA MaybeStartGood ==
    ASSUME OneWay, NEW p, NEW n, NEW m, NEW c, NEW d, Good(p, n, m, c, d), NEW bad
    PROVE  LET k == MaybeStartRecv(n, bad) IN
           Good(p, k, m, c, d) /\ SameButRecv(n, k) /\ Drained(k)
<1> DEFINE L == Len(n.recvQueue)
<1>1. n.recvQueue \in Seq(Files)
  BY DEF Good, Half, RecvSide
<1>2. L \in Nat /\ \E h : /\ h[0] = n /\ h[L] = MaybeStartRecv(n, bad)
                        /\ \A i \in 0 .. L - 1 : h[i + 1] = PopRecv(h[i], bad)
  BY <1>1, MaybeStartIs DEF StartsRecv
<1>3. PICK h : /\ h[0] = n /\ h[L] = MaybeStartRecv(n, bad)
               /\ \A i \in 0 .. L - 1 : h[i + 1] = PopRecv(h[i], bad)
  BY <1>2
<1> DEFINE B == {i \in 0 .. L : /\ Good(p, h[i], m, c, d) /\ SameButRecv(n, h[i])
                                /\ Drained(h[i]) \/ Len(h[i].recvQueue) = L - i}
<1>4. 0 \in B
  BY <1>2, <1>3 DEF SameButRecv, SendsAlone
<1> HIDE DEF L
<1>5. ASSUME NEW i \in 0 .. L - 1, i \in B PROVE i + 1 \in B
  <2>1. PICK x : x = h[i]
    OBVIOUS
  <2>2. /\ Good(p, x, m, c, d) /\ SameButRecv(n, x) /\ h[i + 1] = PopRecv(x, bad)
        /\ Drained(x) \/ Len(x.recvQueue) = L - i
    BY <1>3, <1>5, <2>1
  <2>3. /\ Good(p, h[i + 1], m, c, d) /\ SameButRecv(x, h[i + 1])
        /\ \/ h[i + 1] = x /\ Drained(x)
           \/ ~Drained(x) /\ Len(h[i + 1].recvQueue) = Len(x.recvQueue) - 1
    BY <2>2, PopRecvGood
  <2>4. SameButRecv(n, h[i + 1])
    BY <2>2, <2>3 DEF SameButRecv, SendsAlone
  <2>5. Drained(h[i + 1]) \/ Len(h[i + 1].recvQueue) = L - (i + 1)
    <3>1. CASE h[i + 1] = x /\ Drained(x)
      BY <3>1
    <3>2. CASE ~Drained(x) /\ Len(h[i + 1].recvQueue) = Len(x.recvQueue) - 1
      <4>1. Len(h[i + 1].recvQueue) = (L - i) - 1
        BY <2>2, <3>2
      <4> QED BY <1>2, <4>1
    <3> QED BY <2>3, <3>1, <3>2
  <2> QED BY <1>2, <2>3, <2>4, <2>5
<1>6. L \in B
  <2> HIDE DEF B
  <2> QED BY <1>2, <1>4, <1>5, Reached
<1>7. /\ Good(p, h[L], m, c, d) /\ SameButRecv(n, h[L])
      /\ Drained(h[L]) \/ Len(h[L].recvQueue) = 0
  BY <1>2, <1>6
<1>8. h[L].recvQueue \in Seq(Files)
  BY <1>7 DEF Good, Half, RecvSide
<1>9. Drained(h[L])
  BY <1>7, <1>8, EmptySeq DEF Drained
<1> QED BY <1>3, <1>7, <1>9

-----------------------------------------------------------------------------
(* The handlers of the receiving side. *)

\* The frame that is handled, and those behind it.
LEMMA HeadIs ==
    ASSUME NEW p, NEW n, NEW m, NEW c, NEW d, Good(p, n, m, c, d), c # <<>>
    PROVE  /\ p \in Peers /\ Head(c) \in Range(c) /\ Head(c).file \in Files
           /\ Range(c) = {Head(c)} \cup Range(Tail(c))
           /\ IsFrame(p, Other(p), m.source, Head(c))
           /\ Shrinks(c, Tail(c), Head(c).file)
           /\ InTurn(c, Head(c).file) => \A fr \in Range(Tail(c)) :
                 fr.file = Head(c).file => <<Head(c).op, fr.op>> \in Follow
<1>1. /\ p \in Peers /\ c \in Seq(Frames) /\ \A fr \in Range(c) : IsFrame(p, Other(p), m.source, fr)
  BY DEF Good, Link
<1>2. /\ Head(c) \in Frames /\ Range(c) = {Head(c)} \cup Range(Tail(c))
      /\ \A f : InTurn(c, f) =>
                 /\ InTurn(Tail(c), f)
                 /\ Head(c).file = f => \A fr \in Range(Tail(c)) :
                       fr.file = f => <<Head(c).op, fr.op>> \in Follow
  BY <1>1, TailIs
<1>3. Head(c) \in Range(c)
  BY <1>2
<1>4. Head(c).file \in Files
  BY <1>2 DEF Frames
<1>5. Shrinks(c, Tail(c), Head(c).file)
  BY <1>1, ShrinksByHead
<1> QED BY <1>1, <1>2, <1>3, <1>4, <1>5

\* The conversation about a file the other end may send.
LEMMA RecvLine ==
    ASSUME OneWay, NEW p, NEW n, NEW m, NEW c, NEW d, Good(p, n, m, c, d),
           NEW f, <<Other(p), f>> \in Plan
    PROVE  /\ f \in Files /\ <<p, f>> \notin Plan /\ Line(m, n, f, d \o n.out, c)
           /\ InTurn(c, f) /\ (f \in n.cancelled => f \notin Hold(n))
<1>1. f \in Files /\ p \in Peers
  BY FileTransferAssumption DEF Good
<1>2. <<p, f>> \notin Plan
  BY <1>1, OtherIs DEF OneWay
<1>3. Line(m, n, f, d \o n.out, c)
  BY <1>1 DEF Good, Link
<1>4. f \in n.cancelled => f \notin Hold(n)
  BY DEF Good, Half, RecvSide
<1> QED BY <1>1, <1>2, <1>3, <1>4 DEF Line

\* A conversation that is over stays so, whatever is handled.
LEMMA OverDrops ==
    ASSUME NEW p, NEW n, NEW m, NEW c, NEW d, Good(p, n, m, c, d), c # <<>>, NEW k,
           InTurn(c, Head(c).file), Over(m, n, Head(c).file, Range(c)),
           Head(c).file \in Hold(k) =>
              Head(c).op # "Cancel" /\ (Head(c).file \in Hold(n) \/ Head(c).op = "Offer")
    PROVE  Over(m, k, Head(c).file, Range(Tail(c)))
<1> DEFINE f == Head(c).file
           Q == Range(c)
           Q2 == Range(Tail(c))
<1>1. /\ Q = {Head(c)} \cup Q2 /\ \A fr \in Q2 : fr.file = f => <<Head(c).op, fr.op>> \in Follow
  BY HeadIs
<1>2. ASSUME Head(c).op = "Cancel" PROVE ~Carries(Q2, f, "Offer")
  BY <1>1, <1>2 DEF Carries, Follow
<1>3. ASSUME Head(c).op # "Cancel", Carries(Q, f, "Cancel") PROVE Carries(Q2, f, "Cancel")
  BY <1>1, <1>3 DEF Carries
<1>4. Carries(Q2, f, "Offer") => Carries(Q, f, "Offer")
  BY <1>1 DEF Carries
<1>5. Head(c).op = "Offer" => Carries(Q, f, "Offer")
  BY <1>1 DEF Carries
<1> QED BY <1>2, <1>3, <1>4, <1>5 DEF Over

\* A frame that nothing is done about.
LEMMA DropGood ==
    ASSUME OneWay, NEW p, NEW n, NEW m, NEW c, NEW d, Good(p, n, m, c, d), c # <<>>,
           <<p, Head(c).file>> \in Plan => Line(n, m, Head(c).file, Tail(c), d \o n.out),
           <<Other(p), Head(c).file>> \in Plan => Line(m, n, Head(c).file, d \o n.out, Tail(c))
    PROVE  Good(p, n, m, Tail(c), d)
<1> DEFINE f == Head(c).file
           e == d \o n.out
<1>1. /\ Half(p, n) /\ Dated(n, m.source) /\ n.out \in Seq(Frames) /\ e \in Seq(Frames)
  BY DEF Good, Half, Link
<1>2. f \in Files /\ Shrinks(c, Tail(c), f)
  BY HeadIs
<1>3. /\ <<>> \in Seq(Frames) /\ Range(<<>>) = {} /\ n.out = n.out \o <<>> /\ e = e \o <<>>
  BY <1>1, NoFrame
<1>4. \A g \in Files \ {f} : SameSends(n, n, g) /\ SameHolds(n, n, g)
  BY DEF SameSends, SameHolds
<1>5. \A fr \in Range(<<>>) : fr.file = f /\ IsFrame(Other(p), p, n.source, fr)
  BY <1>3
<1> QED BY <1>1, <1>2, <1>3, <1>4, <1>5, StepAbout

\* Frames of a cancelled file are dropped.
LEMMA CancelledDrop ==
    ASSUME OneWay, NEW p, NEW n, NEW m, NEW c, NEW d, Good(p, n, m, c, d), c # <<>>,
           Head(c).file \in n.cancelled
    PROVE  Good(p, n, m, Tail(c), d)
<1> DEFINE f == Head(c).file
           e == d \o n.out
           Q == Range(c)
           Q2 == Range(Tail(c))
<1>1. /\ p \in Peers /\ f \in Files /\ Head(c) \in Q /\ Q = {Head(c)} \cup Q2 /\ Shrinks(c, Tail(c), f)
  BY HeadIs
<1>2. ASSUME <<p, f>> \in Plan PROVE Line(n, m, f, Tail(c), e)
  <2>1. Line(n, m, f, c, e)
    BY <1>1, <1>2 DEF Good, Link
  <2> QED BY <2>1 DEF Line, Talk, Over
<1>3. ASSUME <<Other(p), f>> \in Plan PROVE Line(m, n, f, e, Tail(c))
  <2>1. Line(m, n, f, e, c) /\ f \notin Hold(n) /\ InTurn(c, f)
    BY <1>3, RecvLine
  <2>2. InTurn(Tail(c), f)
    BY <1>1, <2>1 DEF Shrinks
  <2>3. CASE f \in m.cancelled
    <3>1. Over(m, n, f, Q)
      BY <2>1, <2>3 DEF Line, Talk
    <3>2. Over(m, n, f, Q2)
      BY <2>1, <3>1, OverDrops
    <3> QED BY <2>1, <2>2, <2>3, <3>2 DEF Line, Talk
  <2>4. CASE f \notin m.cancelled
    <3>1. Stopped(m, n, f, Range(e), Q)
      BY <1>1, <2>1, <2>4 DEF Line, Talk, StoppedEarly, Only
    <3>2. Stopped(m, n, f, Range(e), Q2)
      BY <1>1, <3>1 DEF Stopped, Only, Carries
    <3> QED BY <2>1, <2>2, <2>4, <3>2 DEF Line, Talk
  <2> QED BY <2>3, <2>4
<1> QED BY <1>2, <1>3, DropGood

\* A frame for a file that the other end has cancelled and this one does not hold.
LEMMA OverDrop ==
    ASSUME OneWay, NEW p, NEW n, NEW m, NEW c, NEW d, Good(p, n, m, c, d), c # <<>>,
           <<Other(p), Head(c).file>> \in Plan, Head(c).file \in m.cancelled,
           Head(c).op = "Cancel" => Head(c).file \notin Hold(n)
    PROVE  Good(p, n, m, Tail(c), d)
<1> DEFINE f == Head(c).file
           e == d \o n.out
<1>1. Line(m, n, f, e, c) /\ InTurn(c, f) /\ <<p, f>> \notin Plan
  BY RecvLine
<1>2. Over(m, n, f, Range(c))
  BY <1>1 DEF Line, Talk
<1>3. Over(m, n, f, Range(Tail(c)))
  BY <1>1, <1>2, OverDrops
<1>4. InTurn(Tail(c), f)
  BY <1>1, HeadIs DEF Shrinks
<1>5. Line(m, n, f, e, Tail(c))
  BY <1>1, <1>3, <1>4 DEF Line, Talk
<1> QED BY <1>1, <1>5, DropGood

\* An offer arrives: it waits for the user.
LEMMA OfferHeldGood ==
    ASSUME OneWay, NEW p, NEW n, NEW m, NEW c, NEW d, Good(p, n, m, c, d), Drained(n),
           c # <<>>, Head(c).op = "Offer", Head(c).file \notin n.cancelled, Head(c).file \notin Hold(n)
    PROVE  LET k == [n EXCEPT !.offers = With(@, Head(c).file, Head(c).version)] IN
           Good(p, k, m, Tail(c), d) /\ SameButRecv(n, k) /\ Drained(k)
<1> DEFINE f == Head(c).file
           v == Head(c).version
           e == d \o n.out
           k == [n EXCEPT !.offers = With(@, f, v)]
           P == Range(e)
           Q == Range(c)
           Q2 == Range(Tail(c))
<1>1. /\ p \in Peers /\ Half(p, n) /\ Shape(n) /\ n.out \in Seq(Frames) /\ RecvSide(Other(p), n)
      /\ Stored(Other(p), n) /\ c \in Seq(Frames) /\ e \in Seq(Frames) /\ Dated(n, m.source)
      /\ SendSide(Other(p), m)
  BY DEF Good, Half, Link
<1>2. /\ f \in Files /\ Head(c) \in Q /\ Q = {Head(c)} \cup Q2 /\ Shrinks(c, Tail(c), f)
      /\ IsFrame(p, Other(p), m.source, Head(c))
      /\ InTurn(c, f) => \A fr \in Q2 : fr.file = f => <<Head(c).op, fr.op>> \in Follow
  BY HeadIs
<1>3. <<Other(p), f>> \in Plan /\ v \in 1 .. m.source[f]
  BY <1>2 DEF IsFrame
<1>4. v \in Versions /\ v <= m.source[f]
  <2>1. m.source[f] \in 1 .. MaxVersion
    BY <1>1, <1>2 DEF SendSide, Versions
  <2> QED BY <1>3, <2>1, FileTransferAssumption DEF Versions
<1>5. Line(m, n, f, e, c) /\ InTurn(c, f)
  BY <1>3, RecvLine
<1>6. /\ Shape(k) /\ k.offers = With(n.offers, f, v)
      /\ \A x \in Fields \ {"offers"} : k[x] = n[x]
  <2>1. IsMap(With(n.offers, f, v))
    BY WithIs
  <2> QED BY <1>1, <2>1 DEF Shape, Fields
<1> HIDE DEF k
<1>7. /\ k.senders = n.senders /\ k.sendQueue = n.sendQueue /\ k.sendQueued = n.sendQueued
      /\ k.sendActive = n.sendActive /\ k.offered = n.offered /\ k.accepted = n.accepted
      /\ k.recvQueue = n.recvQueue /\ k.recvQueued = n.recvQueued
      /\ k.receivers = n.receivers /\ k.recvActive = n.recvActive /\ k.cancelled = n.cancelled
      /\ k.part = n.part /\ k.saved = n.saved /\ k.source = n.source /\ k.out = n.out /\ k.store = n.store
  BY <1>6 DEF Fields
<1>8. /\ DOMAIN k.offers = DOMAIN n.offers \cup {f} /\ k.offers[f] = v
      /\ \A g \in DOMAIN k.offers \ {f} : k.offers[g] = n.offers[g]
  <2>1. PICK x : x = n.offers
    OBVIOUS
  <2>2. /\ DOMAIN With(x, f, v) = DOMAIN x \cup {f} /\ With(x, f, v)[f] = v
        /\ \A g \in DOMAIN x \ {f} : With(x, f, v)[g] = x[g]
    BY DEF With
  <2> QED BY <1>6, <2>1, <2>2
<1>9. /\ f \notin DOMAIN n.recvQueued /\ f \notin DOMAIN n.receivers /\ Hold(k) = Hold(n) \cup {f}
  BY <1>7, <1>8 DEF Hold
<1>10. RecvSide(Other(p), k)
  <2>1. \A g \in Hold(k) : <<Other(p), g>> \in Plan /\ g \notin k.cancelled
    BY <1>1, <1>3, <1>7, <1>9 DEF RecvSide
  <2>2. /\ DOMAIN k.offers \cap DOMAIN k.recvQueued = {}
        /\ DOMAIN k.offers \cap DOMAIN k.receivers = {}
        /\ DOMAIN k.recvQueued \cap DOMAIN k.receivers = {}
    BY <1>1, <1>7, <1>8, <1>9 DEF RecvSide
  <2>3. \A g \in DOMAIN k.offers : k.offers[g] \in Versions
    BY <1>1, <1>4, <1>8 DEF RecvSide
  <2> QED BY <1>1, <1>7, <2>1, <2>2, <2>3 DEF RecvSide
<1>11. Stored(Other(p), k)
  BY <1>1, <1>7 DEF Stored
<1>12. Dated(k, m.source) /\ \A g \in Files \ {f} : SameHolds(n, k, g)
  BY <1>1, <1>4, <1>7, <1>8 DEF Dated, SameHolds
<1>13. InTurn(Tail(c), f)
  BY <1>2, <1>5 DEF Shrinks
<1>14. Line(m, k, f, e, Tail(c))
  <2>1. CASE f \in m.cancelled
    <3>1. Over(m, n, f, Q)
      BY <1>5, <2>1 DEF Line, Talk
    <3>2. Over(m, k, f, Q2)
      BY <1>5, <3>1, OverDrops
    <3> QED BY <1>5, <1>13, <2>1, <3>2 DEF Line, Talk
  <2>2. CASE f \notin m.cancelled
    <3>1. OfferOnItsWay(m, n, f, P, Q)
      BY <1>2, <1>5, <2>2 DEF Line, Talk, Idle, Pending, Refused, Accepting, Running, Done, Only
    <3>2. Only(Q2, f, {})
      BY <1>2, <1>5, <3>1 DEF OfferOnItsWay, Only, Follow
    <3>3. Pending(m, k, f, P, Q2)
      BY <1>2, <1>7, <1>8, <1>9, <3>1, <3>2 DEF OfferOnItsWay, Pending, HeldAt
    <3> QED BY <1>5, <1>7, <1>13, <2>2, <3>3 DEF Line, Talk
  <2> QED BY <2>1, <2>2
<1>15. SameButRecv(n, k) /\ Drained(k)
  BY <1>7 DEF SameButRecv, SendsAlone, Drained
<1>16. <<>> \in Seq(Frames) /\ Range(<<>>) = {} /\ k.out = n.out \o <<>> /\ e = e \o <<>>
  BY <1>1, <1>7, NoFrame
<1>17. SendsAlone(n, k) /\ k.cancelled \subseteq n.cancelled \cup {f}
  BY <1>15 DEF SameButRecv
<1>18. \A fr \in Range(<<>>) : fr.file = f /\ IsFrame(Other(p), p, n.source, fr)
  BY <1>16
<1>19. Good(p, k, m, Tail(c), d)
  BY <1>2, <1>3, <1>6, <1>10, <1>11, <1>12, <1>14, <1>16, <1>17, <1>18, RecvStep
<1> QED BY <1>15, <1>19 DEF k

\* An answer to a sender that has cancelled: nothing but frames.
LEMMA OverSays ==
    ASSUME OneWay, NEW p, NEW n, NEW m, NEW c, NEW d, Good(p, n, m, c, d), c # <<>>,
           <<Other(p), Head(c).file>> \in Plan, Head(c).file \in m.cancelled, Head(c).op # "Cancel",
           NEW op \in {"Reject", "FinishAck"}
    PROVE  LET k == Send(n, <<Frame(op, Head(c).file, 0, 0)>>) IN
           Good(p, k, m, Tail(c), d) /\ SameButRecv(n, k)
<1> DEFINE f == Head(c).file
           e == d \o n.out
           fr == Frame(op, f, 0, 0)
           k == Send(n, <<fr>>)
<1>1. /\ p \in Peers /\ Half(p, n) /\ Shape(n) /\ Dated(n, m.source)
  BY DEF Good, Half, Link
<1>2. f \in Files /\ Shrinks(c, Tail(c), f)
  BY HeadIs
<1>3. /\ <<fr>> \in Seq(Frames) /\ Range(<<fr>>) = {fr}
      /\ fr.op = op /\ fr.file = f /\ fr \in Frames
  <2>1. op \in Ops /\ 0 \in 0 .. Total
    BY SlideWindowAssumption DEF Ops
  <2> QED BY <1>2, <2>1, OneSaid
<1> HIDE DEF fr
<1>4. IsFrame(Other(p), p, n.source, fr)
  BY <1>3 DEF IsFrame
<1>5. Said(n, k, <<fr>>)
  BY <1>1, <1>3, SendSays
<1> HIDE DEF k
<1>6. Half(p, k)
  BY <1>1, <1>5, SaidHalf
<1>7. /\ k.senders = n.senders /\ k.sendQueue = n.sendQueue /\ k.sendQueued = n.sendQueued
      /\ k.sendActive = n.sendActive /\ k.offered = n.offered /\ k.accepted = n.accepted
      /\ k.offers = n.offers /\ k.recvQueued = n.recvQueued
      /\ k.receivers = n.receivers /\ k.cancelled = n.cancelled
      /\ k.saved = n.saved /\ k.source = n.source /\ k.out = n.out \o <<fr>>
  BY <1>5 DEF Said, Fields
<1>8. Line(m, n, f, e, c) /\ InTurn(c, f)
  BY RecvLine
<1>9. Over(m, k, f, Range(Tail(c)))
  <2>1. Over(m, n, f, Range(c))
    BY <1>8 DEF Line, Talk
  <2>2. Hold(k) = Hold(n)
    BY <1>7 DEF Hold
  <2> QED BY <1>8, <2>1, <2>2, OverDrops
<1>10. Line(m, k, f, e \o <<fr>>, Tail(c))
  <2>1. InTurn(Tail(c), f)
    BY <1>2, <1>8 DEF Shrinks
  <2> QED BY <1>8, <1>9, <2>1 DEF Line, Talk
<1>11. SameButRecv(n, k)
  BY <1>7 DEF SameButRecv, SendsAlone
<1>12. /\ Dated(k, m.source) /\ \A g \in Files \ {f} : SameHolds(n, k, g)
  BY <1>1, <1>7 DEF Dated, SameHolds
<1>13. Shape(k) /\ RecvSide(Other(p), k) /\ Stored(Other(p), k)
  BY <1>6 DEF Half
<1>14. SendsAlone(n, k) /\ k.cancelled \subseteq n.cancelled \cup {f}
  BY <1>11 DEF SameButRecv
<1>15. \A x \in Range(<<fr>>) : x.file = f /\ IsFrame(Other(p), p, n.source, x)
  BY <1>3, <1>4
<1>16. Good(p, k, m, Tail(c), d)
  BY <1>2, <1>3, <1>7, <1>10, <1>12, <1>13, <1>14, <1>15, RecvStep
<1> QED BY <1>11, <1>16 DEF k, fr

\* on_offer
LEMMA OfferGood ==
    ASSUME OneWay, NEW p, NEW n, NEW m, NEW c, NEW d, Good(p, n, m, c, d), Drained(n),
           c # <<>>, Head(c).op = "Offer", Head(c).file \notin n.cancelled
    PROVE  LET k == OnOffer(n, Head(c).file, Head(c).version) IN
           Good(p, k, m, Tail(c), d) /\ SameButRecv(n, k) /\ Drained(k)
<1> DEFINE f == Head(c).file
<1>1. CASE f \notin Hold(n)
  <2>1. OnOffer(n, f, Head(c).version) = [n EXCEPT !.offers = With(@, f, Head(c).version)]
    BY <1>1 DEF OnOffer, Hold
  <2> QED BY <1>1, <2>1, OfferHeldGood
<1>2. CASE f \in Hold(n)
  <2>1. OnOffer(n, f, Head(c).version) = Send(n, <<Frame("Reject", f, 0, 0)>>)
    BY <1>2 DEF OnOffer, Hold
  <2>2. <<Other(p), f>> \in Plan /\ Head(c) \in Range(c)
    BY HeadIs DEF IsFrame
  <2>3. f \in m.cancelled
    <3>1. Line(m, n, f, d \o n.out, c)
      BY <2>2, RecvLine
    <3> QED BY <1>2, <2>2, <3>1 DEF Line, Talk, Idle, OfferOnItsWay, Pending, Refused, Accepting,
               Running, Done, Only
  <2> DEFINE k == Send(n, <<Frame("Reject", f, 0, 0)>>)
  <2>4. Good(p, k, m, Tail(c), d) /\ SameButRecv(n, k)
    BY <2>2, <2>3, OverSays
  <2>5. Drained(k)
    <3>1. Shape(n)
      BY DEF Good, Half
    <3> QED BY <3>1 DEF Drained, Send, Shape, Fields
  <2> QED BY <2>1, <2>4, <2>5
<1> QED BY <1>1, <1>2

\* cmd_respond_offer, refused
LEMMA DeclineGood ==
    ASSUME OneWay, NEW p, NEW n, NEW m, NEW c, NEW d, Good(p, n, m, c, d), Drained(n),
           NEW f \in DOMAIN n.offers
    PROVE  LET k == Ended(Send([n EXCEPT !.offers = Without(@, f)], <<Frame("Reject", f, 0, 0)>>),
                          f, "recv", "Cancelled") IN
           Good(p, k, m, c, d) /\ SameButRecv(n, k) /\ Drained(k)
<1> DEFINE k == Ended(Send([n EXCEPT !.offers = Without(@, f)], <<Frame("Reject", f, 0, 0)>>),
                      f, "recv", "Cancelled")
<1>1. Shape(n) /\ RecvSide(Other(p), n)
  BY DEF Good, Half
<1>2. /\ Shape(k) /\ k.offers = Without(n.offers, f) /\ k.out = n.out \o <<Frame("Reject", f, 0, 0)>>
      /\ \A x \in Fields \ {"offers", "out", "finished"} : k[x] = n[x]
  <2> DEFINE left == Without(n.offers, f)
             said == n.out \o <<Frame("Reject", f, 0, 0)>>
             over == With(n.finished, f, <<"recv", "Cancelled">>)
  <2>1. k = [n EXCEPT !.offers = left, !.out = said, !.finished = over]
    BY <1>1 DEF Ended, Send, Shape, Fields
  <2>2. IsMap(left)
    BY WithoutIs
  <2> HIDE DEF k, left, said, over
  <2>3. /\ Shape(k) /\ k.offers = left /\ k.out = said
        /\ \A x \in Fields \ {"offers", "out", "finished"} : k[x] = n[x]
    BY <1>1, <2>1, <2>2 DEF Shape, Fields
  <2> QED BY <2>3 DEF left, said
<1> HIDE DEF k
<1>3. /\ k.senders = n.senders /\ k.sendQueue = n.sendQueue /\ k.sendQueued = n.sendQueued
      /\ k.sendActive = n.sendActive /\ k.offered = n.offered /\ k.accepted = n.accepted
      /\ k.recvQueue = n.recvQueue /\ k.recvQueued = n.recvQueued
      /\ k.receivers = n.receivers /\ k.recvActive = n.recvActive /\ k.cancelled = n.cancelled
      /\ k.part = n.part /\ k.saved = n.saved /\ k.source = n.source /\ k.store = n.store
  BY <1>2 DEF Fields
<1>4. SameButRecv(n, k) /\ Drained(k)
  BY <1>3 DEF SameButRecv, SendsAlone, Drained
<1>5. Gone(n, k, f)
  <2>1. f \notin DOMAIN n.recvQueued /\ f \notin DOMAIN n.receivers
    BY <1>1 DEF RecvSide
  <2>2. Without(n.recvQueued, f) = n.recvQueued /\ Without(n.receivers, f) = n.receivers
    BY <1>1, <2>1, WithoutIs DEF Shape
  <2>3. n.saved \in [Files -> SUBSET Seq(Versions)] /\ n.recvQueue \in Seq(Files)
    BY <1>1 DEF RecvSide
  <2> QED BY <1>2, <1>3, <1>4, <2>1, <2>2, <2>3 DEF Gone, SameButRecv
<1>6. Good(p, k, m, c, d)
  BY <1>2, <1>3, <1>5, RefusedGood
<1> QED BY <1>4, <1>6 DEF k

\* An accepted offer waits for a slot.
LEMMA TakeGood ==
    ASSUME OneWay, NEW p, NEW n, NEW m, NEW c, NEW d, Good(p, n, m, c, d), NEW f \in DOMAIN n.offers
    PROVE  LET k == [n EXCEPT !.offers = Without(@, f), !.recvQueue = Append(@, f),
                              !.recvQueued = With(@, f, n.offers[f])] IN
           Good(p, k, m, c, d) /\ SameButRecv(n, k)
<1> DEFINE k == [n EXCEPT !.offers = Without(@, f), !.recvQueue = Append(@, f),
                          !.recvQueued = With(@, f, n.offers[f])]
           v == n.offers[f]
           e == d \o n.out
           P == Range(e)
           Q == Range(c)
<1>1. /\ p \in Peers /\ Half(p, n) /\ Shape(n) /\ n.out \in Seq(Frames) /\ RecvSide(Other(p), n)
      /\ Stored(Other(p), n) /\ c \in Seq(Frames) /\ e \in Seq(Frames) /\ Dated(n, m.source)
  BY DEF Good, Half, Link
<1>2. /\ f \in Files /\ <<Other(p), f>> \in Plan /\ f \notin n.cancelled
      /\ f \notin DOMAIN n.receivers
      /\ Line(m, n, f, e, c)
      /\ \/ f \in m.cancelled /\ Over(m, n, f, Q)
         \/ f \notin m.cancelled /\ Pending(m, n, f, P, Q)
  BY QueuedLine
<1>3. /\ Shape(k) /\ k.offers = Without(n.offers, f) /\ k.recvQueue = Append(n.recvQueue, f)
      /\ k.recvQueued = With(n.recvQueued, f, v)
      /\ \A x \in Fields \ {"offers", "recvQueue", "recvQueued"} : k[x] = n[x]
  <2> DEFINE left == Without(n.offers, f)
             queue == Append(n.recvQueue, f)
             queued == With(n.recvQueued, f, v)
  <2>1. k = [n EXCEPT !.offers = left, !.recvQueue = queue, !.recvQueued = queued]
    BY <1>1 DEF Shape, Fields
  <2>2. IsMap(left) /\ IsMap(queued)
    BY WithoutIs, WithIs
  <2> HIDE DEF k, left, queue, queued, v
  <2>3. /\ Shape(k) /\ k.offers = left /\ k.recvQueue = queue /\ k.recvQueued = queued
        /\ \A x \in Fields \ {"offers", "recvQueue", "recvQueued"} : k[x] = n[x]
    BY <1>1, <2>1, <2>2 DEF Shape, Fields
  <2> QED BY <2>3 DEF left, queue, queued
<1> HIDE DEF k
<1>4. /\ k.senders = n.senders /\ k.sendQueue = n.sendQueue /\ k.sendQueued = n.sendQueued
      /\ k.sendActive = n.sendActive /\ k.offered = n.offered /\ k.accepted = n.accepted
      /\ k.receivers = n.receivers /\ k.recvActive = n.recvActive /\ k.cancelled = n.cancelled
      /\ k.part = n.part /\ k.saved = n.saved /\ k.source = n.source /\ k.store = n.store
      /\ k.out = n.out
  BY <1>3 DEF Fields
<1>5. /\ DOMAIN k.offers = DOMAIN n.offers \ {f}
      /\ \A g \in DOMAIN k.offers : k.offers[g] = n.offers[g]
  <2>1. PICK x : x = n.offers
    OBVIOUS
  <2>2. DOMAIN Without(x, f) = DOMAIN x \ {f} /\ \A g \in DOMAIN x \ {f} : Without(x, f)[g] = x[g]
    BY WithoutIs
  <2> QED BY <1>3, <2>1, <2>2
<1>6. v \in Versions /\ v <= m.source[f]
  BY <1>1 DEF RecvSide, Dated
<1> HIDE DEF v
<1>7. /\ DOMAIN k.recvQueued = DOMAIN n.recvQueued \cup {f} /\ k.recvQueued[f] = v
      /\ \A g \in DOMAIN k.recvQueued \ {f} : k.recvQueued[g] = n.recvQueued[g]
  <2>1. PICK x : x = n.recvQueued
    OBVIOUS
  <2>2. /\ DOMAIN With(x, f, v) = DOMAIN x \cup {f} /\ With(x, f, v)[f] = v
        /\ \A g \in DOMAIN x \ {f} : With(x, f, v)[g] = x[g]
    BY DEF With
  <2> QED BY <1>3, <2>1, <2>2
<1>8. k.recvQueue \in Seq(Files) /\ Range(k.recvQueue) = Range(n.recvQueue) \cup {f}
  BY <1>1, <1>2, <1>3, QueueAppend DEF RecvSide
<1>9. Hold(k) = Hold(n)
  BY <1>4, <1>5, <1>7 DEF Hold
<1>10. RecvSide(Other(p), k)
  <2>1. \A g \in Hold(k) : <<Other(p), g>> \in Plan /\ g \notin k.cancelled
    BY <1>1, <1>4, <1>9 DEF RecvSide
  <2>2. /\ DOMAIN k.offers \cap DOMAIN k.recvQueued = {}
        /\ DOMAIN k.offers \cap DOMAIN k.receivers = {}
        /\ DOMAIN k.recvQueued \cap DOMAIN k.receivers = {}
    BY <1>1, <1>2, <1>4, <1>5, <1>7 DEF RecvSide
  <2>3. /\ \A g \in DOMAIN k.offers : k.offers[g] \in Versions
        /\ \A g \in DOMAIN k.recvQueued : k.recvQueued[g] \in Versions
    BY <1>1, <1>5, <1>6, <1>7 DEF RecvSide
  <2>4. DOMAIN k.recvQueued \subseteq Range(k.recvQueue)
    BY <1>1, <1>7, <1>8 DEF RecvSide
  <2> QED BY <1>1, <1>4, <1>8, <2>1, <2>2, <2>3, <2>4 DEF RecvSide
<1>11. Stored(Other(p), k)
  BY <1>1, <1>4 DEF Stored
<1>12. Dated(k, m.source) /\ \A g \in Files \ {f} : SameHolds(n, k, g)
  BY <1>1, <1>4, <1>5, <1>6, <1>7 DEF Dated, SameHolds
<1>13. Line(m, k, f, e, c)
  <2>1. CASE f \in m.cancelled /\ Over(m, n, f, Q)
    <3>1. Over(m, k, f, Q)
      BY <1>9, <2>1 DEF Over
    <3> QED BY <1>2, <2>1, <3>1 DEF Line, Talk
  <2>2. CASE f \notin m.cancelled /\ Pending(m, n, f, P, Q)
    <3>1. HeldAt(k, f, m.senders[f].version)
      BY <1>2, <1>4, <1>5, <1>7, <2>2 DEF Pending, HeldAt, v
    <3>2. Pending(m, k, f, P, Q)
      BY <1>7, <2>2, <3>1 DEF Pending
    <3> QED BY <1>2, <1>4, <2>2, <3>2 DEF Line, Talk
  <2> QED BY <1>2, <2>1, <2>2
<1>14. SameButRecv(n, k)
  BY <1>4 DEF SameButRecv, SendsAlone
<1>15. SendsAlone(n, k) /\ k.cancelled \subseteq n.cancelled \cup {f}
  BY <1>14 DEF SameButRecv
<1>16. <<>> \in Seq(Frames) /\ Range(<<>>) = {} /\ k.out = n.out \o <<>> /\ e = e \o <<>>
  BY <1>1, <1>4, NoFrame
<1>17. \A fr \in Range(<<>>) : fr.file = f /\ IsFrame(Other(p), p, n.source, fr)
  BY <1>16
<1>18. Shrinks(c, c, f)
  BY <1>1, ShrinksNot
<1>19. Good(p, k, m, c, d)
  BY <1>2, <1>3, <1>10, <1>11, <1>12, <1>13, <1>15, <1>16, <1>17, <1>18, RecvStep
<1> QED BY <1>14, <1>19 DEF k

\* cmd_respond_offer, accepted
LEMMA RespondGood ==
    ASSUME OneWay, NEW p, NEW n, NEW m, NEW c, NEW d, Good(p, n, m, c, d), NEW f \in DOMAIN n.offers,
           NEW bad
    PROVE  LET k == MaybeStartRecv([n EXCEPT !.offers = Without(@, f), !.recvQueue = Append(@, f),
                                             !.recvQueued = With(@, f, n.offers[f])], bad) IN
           Good(p, k, m, c, d) /\ SameButRecv(n, k) /\ Drained(k)
<1> DEFINE l == [n EXCEPT !.offers = Without(@, f), !.recvQueue = Append(@, f),
                          !.recvQueued = With(@, f, n.offers[f])]
           k == MaybeStartRecv(l, bad)
<1>1. Good(p, l, m, c, d) /\ SameButRecv(n, l)
  BY TakeGood
<1> HIDE DEF l
<1>2. Good(p, k, m, c, d) /\ SameButRecv(l, k) /\ Drained(k)
  BY <1>1, MaybeStartGood
<1> HIDE DEF k
<1>3. SameButRecv(n, k)
  BY <1>1, <1>2 DEF SameButRecv, SendsAlone
<1> QED BY <1>2, <1>3 DEF k, l

-----------------------------------------------------------------------------
(* The receiving end stops. *)

\* n without the record of f
Dropped(n, f, part, active, cancelled) ==
    [n EXCEPT !.store = Without(n.store, f), !.part = part, !.recvActive = active,
              !.cancelled = cancelled]

\* n has come to k, which has cancelled f
Dropping(n, k, f) ==
    /\ Gone(n, k, f) /\ k.cancelled = n.cancelled \cup {f}
    /\ k.out = n.out /\ k.saved = n.saved

\* Such a step forgets the file.
LEMMA DroppedGone ==
    ASSUME OneWay, NEW p \in Peers, NEW n, Half(p, n), NEW f \in Files, <<Other(p), f>> \in Plan,
           NEW part, part = n.part \/ part = Without(n.part, f),
           NEW active, active = IF f \in DOMAIN n.receivers THEN Less1(n.recvActive) ELSE n.recvActive,
           NEW k, NEW how, Cleaned(Dropped(n, f, part, active, n.cancelled \cup {f}), k, f, "recv", how)
    PROVE  Dropping(n, k, f)
<1> DEFINE l == Dropped(n, f, part, active, n.cancelled \cup {f})
<1>1. Shape(n) /\ RecvSide(Other(p), n)
  BY DEF Half
<1>2. /\ Shape(l) /\ l.store = Without(n.store, f) /\ l.part = part /\ l.recvActive = active
      /\ l.cancelled = n.cancelled \cup {f}
      /\ \A x \in Fields \ {"store", "part", "recvActive", "cancelled"} : l[x] = n[x]
  BY <1>1 DEF Dropped, Shape, Fields
<1> HIDE DEF l
<1>3. /\ l.offers = n.offers /\ l.recvQueued = n.recvQueued /\ l.receivers = n.receivers
      /\ l.recvQueue = n.recvQueue /\ l.out = n.out /\ l.saved = n.saved
      /\ l.senders = n.senders /\ l.sendQueue = n.sendQueue /\ l.sendQueued = n.sendQueued
      /\ l.sendActive = n.sendActive /\ l.offered = n.offered /\ l.accepted = n.accepted
      /\ l.source = n.source
  BY <1>2 DEF Fields
<1>4. SendsAlone(n, l)
  BY <1>2, <1>3 DEF SendsAlone
<1>5. Cleaned(l, k, f, "recv", how)
  BY DEF l
<1>6. SendsAlone(n, k)
  BY <1>2, <1>4, <1>5, CleanedRecv
<1>7. DOMAIN k.store \subseteq DOMAIN n.store /\ \A g \in DOMAIN k.store : k.store[g] = n.store[g]
  <2>1. PICK x : x = n.store
    OBVIOUS
  <2>2. DOMAIN Without(x, f) = DOMAIN x \ {f} /\ \A g \in DOMAIN x \ {f} : Without(x, f)[g] = x[g]
    BY WithoutIs
  <2>3. k.store = Without(x, f)
    BY <1>2, <1>5, <2>1 DEF Cleaned
  <2> QED BY <2>1, <2>2, <2>3
<1>8. /\ Shape(k) /\ k.offers = Without(n.offers, f) /\ k.recvQueued = Without(n.recvQueued, f)
      /\ k.receivers = Without(n.receivers, f) /\ k.recvQueue = n.recvQueue
      /\ k.recvActive = active /\ k.part = part /\ k.out = n.out /\ k.saved = n.saved
      /\ k.cancelled = n.cancelled \cup {f}
  BY <1>2, <1>3, <1>5 DEF Cleaned
<1>9. n.saved \in [Files -> SUBSET Seq(Versions)] /\ n.recvQueue \in Seq(Files)
  BY <1>1 DEF RecvSide
<1> QED BY <1>6, <1>7, <1>8, <1>9 DEF Dropping, Gone

\* Whoever cancels a file that is held, it is over at the receiving end.
LEMMA StopGood ==
    ASSUME OneWay, NEW p, NEW n, NEW m, NEW c, NEW d, Good(p, n, m, c, d), NEW f \in Hold(n),
           NEW new, Cancels(p, n, f, new), NEW n0, Said(n, n0, new), NEW k, Dropping(n0, k, f),
           NEW c2, Shrinks(c, c2, f),
           \/ /\ Carries(Range(new), f, "Cancel")
              /\ Carries(Range(c), f, "Cancel") => Carries(Range(c2), f, "Cancel")
           \/ f \in m.cancelled /\ ~Carries(Range(c2), f, "Offer")
    PROVE  Good(p, k, m, c2, d)
<1> DEFINE e == d \o n.out
           P == Range(e)
           P2 == Range(e \o new)
           Q == Range(c)
           Q2 == Range(c2)
<1>1. /\ p \in Peers /\ Half(p, n) /\ Shape(n) /\ n.out \in Seq(Frames)
      /\ e \in Seq(Frames) /\ \A fr \in P : IsFrame(Other(p), p, n.source, fr)
      /\ Dated(n, m.source)
  BY DEF Good, Half, Link
<1>2. <<Other(p), f>> \in Plan /\ f \notin n.cancelled
  BY <1>1 DEF Half, RecvSide
<1>3. f \in Files /\ Line(m, n, f, e, c) /\ InTurn(c, f)
  BY <1>2, RecvLine
<1>4. /\ Half(p, n0) /\ n0.out = n.out \o new /\ new \in Seq(Frames)
      /\ n0.senders = n.senders /\ n0.sendQueue = n.sendQueue /\ n0.sendQueued = n.sendQueued
      /\ n0.sendActive = n.sendActive /\ n0.offered = n.offered /\ n0.accepted = n.accepted
      /\ n0.offers = n.offers /\ n0.recvQueued = n.recvQueued /\ n0.receivers = n.receivers
      /\ n0.cancelled = n.cancelled /\ n0.saved = n.saved /\ n0.source = n.source
  BY <1>1, SaidHalf DEF Said, Fields
<1>5. LeavesRecv(p, n0, k, f) /\ Gone(n0, k, f)
  BY <1>4, GoneLeaves DEF Dropping
<1>6. /\ Shape(k) /\ SendsAlone(n, k) /\ k.cancelled = n.cancelled \cup {f}
      /\ RecvSide(Other(p), k) /\ Stored(Other(p), k) /\ Dated(k, m.source)
      /\ \A g \in Files \ {f} : SameHolds(n, k, g)
      /\ f \notin Hold(k) /\ k.out = n.out \o new
  <2>1. Dated(n0, m.source)
    BY <1>1, <1>4 DEF Dated
  <2>2. \A g \in Files \ {f} : SameHolds(n0, k, g)
    BY <1>5 DEF LeavesRecv
  <2>3. \A g \in Files \ {f} : SameHolds(n, k, g)
    BY <1>4, <2>2 DEF SameHolds
  <2>4. SendsAlone(n, k)
    BY <1>4, <1>5 DEF Gone, SendsAlone
  <2>5. Dated(k, m.source)
    BY <1>5, <2>1 DEF LeavesRecv
  <2> QED BY <1>4, <1>5, <2>3, <2>4, <2>5 DEF LeavesRecv, Gone, Dropping
<1>7. /\ P2 = P \cup Range(new) /\ Q2 \subseteq Q /\ InTurn(c2, f)
      /\ (\A a \in P : a.file = f => a.op \in {"Accept", "Ack", "Cancel"}) /\ InTurn(e, f) => InTurn(e \o new, f)
  <2>1. ASSUME \A a \in P : a.file = f => a.op \in {"Accept", "Ack", "Cancel"}
        PROVE  \A a \in P, b \in Range(new) : a.file = f /\ b.file = f => <<a.op, b.op>> \in Follow
    BY <2>1 DEF Cancels, Follow
  <2> QED BY <1>1, <1>3, <2>1, AppendIs DEF Shrinks, Cancels
<1>8. Only(Range(new), f, {"Cancel"})
  BY DEF Only, Cancels
<1>9. ASSUME f \in m.cancelled PROVE Line(m, k, f, e \o new, c2)
  <2>1. Over(m, n, f, Q)
    BY <1>3, <1>9 DEF Line, Talk
  <2>2. Carries(Q2, f, "Offer") => Carries(Q, f, "Offer")
    BY <1>7 DEF Carries
  <2>3. Over(m, k, f, Q2)
    BY <1>6, <2>1, <2>2 DEF Over
  <2> QED BY <1>7, <1>9, <2>3 DEF Line, Talk
<1>10. ASSUME f \notin m.cancelled PROVE Line(m, k, f, e \o new, c2)
  <2>1. Carries(Range(new), f, "Cancel")
    BY <1>10
  <2>2. Carries(P2, f, "Cancel")
    BY <1>7, <2>1 DEF Carries
  <2>3. Pending(m, n, f, P, Q) \/ Accepting(m, n, f, P, Q) \/ Running(m, n, f, P, Q)
    BY <1>2, <1>3, <1>10 DEF Line, Talk, Idle, OfferOnItsWay, Refused, Done
  <2>4. (\A a \in P : a.file = f => a.op \in {"Accept", "Ack", "Cancel"})
    BY <2>3 DEF Pending, Accepting, Running, Only
  <2>5. InTurn(e \o new, f)
    BY <1>3, <1>7, <1>10, <2>4 DEF Line
  <2>6. CASE Pending(m, n, f, P, Q) \/ Accepting(m, n, f, P, Q)
    <3>1. StoppedEarly(m, k, f, P2, Q2)
      BY <1>6, <1>7, <1>8, <2>2, <2>6 DEF Pending, Accepting, StoppedEarly, Only
    <3> QED BY <1>6, <1>7, <1>10, <2>5, <3>1 DEF Line, Talk
  <2>7. CASE Running(m, n, f, P, Q)
    <3>1. Carries(Q2, f, "Finish") => AllAcked(m.senders[f].window)
      BY <1>7, <2>7 DEF Running, Progress, Carries
    <3>2. Stopped(m, k, f, P2, Q2)
      BY <1>6, <1>7, <1>8, <2>2, <2>7, <3>1 DEF Running, Stopped, Only
    <3> QED BY <1>6, <1>7, <1>10, <2>5, <3>2 DEF Line, Talk
  <2> QED BY <2>3, <2>6, <2>7
<1>11. Line(m, k, f, e \o new, c2)
  BY <1>9, <1>10
<1>12. \A fr \in Range(new) : fr.file = f /\ IsFrame(Other(p), p, n.source, fr)
  BY DEF Cancels
<1> QED BY <1>2, <1>3, <1>4, <1>6, <1>11, <1>12, RecvStep

\* a file dropped from n makes room for the next, in r
Replaces(n, f, r) == \E k : Dropping(n, k, f) /\ r = MaybeStartRecv(k, {})

\* What abort_recv, on_cancel and cmd_cancel do about a file that is held, before maybe_start_recv.
LEMMA StopIs ==
    ASSUME OneWay, NEW p \in Peers, NEW n, Half(p, n), NEW f \in Hold(n), NEW byPeer \in BOOLEAN
    PROVE  /\ f \in DOMAIN n.receivers => Replaces(n, f, AbortRecv(n, f))
           /\ Replaces(n, f, Cancelled(n, f, byPeer))
<1>1. Shape(n) /\ RecvSide(Other(p), n) /\ SendSide(p, n)
  BY DEF Half
<1>2. <<Other(p), f>> \in Plan /\ f \in Files
  BY <1>1, FileTransferAssumption DEF RecvSide
<1>3. f \notin DOMAIN n.senders
  BY <1>1, <1>2, NoSends
<1> DEFINE all == n.cancelled \cup {f}
           begun == Dropped(n, f, Without(n.part, f), Less1(n.recvActive), all)
           queued == Dropped(n, f, n.part, n.recvActive, all)
           m == [Forget(n, f) EXCEPT !.cancelled = @ \cup {f}]
<1>4. /\ Shape(begun) /\ Shape(queued)
      /\ [FreeRecvSlot(Forget(DropPart(n, f), f)) EXCEPT !.cancelled = @ \cup {f}] = begun
      /\ FreeRecvSlot(DropPart(m, f)) = begun
      /\ m = queued
  <2>1. Shape(begun) /\ Shape(queued)
    BY <1>1 DEF Dropped, Shape, Fields
  <2>2. [FreeRecvSlot(Forget(DropPart(n, f), f)) EXCEPT !.cancelled = @ \cup {f}] = begun
    BY <1>1 DEF FreeRecvSlot, Forget, DropPart, Dropped, Shape, Fields
  <2>3. FreeRecvSlot(DropPart(m, f)) = begun
    BY <1>1 DEF FreeRecvSlot, Forget, DropPart, Dropped, Shape, Fields
  <2>4. m = queued
    BY <1>1 DEF Forget, Dropped, Shape, Fields
  <2> QED BY <2>1, <2>2, <2>3, <2>4
<1>5. ASSUME f \in DOMAIN n.receivers, NEW how
      PROVE  Dropping(n, Ended(CleanupTask(begun, f), f, "recv", how), f)
  <2> DEFINE k == Ended(CleanupTask(begun, f), f, "recv", how)
  <2>1. Cleaned(begun, k, f, "recv", how)
    <3> HIDE DEF begun
    <3> QED BY <1>4, CleanedIs
  <2> HIDE DEF k
  <2>2. Cleaned(Dropped(n, f, Without(n.part, f), Less1(n.recvActive), n.cancelled \cup {f}), k, f, "recv", how)
    BY <2>1
  <2>3. Dropping(n, k, f)
    BY <1>2, <1>5, <2>2, DroppedGone
  <2> QED BY <2>3 DEF k
<1>6. ASSUME f \notin DOMAIN n.receivers, NEW how
      PROVE  Dropping(n, Ended(CleanupTask(queued, f), f, "recv", how), f)
  <2> DEFINE k == Ended(CleanupTask(queued, f), f, "recv", how)
  <2>1. Cleaned(queued, k, f, "recv", how)
    <3> HIDE DEF queued
    <3> QED BY <1>4, CleanedIs
  <2> HIDE DEF k
  <2>2. Cleaned(Dropped(n, f, n.part, n.recvActive, n.cancelled \cup {f}), k, f, "recv", how)
    BY <2>1
  <2>3. Dropping(n, k, f)
    BY <1>2, <1>6, <2>2, DroppedGone
  <2> QED BY <2>3 DEF k
<1> HIDE DEF begun, queued
<1>7. AbortRecv(n, f) = MaybeStartRecv(Ended(CleanupTask(begun, f), f, "recv", "Failed"), {})
  BY <1>4 DEF AbortRecv
<1>8. CASE f \in DOMAIN n.receivers
  <2>1. Cancelled(n, f, byPeer) = MaybeStartRecv(Ended(CleanupTask(begun, f), f, "recv", "Cancelled"), {})
    BY <1>3, <1>4, <1>8 DEF Cancelled
  <2> QED BY <1>5, <1>7, <1>8, <2>1 DEF Replaces
<1>9. CASE f \notin DOMAIN n.receivers
  <2>1. f \in DOMAIN n.offers \cup DOMAIN n.recvQueued
    BY <1>9 DEF Hold
  <2>2. Cancelled(n, f, byPeer) = MaybeStartRecv(Ended(CleanupTask(queued, f), f, "recv", "Cancelled"), {})
    BY <1>3, <1>4, <1>9, <2>1 DEF Cancelled
  <2> QED BY <1>6, <1>9, <2>2 DEF Replaces
<1> QED BY <1>8, <1>9

\* neither the senders nor what is saved has changed
SameTasks(n, k) == k.senders = n.senders /\ k.saved = n.saved /\ k.source = n.source

\* A Cancel frame may go to either end.
LEMMA CancelFrameIs ==
    ASSUME NEW p \in Peers, NEW n, NEW f \in Files, <<p, f>> \in Plan \/ <<Other(p), f>> \in Plan
    PROVE  Cancels(p, n, f, CancelFrame(f)) /\ Carries(Range(CancelFrame(f)), f, "Cancel")
<1> DEFINE fr == Frame("Cancel", f, 0, 0)
<1>1. /\ <<fr>> \in Seq(Frames) /\ Range(<<fr>>) = {fr} /\ \A g : InTurn(<<fr>>, g)
      /\ fr.op = "Cancel" /\ fr.file = f /\ fr \in Frames
  <2>1. "Cancel" \in Ops /\ 0 \in 0 .. Total
    BY SlideWindowAssumption DEF Ops
  <2> QED BY <2>1, OneSaid
<1>2. CancelFrame(f) = <<fr>>
  BY DEF CancelFrame
<1> HIDE DEF fr
<1>3. IsFrame(Other(p), p, n.source, fr)
  BY <1>1 DEF IsFrame
<1> QED BY <1>1, <1>2, <1>3 DEF Cancels, Carries

\* f is over for the other end as well, or it will hear of it by new
Settled(m, f, new, c, c2) ==
    \/ /\ Carries(Range(new), f, "Cancel")
       /\ Carries(Range(c), f, "Cancel") => Carries(Range(c2), f, "Cancel")
    \/ f \in m.cancelled /\ ~Carries(Range(c2), f, "Offer")

\* A stopped file, and the next ones that get its slot.
LEMMA StopsGood ==
    ASSUME OneWay, NEW p, NEW n, NEW m, NEW c, NEW d, Good(p, n, m, c, d), NEW f \in Hold(n),
           NEW new, Cancels(p, n, f, new), NEW n0, Said(n, n0, new), NEW l, Dropping(n0, l, f),
           NEW c2, Shrinks(c, c2, f), Settled(m, f, new, c, c2)
    PROVE  LET k == MaybeStartRecv(l, {}) IN Good(p, k, m, c2, d) /\ SameTasks(n, k) /\ Drained(k)
<1> DEFINE k == MaybeStartRecv(l, {})
<1>1. Good(p, l, m, c2, d)
  BY StopGood DEF Settled
<1>2. Good(p, k, m, c2, d) /\ SameButRecv(l, k) /\ Drained(k)
  BY <1>1, MaybeStartGood
<1> HIDE DEF k
<1>3. SameTasks(n, k)
  BY <1>2 DEF SameTasks, SameButRecv, SendsAlone, Dropping, Gone, Said, Fields
<1> QED BY <1>2, <1>3 DEF k

\* abort_recv while a frame of the file is handled
LEMMA AbortGood ==
    ASSUME OneWay, NEW p, NEW n, NEW m, NEW c, NEW d, Good(p, n, m, c, d),
           c # <<>>, Head(c).op \in {"Data", "Finish"}, Head(c).file \in DOMAIN n.receivers
    PROVE  LET k == AbortRecv(Send(n, CancelFrame(Head(c).file)), Head(c).file) IN
           Good(p, k, m, Tail(c), d) /\ SameTasks(n, k) /\ Drained(k)
<1> DEFINE f == Head(c).file
           n0 == Send(n, CancelFrame(f))
<1>1. p \in Peers /\ Half(p, n) /\ Shape(n) /\ f \in Hold(n)
  BY DEF Good, Half, Hold
<1>2. f \in Files /\ Shrinks(c, Tail(c), f) /\ Range(c) = {Head(c)} \cup Range(Tail(c))
      /\ <<Other(p), f>> \in Plan
  BY HeadIs DEF IsFrame
<1>3. Cancels(p, n, f, CancelFrame(f)) /\ Carries(Range(CancelFrame(f)), f, "Cancel")
  BY <1>1, <1>2, CancelFrameIs
<1>4. Said(n, n0, CancelFrame(f))
  BY <1>1, <1>3, SendSays DEF Cancels
<1> HIDE DEF n0
<1>5. Half(p, n0) /\ f \in DOMAIN n0.receivers
  BY <1>1, <1>4, SaidHalf DEF Said, Fields
<1>6. PICK l : Dropping(n0, l, f) /\ AbortRecv(n0, f) = MaybeStartRecv(l, {})
  <2>1. f \in Hold(n0)
    BY <1>5 DEF Hold
  <2>2. TRUE \in BOOLEAN
    OBVIOUS
  <2>3. f \in DOMAIN n0.receivers => Replaces(n0, f, AbortRecv(n0, f))
    BY <1>1, <1>5, <2>1, <2>2, StopIs
  <2>4. Replaces(n0, f, AbortRecv(n0, f))
    BY <1>5, <2>3
  <2> QED BY <2>4 DEF Replaces
<1>7. Settled(m, f, CancelFrame(f), c, Tail(c))
  BY <1>2, <1>3 DEF Carries, Settled
<1> QED BY <1>1, <1>2, <1>3, <1>4, <1>6, <1>7, StopsGood DEF n0

\* cmd_cancel of a file that is held
LEMMA CancelHeldGood ==
    ASSUME OneWay, NEW p, NEW n, NEW m, NEW c, NEW d, Good(p, n, m, c, d), NEW f \in Hold(n)
    PROVE  LET k == Cancelled(Send(n, CancelFrame(f)), f, FALSE) IN
           Good(p, k, m, c, d) /\ SameTasks(n, k) /\ Drained(k)
<1> DEFINE n0 == Send(n, CancelFrame(f))
<1>1. p \in Peers /\ Half(p, n) /\ Shape(n) /\ c \in Seq(Frames) /\ RecvSide(Other(p), n)
  BY DEF Good, Half, Link
<1>2. f \in Files /\ <<Other(p), f>> \in Plan
  BY <1>1, FileTransferAssumption DEF RecvSide
<1>3. Cancels(p, n, f, CancelFrame(f)) /\ Carries(Range(CancelFrame(f)), f, "Cancel")
  BY <1>1, <1>2, CancelFrameIs
<1>4. Said(n, n0, CancelFrame(f))
  BY <1>1, <1>3, SendSays DEF Cancels
<1> HIDE DEF n0
<1>5. Half(p, n0) /\ f \in Hold(n0)
  BY <1>1, <1>4, SaidHalf DEF Said, Fields, Hold
<1>6. PICK l : Dropping(n0, l, f) /\ Cancelled(n0, f, FALSE) = MaybeStartRecv(l, {})
  BY <1>1, <1>5, StopIs DEF Replaces
<1>7. Shrinks(c, c, f) /\ Settled(m, f, CancelFrame(f), c, c)
  BY <1>1, <1>3, ShrinksNot DEF Settled
<1> QED BY <1>3, <1>4, <1>6, <1>7, StopsGood DEF n0

\* on_cancel of a file that is held: its sender has cancelled.
LEMMA PeerCancelGood ==
    ASSUME OneWay, NEW p, NEW n, NEW m, NEW c, NEW d, Good(p, n, m, c, d),
           c # <<>>, Head(c).op = "Cancel", Head(c).file \in Hold(n)
    PROVE  LET k == Cancelled(n, Head(c).file, TRUE) IN
           Good(p, k, m, Tail(c), d) /\ SameTasks(n, k) /\ Drained(k)
<1> DEFINE f == Head(c).file
<1>1. p \in Peers /\ Half(p, n) /\ Shape(n) /\ n.out \in Seq(Frames) /\ RecvSide(Other(p), n)
  BY DEF Good, Half
<1>2. /\ <<Other(p), f>> \in Plan /\ f \in Files /\ Shrinks(c, Tail(c), f) /\ Head(c) \in Range(c)
      /\ InTurn(c, f) => \A fr \in Range(Tail(c)) : fr.file = f => <<Head(c).op, fr.op>> \in Follow
  BY <1>1, HeadIs DEF RecvSide
<1>3. Said(n, n, <<>>) /\ Cancels(p, n, f, <<>>)
  BY <1>1, SaidNothing, NoFrame DEF Cancels
<1>4. PICK l : Dropping(n, l, f) /\ Cancelled(n, f, TRUE) = MaybeStartRecv(l, {})
  BY <1>1, StopIs DEF Replaces
<1>5. Line(m, n, f, d \o n.out, c) /\ InTurn(c, f)
  BY <1>2, RecvLine
<1>6. f \in m.cancelled
  BY <1>2, <1>5 DEF Line, Talk, StoppedEarly, Stopped, Idle, OfferOnItsWay, Pending, Refused,
     Accepting, Running, Done, Only
<1>7. Settled(m, f, <<>>, c, Tail(c))
  BY <1>2, <1>5, <1>6 DEF Carries, Follow, Settled
<1> QED BY <1>2, <1>3, <1>4, <1>6, <1>7, StopsGood

\* n has come to k, which has r blocks of f and says so
Counts(n, k, f, r) ==
    /\ Shape(k) /\ DOMAIN k.receivers = DOMAIN n.receivers /\ DOMAIN k.part = DOMAIN n.part
    /\ k.receivers[f] = [version |-> n.receivers[f].version, next |-> r]
    /\ k.part[f] \in Seq(Versions) /\ Len(k.part[f]) = r
    /\ \A g \in DOMAIN n.receivers \ {f} : k.receivers[g] = n.receivers[g]
    /\ \A g \in DOMAIN n.part \ {f} : k.part[g] = n.part[g]
    /\ k.out = n.out \o <<Frame("Ack", f, r - 1, 0)>>
    /\ \A x \in Fields \ {"receivers", "part", "out"} : k[x] = n[x]

\* A block that is not ahead is counted, once.
LEMMA DataIs ==
    ASSUME NEW p, NEW n, Half(p, n), NEW f \in DOMAIN n.receivers, NEW seq \in Seqs,
           NEW version \in Versions, seq <= n.receivers[f].next
    PROVE  LET r == n.receivers[f].next IN
           /\ r \in 0 .. Total
           /\ Counts(n, OnData(n, f, seq, version), f, IF seq = r THEN r + 1 ELSE r)
<1> DEFINE r == n.receivers[f].next
<1>1. /\ Shape(n) /\ r \in 0 .. Total /\ f \in DOMAIN n.part /\ n.part[f] \in Seq(Versions)
      /\ Len(n.part[f]) = r /\ n.receivers[f] = [version |-> n.receivers[f].version, next |-> r]
  BY DEF Half, RecvSide
<1>2. seq \in Nat /\ r \in Nat /\ r + 1 > r /\ ~(r + 1 = 0) /\ (r + 1) - 1 = r
  BY <1>1 DEF Seqs
<1>3. CASE seq = r
  <2> DEFINE k == OnData(n, f, seq, version)
             b == Append(n.part[f], version)
             x == Frame("Ack", f, r, 0)
  <2>1. b \in Seq(Versions) /\ Len(b) = r + 1
    BY <1>1
  <2>2. AckFrame(f, r + 1) = <<x>>
    BY <1>2 DEF AckFrame, Less1
  <2>3. k = Send([n EXCEPT !.receivers[f].next = r + 1, !.part[f] = b], <<x>>)
    BY <1>2, <1>3, <2>2 DEF OnData
  <2> HIDE DEF b, k, x
  <2>4. k = [n EXCEPT !.receivers = [n.receivers EXCEPT ![f].next = r + 1],
                      !.part = [n.part EXCEPT ![f] = b], !.out = n.out \o <<x>>]
    BY <1>1, <2>3 DEF Send, Shape, Fields
  <2> DEFINE rs == [n.receivers EXCEPT ![f].next = r + 1]
             ps == [n.part EXCEPT ![f] = b]
  <2>5. /\ IsMap(rs) /\ DOMAIN rs = DOMAIN n.receivers
        /\ rs[f] = [version |-> n.receivers[f].version, next |-> r + 1]
        /\ \A g \in DOMAIN n.receivers \ {f} : rs[g] = n.receivers[g]
    BY <1>1 DEF IsMap
  <2>6. DOMAIN ps = DOMAIN n.part /\ ps[f] = b /\ \A g \in DOMAIN n.part \ {f} : ps[g] = n.part[g]
    BY <1>1
  <2> HIDE DEF rs, ps
  <2>7. /\ Shape(k) /\ k.receivers = rs /\ k.part = ps /\ k.out = n.out \o <<x>>
        /\ \A y \in Fields \ {"receivers", "part", "out"} : k[y] = n[y]
    BY <1>1, <2>4, <2>5 DEF Shape, Fields, rs, ps
  <2>8. k.out = n.out \o <<Frame("Ack", f, (r + 1) - 1, 0)>>
    BY <1>2, <2>7 DEF x
  <2>9. Counts(n, k, f, r + 1)
    BY <2>1, <2>5, <2>6, <2>7, <2>8 DEF Counts
  <2> QED BY <1>1, <1>3, <2>9 DEF k
<1>4. CASE seq < r
  <2> DEFINE k == OnData(n, f, seq, version)
             x == Frame("Ack", f, r - 1, 0)
  <2>1. AckFrame(f, r) = <<x>>
    BY <1>2, <1>4 DEF AckFrame, Less1
  <2>2. k = Send(n, <<x>>)
    BY <1>4, <2>1 DEF OnData
  <2> HIDE DEF k, x
  <2>3. Shape(k) /\ k.out = n.out \o <<x>> /\ \A y \in Fields \ {"out"} : k[y] = n[y]
    BY <1>1, <2>2 DEF Send, Shape, Fields
  <2>4. k.receivers = n.receivers /\ k.part = n.part
    BY <2>3 DEF Fields
  <2>5. Counts(n, k, f, r)
    BY <1>1, <2>3, <2>4 DEF Counts, x
  <2>6. ~(seq = r)
    BY <1>2, <1>4
  <2> QED BY <1>1, <2>5, <2>6 DEF k
<1> QED BY <1>2, <1>3, <1>4

\* A counted block of a running transfer: the sender learns of it.
LEMMA RunsOn ==
    ASSUME NEW w, NEW r \in 0 .. Total, NEW r2, NEW f, NEW P, NEW Q, NEW Q2, NEW h, NEW a,
           Progress(w, r, f, P, Q), Q = {h} \cup Q2, w \in Senders,
           h.file = f, h.op = "Data", h.seq \in Seqs, h.seq <= r,
           r2 = IF h.seq = r THEN r + 1 ELSE r,
           a.file = f, a.op = "Ack", a.seq = r2 - 1, \A fr \in P : fr.seq \in Nat
    PROVE  r2 \in 0 .. Total /\ Progress(w, r2, f, P \cup {a}, Q2)
<1>1. /\ w.start \in 0 .. Total /\ w.next \in 0 .. Total /\ w.resume \in 0 .. Total
      /\ r \in Nat /\ Total \in Nat /\ h.seq \in Nat /\ h.seq < Total
  BY SlideWindowAssumption, PartsOfSender DEF Seqs
<1>2. /\ Steady(w) /\ r <= w.next /\ (w.start <= w.resume \/ w.start <= r)
      /\ (Carries(Q, f, "Finish") <=> AllAcked(w))
  BY DEF Progress
<1>3. h.seq < w.next
  BY DEF Progress
<1>4. r2 \in 0 .. Total /\ r2 <= w.next /\ r2 >= r /\ (w.start <= w.resume \/ w.start <= r2)
  BY <1>1, <1>2, <1>3
<1>5. Carries(Q2, f, "Finish") <=> AllAcked(w)
  BY <1>2 DEF Carries
<1>6. \A fr \in P \cup {a} : fr.file = f => fr.seq < r2
  <2>1. \A fr \in P : fr.file = f => fr.seq < r
    BY DEF Progress
  <2>2. a.seq < r2
    BY <1>4
  <2>3. r2 = r \/ (r2 = r + 1 /\ h.seq = r)
    OBVIOUS
  <2>4. CASE r2 = r
    BY <2>1, <2>2, <2>4
  <2>5. CASE r2 = r + 1
    BY <1>1, <2>1, <2>2, <2>5
  <2> QED BY <2>3, <2>4, <2>5
<1>7. \A fr \in Q2 : fr.file = f /\ fr.op = "Data" => fr.seq < w.next
  BY DEF Progress
<1>8. ASSUME w.start < Total, r2 < w.next
      PROVE  \E fr \in Q2 : fr.file = f /\ fr.op = "Data" /\ fr.seq = w.next - 1
  <2>1. r < w.next
    BY <1>1, <1>4, <1>8
  <2>2. PICK fr \in Q : fr.file = f /\ fr.op = "Data" /\ fr.seq = w.next - 1
    BY <1>8, <2>1 DEF Progress
  <2>3. h.seq # w.next - 1
    BY <1>1, <1>4, <1>8
  <2> QED BY <2>2, <2>3
<1>9. r2 > w.start => \E fr \in P \cup {a} : fr.file = f /\ fr.op = "Ack" /\ fr.seq = r2 - 1
  OBVIOUS
<1> QED BY <1>2, <1>4, <1>5, <1>6, <1>7, <1>8, <1>9 DEF Progress

\* on_data of a file at work, in order or repeated
LEMMA CountsGood ==
    ASSUME OneWay, NEW p, NEW n, NEW m, NEW c, NEW d, Good(p, n, m, c, d), Drained(n),
           c # <<>>, Head(c).op = "Data", Head(c).file \in DOMAIN n.receivers,
           Head(c).seq <= n.receivers[Head(c).file].next
    PROVE  LET k == OnData(n, Head(c).file, Head(c).seq, Head(c).version) IN
           Good(p, k, m, Tail(c), d) /\ SameTasks(n, k) /\ Drained(k)
<1> DEFINE f == Head(c).file
           h == Head(c)
           k == OnData(n, f, h.seq, h.version)
           e == d \o n.out
           P == Range(e)
           Q == Range(c)
           Q2 == Range(Tail(c))
           r == n.receivers[f].next
           r2 == IF h.seq = r THEN r + 1 ELSE r
           a == Frame("Ack", f, r2 - 1, 0)
<1>1. /\ p \in Peers /\ Half(p, n) /\ Shape(n) /\ n.out \in Seq(Frames) /\ RecvSide(Other(p), n)
      /\ Stored(Other(p), n) /\ c \in Seq(Frames) /\ e \in Seq(Frames) /\ Dated(n, m.source)
      /\ SendSide(Other(p), m)
  BY DEF Good, Half, Link
<1>2. /\ f \in Files /\ h \in Q /\ Q = {h} \cup Q2 /\ Shrinks(c, Tail(c), f)
      /\ h.seq \in Seqs /\ h.version \in Versions /\ <<Other(p), f>> \in Plan
  BY HeadIs DEF IsFrame
<1>3. r \in 0 .. Total /\ Counts(n, k, f, r2)
  BY <1>1, <1>2, DataIs
<1>4. Line(m, n, f, e, c) /\ InTurn(c, f) /\ f \in Hold(n) /\ f \notin n.cancelled
  BY <1>1, <1>2, RecvLine, Zenon DEF Hold
<1> HIDE DEF k
<1>5. /\ Shape(k) /\ DOMAIN k.receivers = DOMAIN n.receivers /\ DOMAIN k.part = DOMAIN n.part
      /\ k.receivers[f] = [version |-> n.receivers[f].version, next |-> r2]
      /\ k.part[f] \in Seq(Versions) /\ Len(k.part[f]) = r2
      /\ \A g \in DOMAIN n.receivers \ {f} : k.receivers[g] = n.receivers[g]
      /\ \A g \in DOMAIN n.part \ {f} : k.part[g] = n.part[g]
      /\ k.out = n.out \o <<a>>
  BY <1>3, Zenon DEF Counts
<1>6. /\ k.senders = n.senders /\ k.sendQueue = n.sendQueue /\ k.sendQueued = n.sendQueued
      /\ k.sendActive = n.sendActive /\ k.offered = n.offered /\ k.accepted = n.accepted
      /\ k.recvQueue = n.recvQueue /\ k.recvQueued = n.recvQueued /\ k.offers = n.offers
      /\ k.recvActive = n.recvActive /\ k.cancelled = n.cancelled
      /\ k.saved = n.saved /\ k.source = n.source /\ k.store = n.store
  BY <1>3, Zenon DEF Counts, Fields
<1>7. r2 \in 0 .. Total /\ r2 >= r /\ r2 - 1 \in Seqs
  <2>1. h.seq \in Nat /\ h.seq < Total /\ h.seq <= r /\ r \in Nat /\ Total \in Nat
    BY <1>2, <1>3, SlideWindowAssumption DEF Seqs
  <2> HIDE DEF r, h
  <2> QED BY <2>1, <1>3 DEF Seqs
<1>8. /\ <<a>> \in Seq(Frames) /\ Range(<<a>>) = {a} /\ \A g : InTurn(<<a>>, g)
      /\ a.op = "Ack" /\ a.file = f /\ a.seq = r2 - 1 /\ a \in Frames
  <2>1. "Ack" \in Ops /\ r2 - 1 \in 0 .. Total
    BY <1>7, SlideWindowAssumption DEF Ops, Seqs
  <2> HIDE DEF r2
  <2> QED BY <1>2, <2>1, OneSaid
<1> HIDE DEF a
<1>9. IsFrame(Other(p), p, n.source, a)
  BY <1>2, <1>7, <1>8 DEF IsFrame
<1>10. Hold(k) = Hold(n)
  BY <1>5, <1>6 DEF Hold
<1> HIDE DEF r2
<1>11. RecvSide(Other(p), k)
  <2>1. \A g \in DOMAIN k.part : k.part[g] \in Seq(Versions)
    BY <1>1, <1>5 DEF RecvSide
  <2>2. \A g \in DOMAIN k.receivers :
           /\ k.receivers[g] \in [version : Versions, next : 0 .. Total]
           /\ g \in DOMAIN k.part /\ Len(k.part[g]) = k.receivers[g].next
    <3>1. n.receivers[f].version \in Versions
      BY <1>1 DEF RecvSide
    <3>2. /\ k.receivers[f] \in [version : Versions, next : 0 .. Total]
          /\ f \in DOMAIN k.part /\ Len(k.part[f]) = k.receivers[f].next
      BY <1>1, <1>5, <1>7, <3>1 DEF RecvSide
    <3> QED BY <1>1, <1>5, <3>2, ZenonT(40) DEF RecvSide
  <2> QED BY <1>1, <1>5, <1>6, <1>10, <2>1, <2>2 DEF RecvSide
<1>12. Stored(Other(p), k)
  <2> SUFFICES ASSUME NEW g \in DOMAIN n.store, n.store[g].direction = "recv", g \in DOMAIN n.part
               PROVE  n.store[g].next <= Len(k.part[g])
    BY <1>1, <1>5, <1>6 DEF Stored
  <2>1. n.store[g].next <= Len(n.part[g]) /\ n.store[g].next \in Nat
    <3>1. /\ n.store[g] \in [direction : {"send", "recv"}, next : 0 .. Total]
          /\ n.store[g].next <= Len(n.part[g])
      BY <1>1 DEF Stored
    <3> QED BY <3>1
  <2>2. CASE g = f
    <3>1. Len(n.part[f]) = r
      BY <1>1 DEF RecvSide
    <3>2. r \in Nat /\ r2 \in Nat
      BY <1>3, <1>7
    <3> QED BY <1>5, <1>7, <2>1, <2>2, <3>1, <3>2
  <2>3. CASE g # f
    BY <1>5, <2>1, <2>3
  <2> QED BY <2>2, <2>3
<1>13. Dated(k, m.source) /\ \A g \in Files \ {f} : SameHolds(n, k, g)
  <2>1. k.receivers[f].version = n.receivers[f].version
    BY <1>5
  <2>2. Dated(k, m.source)
    BY <1>1, <1>5, <1>6, <2>1 DEF Dated
  <2> QED BY <1>5, <1>6, <2>2 DEF SameHolds
<1>14. Line(m, k, f, e \o <<a>>, Tail(c))
  <2>1. InTurn(Tail(c), f)
    BY <1>2, <1>4 DEF Shrinks
  <2>2. CASE f \in m.cancelled
    <3>1. Over(m, n, f, Q)
      BY <1>4, <2>2 DEF Line, Talk
    <3>2. Over(m, k, f, Q2)
      BY <1>4, <3>1, OverDrops
    <3> QED BY <2>1, <2>2, <3>2 DEF Line, Talk
  <2>3. CASE f \notin m.cancelled
    <3>1. Running(m, n, f, P, Q)
      BY <1>2, <1>4, <2>3 DEF Line, Talk, Idle, OfferOnItsWay, Pending, Refused, Accepting, Done, Only
    <3>2. Range(e \o <<a>>) = P \cup {a} /\ InTurn(e \o <<a>>, f)
      <4>1. \A x \in P, y \in Range(<<a>>) : x.file = f /\ y.file = f => <<x.op, y.op>> \in Follow
        BY <1>8, <3>1 DEF Running, Only, Follow
      <4>2. InTurn(e, f)
        BY <1>4, <2>3 DEF Line
      <4> QED BY <1>1, <1>8, <4>1, <4>2, AppendIs
    <3>3. Progress(m.senders[f].window, r2, f, P \cup {a}, Q2)
      <4>1. f \in DOMAIN m.senders
        BY <1>1, <3>1 DEF Running, SendSide
      <4>2. m.senders[f].window \in Senders
        BY <1>1, <4>1 DEF SendSide, Task, Sound
      <4>3. \A fr \in P : fr.seq \in Nat
        <5>1. \A fr \in P : fr \in Frames
          BY DEF Good, Link, IsFrame
        <5> QED BY <5>1 DEF Frames
      <4>4. Progress(m.senders[f].window, r, f, P, Q)
        BY <3>1 DEF Running
      <4>5. h.seq <= r
        OBVIOUS
      <4>6. PICK w \in Senders : w = m.senders[f].window
        BY <4>2
      <4> HIDE DEF r, h, P, Q, Q2, f
      <4>7. Progress(w, r, f, P, Q)
        BY <4>4, <4>6
      <4>8. h.op = "Data" /\ h.file = f
        BY DEF h, f
      <4>9. Progress(w, r2, f, P \cup {a}, Q2)
        BY <1>2, <1>3, <1>8, <4>3, <4>5, <4>7, <4>8, RunsOn DEF r2
      <4> QED BY <4>6, <4>9
    <3>4. HeldAt(k, f, m.senders[f].version)
      BY <1>5, <1>6, <3>1 DEF Running, HeldAt
    <3>5. Only(P \cup {a}, f, {"Ack"}) /\ Only(Q2, f, {"Data", "Finish"})
      BY <1>2, <1>8, <3>1 DEF Running, Only
    <3>6. Running(m, k, f, P \cup {a}, Q2)
      BY <1>5, <3>1, <3>3, <3>4, <3>5 DEF Running
    <3> QED BY <1>4, <1>6, <2>1, <2>3, <3>2, <3>6 DEF Line, Talk
  <2> QED BY <2>2, <2>3
<1>15. SameTasks(n, k) /\ Drained(k)
  BY <1>6 DEF SameTasks, Drained
<1>16. SendsAlone(n, k) /\ k.cancelled \subseteq n.cancelled \cup {f}
  BY <1>6 DEF SendsAlone
<1>17. \A x \in Range(<<a>>) : x.file = f /\ IsFrame(Other(p), p, n.source, x)
  BY <1>8, <1>9
<1>18. Good(p, k, m, Tail(c), d)
  BY <1>2, <1>5, <1>8, <1>11, <1>12, <1>13, <1>14, <1>16, <1>17, RecvStep
<1> QED BY <1>15, <1>18 DEF k

\* on_data
LEMMA DataGood ==
    ASSUME OneWay, NEW p, NEW n, NEW m, NEW c, NEW d, Good(p, n, m, c, d), Drained(n),
           c # <<>>, Head(c).op = "Data", Head(c).file \notin n.cancelled
    PROVE  LET k == OnData(n, Head(c).file, Head(c).seq, Head(c).version) IN
           Good(p, k, m, Tail(c), d) /\ SameTasks(n, k) /\ Drained(k)
<1> DEFINE f == Head(c).file
           k == OnData(n, f, Head(c).seq, Head(c).version)
<1>1. <<Other(p), f>> \in Plan /\ Head(c) \in Range(c) /\ Head(c).seq \in Seqs
  BY HeadIs DEF IsFrame
<1>2. CASE f \notin DOMAIN n.receivers
  <2>1. k = n
    BY <1>2 DEF OnData
  <2>2. Line(m, n, f, d \o n.out, c)
    BY <1>1, RecvLine
  <2>3. f \in m.cancelled
    BY <1>1, <1>2, <2>2 DEF Line, Talk, Idle, OfferOnItsWay, Pending, Refused, Accepting,
       Running, Done, Only
  <2>4. Good(p, n, m, Tail(c), d)
    BY <1>1, <2>3, OverDrop
  <2> QED BY <2>1, <2>4 DEF SameTasks
<1>3. CASE f \in DOMAIN n.receivers /\ Head(c).seq <= n.receivers[f].next
  BY <1>3, CountsGood
<1>4. CASE f \in DOMAIN n.receivers /\ ~(Head(c).seq <= n.receivers[f].next)
  <2>1. k = AbortRecv(Send(n, CancelFrame(f)), f)
    <3>1. n.receivers[f].next \in Nat /\ Head(c).seq \in Nat
      BY <1>1, <1>4 DEF Good, Half, RecvSide, Seqs
    <3> QED BY <1>4, <3>1 DEF OnData
  <2> QED BY <1>4, <2>1, AbortGood
<1> QED BY <1>2, <1>3, <1>4

\* a copy of a file that is of one version throughout
Whole(v) == [i \in 1 .. Total |-> v]

\* n has come to k, which has saved what it had received of f, and says so
Completes(n, k, f) ==
    /\ Gone(n, k, f) /\ k.cancelled = n.cancelled
    /\ k.saved = [n.saved EXCEPT ![f] = n.saved[f] \cup {Whole(n.receivers[f].version)}]
    /\ k.out = n.out \o <<Frame("FinishAck", f, 0, 0)>>

\* What is verified is the whole file as it was offered.
LEMMA VerifiedIs ==
    ASSUME NEW p, NEW n, Half(p, n), NEW f \in DOMAIN n.receivers, Verified(n, f)
    PROVE  /\ n.part[f] = Whole(n.receivers[f].version) /\ n.part[f] \in Seq(Versions)
           /\ n.receivers[f].version \in Versions
<1>1. /\ n.part[f] \in Seq(Versions) /\ n.receivers[f].version \in Versions
      /\ Len(n.part[f]) = n.receivers[f].next /\ n.receivers[f].next \in 0 .. Total
  BY DEF Half, RecvSide
<1>2. n.receivers[f].next = Total
  BY <1>1, SlideWindowAssumption DEF Verified
<1>3. PICK b \in Seq(Versions) : b = n.part[f]
  BY <1>1
<1>4. Len(b) = Total /\ b \in [1 .. Total -> Versions]
  BY <1>1, <1>2, <1>3
<1>5. \A i \in 1 .. Total : b[i] = n.receivers[f].version
  BY <1>3 DEF Verified
<1>6. b = Whole(n.receivers[f].version)
  BY <1>4, <1>5 DEF Whole
<1> QED BY <1>1, <1>3, <1>6

\* The main step of on_finish.
LEMMA CompletesIs ==
    ASSUME OneWay, NEW p \in Peers, NEW n, Half(p, n), NEW f \in DOMAIN n.receivers, Verified(n, f)
    PROVE  Completes(n, Ended(FreeRecvSlot(CleanupTask(Forget(DropPart(
                 Send([n EXCEPT !.saved[f] = @ \cup {n.part[f]}], <<Frame("FinishAck", f, 0, 0)>>),
                 f), f), f)), f, "recv", "Completed"), f)
<1> DEFINE fin == <<Frame("FinishAck", f, 0, 0)>>
           x == Forget(DropPart(Send([n EXCEPT !.saved[f] = @ \cup {n.part[f]}], fin), f), f)
           k == Ended(FreeRecvSlot(CleanupTask(x, f)), f, "recv", "Completed")
           saved == [n.saved EXCEPT ![f] = n.saved[f] \cup {n.part[f]}]
           store == Without(n.store, f)
           part == Without(n.part, f)
           out == n.out \o fin
           l == [n EXCEPT !.saved = saved, !.out = out, !.part = part, !.store = store,
                          !.recvActive = Less1(n.recvActive)]
<1>1. /\ Shape(n) /\ RecvSide(Other(p), n) /\ n.part[f] = Whole(n.receivers[f].version)
      /\ n.part[f] \in Seq(Versions) /\ n.saved \in [Files -> SUBSET Seq(Versions)]
  BY VerifiedIs DEF Half, RecvSide
<1>2. f \in Files /\ <<Other(p), f>> \in Plan
  BY <1>1, FileTransferAssumption DEF RecvSide, Hold
<1>3. x = [n EXCEPT !.saved = saved, !.out = out, !.part = part, !.store = store]
  BY <1>1 DEF Forget, DropPart, Send, Shape, Fields
<1> HIDE DEF x, saved, store, part, out, fin
<1>4. Shape(x) /\ Shape(l) /\ FreeRecvSlot(x) = l
  BY <1>1, <1>3 DEF FreeRecvSlot, Shape, Fields
<1>5. FreeRecvSlot(CleanupTask(x, f)) = CleanupTask(FreeRecvSlot(x), f)
  <2> HIDE DEF l
  <2>1. PICK a : a = Less1(x.recvActive)
    OBVIOUS
  <2>2. FreeRecvSlot(x) = [x EXCEPT !.recvActive = a]
    BY <1>4, <2>1 DEF FreeRecvSlot, Shape, Fields
  <2>3. DOMAIN CleanupTask(x, f) = Fields /\ CleanupTask(x, f).recvActive = x.recvActive
    BY <1>4 DEF CleanupTask, Shape, Fields
  <2>4. FreeRecvSlot(CleanupTask(x, f)) = [CleanupTask(x, f) EXCEPT !.recvActive = a]
    BY <2>1, <2>3 DEF FreeRecvSlot, Fields
  <2> DEFINE y == [x EXCEPT !.recvActive = a]
             s0 == Without(x.senders, f)
             u == x.sendQueued \ {f}
             v == x.offered \ {f}
             w == x.accepted \ {f}
             rs == Without(x.receivers, f)
             rq == Without(x.recvQueued, f)
             os == Without(x.offers, f)
  <2>5. CleanupTask(x, f) = [x EXCEPT !.senders = s0, !.sendQueued = u, !.offered = v, !.accepted = w,
                                      !.receivers = rs, !.recvQueued = rq, !.offers = os]
    BY DEF CleanupTask
  <2>6. CleanupTask(y, f) = [y EXCEPT !.senders = s0, !.sendQueued = u, !.offered = v, !.accepted = w,
                                      !.receivers = rs, !.recvQueued = rq, !.offers = os]
    BY <1>4 DEF CleanupTask, Shape, Fields
  <2> HIDE DEF s0, u, v, w, rs, rq, os
  <2>7. [CleanupTask(x, f) EXCEPT !.recvActive = a] = CleanupTask(y, f)
    BY <1>4, <2>5, <2>6, ZenonT(40) DEF Shape, Fields
  <2> QED BY <2>2, <2>4, <2>7
<1>6. Cleaned(l, k, f, "recv", "Completed")
  <2>1. k = Ended(CleanupTask(l, f), f, "recv", "Completed")
    BY <1>4, <1>5
  <2> HIDE DEF l, k
  <2> QED BY <1>4, <2>1, CleanedIs
<1>7. /\ l.saved = saved /\ l.out = out /\ l.part = part /\ l.store = store
      /\ l.recvActive = Less1(n.recvActive) /\ l.cancelled = n.cancelled
      /\ l.offers = n.offers /\ l.recvQueued = n.recvQueued /\ l.receivers = n.receivers
      /\ l.recvQueue = n.recvQueue
      /\ l.senders = n.senders /\ l.sendQueue = n.sendQueue /\ l.sendQueued = n.sendQueued
      /\ l.sendActive = n.sendActive /\ l.offered = n.offered /\ l.accepted = n.accepted
      /\ l.source = n.source
  BY <1>1 DEF Shape, Fields
<1> HIDE DEF l, k
<1>8. SendsAlone(n, l)
  BY <1>7 DEF SendsAlone
<1>9. SendsAlone(n, k)
  BY <1>2, <1>4, <1>6, <1>8, CleanedRecv
<1>10. DOMAIN k.store \subseteq DOMAIN n.store /\ \A g \in DOMAIN k.store : k.store[g] = n.store[g]
  <2>1. PICK y : y = n.store
    OBVIOUS
  <2>2. DOMAIN Without(y, f) = DOMAIN y \ {f} /\ \A g \in DOMAIN y \ {f} : Without(y, f)[g] = y[g]
    BY WithoutIs
  <2>3. k.store = Without(y, f)
    BY <1>6, <1>7, <2>1 DEF Cleaned, store
  <2> QED BY <2>1, <2>2, <2>3
<1>11. /\ saved \in [Files -> SUBSET Seq(Versions)] /\ \A g \in Files : n.saved[g] \subseteq saved[g]
       /\ saved = [n.saved EXCEPT ![f] = n.saved[f] \cup {Whole(n.receivers[f].version)}]
  BY <1>1, <1>2 DEF saved
<1>12. /\ Shape(k) /\ k.offers = Without(n.offers, f) /\ k.recvQueued = Without(n.recvQueued, f)
       /\ k.receivers = Without(n.receivers, f) /\ k.recvQueue = n.recvQueue
       /\ k.recvActive = Less1(n.recvActive) /\ k.part = Without(n.part, f) /\ k.out = out
       /\ k.saved = saved /\ k.cancelled = n.cancelled
  BY <1>6, <1>7 DEF Cleaned, part
<1>13. n.recvQueue \in Seq(Files)
  BY <1>1 DEF RecvSide
<1>14. Gone(n, k, f)
  BY <1>9, <1>10, <1>11, <1>12, <1>13 DEF Gone
<1> QED BY <1>11, <1>12, <1>14 DEF Completes, k, x, fin, out

\* The file is saved: its sender, if it has not cancelled, will hear of it.
LEMMA CompleteGood ==
    ASSUME OneWay, NEW p, NEW n, NEW m, NEW c, NEW d, Good(p, n, m, c, d),
           c # <<>>, Head(c).op = "Finish", Head(c).file \in DOMAIN n.receivers,
           NEW k, Completes(n, k, Head(c).file)
    PROVE  Good(p, k, m, Tail(c), d)
<1> DEFINE f == Head(c).file
           e == d \o n.out
           P == Range(e)
           Q == Range(c)
           Q2 == Range(Tail(c))
           fr == Frame("FinishAck", f, 0, 0)
<1>1. /\ p \in Peers /\ Half(p, n) /\ n.out \in Seq(Frames)
      /\ e \in Seq(Frames) /\ Dated(n, m.source) /\ n.saved \in [Files -> SUBSET Seq(Versions)]
  BY DEF Good, Half, Link, RecvSide
<1>2. /\ f \in Files /\ Head(c) \in Q /\ Q = {Head(c)} \cup Q2 /\ Shrinks(c, Tail(c), f)
      /\ <<Other(p), f>> \in Plan
      /\ InTurn(c, f) => \A x \in Q2 : x.file = f => <<"Finish", x.op>> \in Follow
  BY HeadIs DEF IsFrame
<1>3. Line(m, n, f, e, c) /\ InTurn(c, f) /\ f \in Hold(n) /\ f \notin n.cancelled
  BY <1>1, <1>2, RecvLine DEF Hold
<1>4. /\ <<fr>> \in Seq(Frames) /\ Range(<<fr>>) = {fr} /\ \A g : InTurn(<<fr>>, g)
      /\ fr.op = "FinishAck" /\ fr.file = f /\ fr \in Frames
  <2>1. "FinishAck" \in Ops /\ 0 \in 0 .. Total
    BY SlideWindowAssumption DEF Ops
  <2> QED BY <1>2, <2>1, OneSaid
<1>5. k.out = n.out \o <<fr>> /\ Gone(n, k, f) /\ k.cancelled = n.cancelled
  BY DEF Completes
<1> HIDE DEF fr
<1>6. \A x \in Range(<<fr>>) : x.file = f /\ IsFrame(Other(p), p, n.source, x)
  BY <1>2, <1>4 DEF IsFrame
<1>7. LeavesRecv(p, n, k, f) /\ Shape(k) /\ SendsAlone(n, k)
  BY <1>1, <1>5, GoneLeaves DEF Gone
<1>8. /\ RecvSide(Other(p), k) /\ Stored(Other(p), k) /\ f \notin Hold(k)
      /\ \A g \in Files \ {f} : SameHolds(n, k, g)
      /\ Dated(k, m.source)
  BY <1>1, <1>7 DEF LeavesRecv
<1>9. Line(m, k, f, e \o <<fr>>, Tail(c))
  <2>1. InTurn(Tail(c), f)
    BY <1>2, <1>3 DEF Shrinks
  <2>2. CASE f \in m.cancelled
    <3>1. Over(m, n, f, Q)
      BY <1>3, <2>2 DEF Line, Talk
    <3>2. Over(m, k, f, Q2)
      BY <1>3, <1>8, <3>1, OverDrops
    <3> QED BY <2>1, <2>2, <3>2 DEF Line, Talk
  <2>3. CASE f \notin m.cancelled
    <3>1. Running(m, n, f, P, Q)
      BY <1>2, <1>3, <2>3 DEF Line, Talk, Idle, OfferOnItsWay, Pending, Refused, Accepting, Done, Only
    <3>2. Range(e \o <<fr>>) = P \cup {fr} /\ InTurn(e \o <<fr>>, f)
      <4>1. \A x \in P, y \in Range(<<fr>>) : x.file = f /\ y.file = f => <<x.op, y.op>> \in Follow
        BY <1>4, <3>1 DEF Running, Only, Follow
      <4>2. InTurn(e, f)
        BY <1>3, <2>3 DEF Line
      <4> QED BY <1>1, <1>4, <4>1, <4>2, AppendIs
    <3>3. AllAcked(m.senders[f].window)
      <4>1. Carries(Q, f, "Finish")
        BY <1>2 DEF Carries
      <4> QED BY <3>1, <4>1, Zenon DEF Running, Progress
    <3>4. Only(P \cup {fr}, f, {"Ack", "FinishAck"}) /\ Carries(P \cup {fr}, f, "FinishAck")
      BY <1>4, <3>1 DEF Running, Only, Carries
    <3>5. Only(Q2, f, {})
      BY <1>2, <1>3, <3>1 DEF Running, Only, Follow
    <3>6. [i \in 1 .. Total |-> m.senders[f].version] \in k.saved[f]
      <4>1. n.receivers[f].version = m.senders[f].version
        BY <3>1 DEF Running, HeldAt
      <4>2. Whole(n.receivers[f].version) \in k.saved[f]
        <5>1. k.saved = [n.saved EXCEPT ![f] = n.saved[f] \cup {Whole(n.receivers[f].version)}]
          BY DEF Completes
        <5> HIDE DEF f
        <5> QED BY <1>1, <1>2, <5>1
      <4> QED BY <4>1, <4>2 DEF Whole
    <3>7. Done(m, k, f, P \cup {fr}, Q2)
      BY <1>8, <3>1, <3>3, <3>4, <3>5, <3>6 DEF Running, Done
    <3> QED BY <1>3, <1>5, <2>1, <2>3, <3>2, <3>7 DEF Line, Talk
  <2> QED BY <2>2, <2>3
<1>10. k.cancelled \subseteq n.cancelled \cup {f}
  BY <1>5
<1> QED BY <1>2, <1>4, <1>5, <1>6, <1>7, <1>8, <1>9, <1>10, RecvStep

\* what on_finish saves is the whole file of a version the other end has had
Saves(n, k, f) ==
    /\ f \in DOMAIN n.receivers
    /\ k.saved = [n.saved EXCEPT ![f] = n.saved[f] \cup {Whole(n.receivers[f].version)}]

\* on_finish
LEMMA FinishGood ==
    ASSUME OneWay, NEW p, NEW n, NEW m, NEW c, NEW d, Good(p, n, m, c, d), Drained(n),
           c # <<>>, Head(c).op = "Finish", Head(c).file \notin n.cancelled
    PROVE  LET k == OnFinish(n, Head(c).file) IN
           /\ Good(p, k, m, Tail(c), d) /\ Drained(k) /\ k.senders = n.senders /\ k.source = n.source
           /\ k.saved = n.saved \/ Saves(n, k, Head(c).file)
<1> DEFINE f == Head(c).file
           k == OnFinish(n, f)
<1>1. <<Other(p), f>> \in Plan /\ Head(c) \in Range(c) /\ p \in Peers /\ Half(p, n) /\ Shape(n)
  BY HeadIs DEF IsFrame, Good, Half
<1>2. CASE f \notin DOMAIN n.receivers
  <2>1. Line(m, n, f, d \o n.out, c)
    BY <1>1, RecvLine
  <2>2. f \in m.cancelled
    BY <1>1, <1>2, <2>1 DEF Line, Talk, Idle, OfferOnItsWay, Pending, Refused, Accepting,
       Running, Done, Only
  <2> DEFINE l == Send(n, <<Frame("FinishAck", f, 0, 0)>>)
  <2>3. Good(p, l, m, Tail(c), d) /\ SameButRecv(n, l)
    BY <1>1, <2>2, OverSays
  <2>4. Drained(l) /\ k = l
    BY <1>1, <1>2 DEF OnFinish, Drained, Send, Shape, Fields
  <2> HIDE DEF l, k
  <2>5. k.senders = n.senders /\ k.saved = n.saved /\ k.source = n.source
    BY <2>3, <2>4 DEF SameButRecv, SendsAlone
  <2> QED BY <2>3, <2>4, <2>5 DEF k
<1>3. CASE f \in DOMAIN n.receivers /\ ~Verified(n, f)
  <2>1. k = AbortRecv(Send(n, CancelFrame(f)), f)
    BY <1>3 DEF OnFinish
  <2> QED BY <1>3, <2>1, AbortGood DEF SameTasks
<1>4. CASE f \in DOMAIN n.receivers /\ Verified(n, f)
  <2> DEFINE l == Ended(FreeRecvSlot(CleanupTask(Forget(DropPart(
                 Send([n EXCEPT !.saved[f] = @ \cup {n.part[f]}], <<Frame("FinishAck", f, 0, 0)>>),
                 f), f), f)), f, "recv", "Completed")
  <2>1. k = MaybeStartRecv(l, {})
    BY <1>4 DEF OnFinish
  <2>2. Completes(n, l, f)
    BY <1>1, <1>4, CompletesIs
  <2> HIDE DEF l, k
  <2>3. Good(p, l, m, Tail(c), d)
    BY <1>4, <2>2, CompleteGood
  <2>4. Good(p, k, m, Tail(c), d) /\ SameButRecv(l, k) /\ Drained(k)
    BY <2>1, <2>3, MaybeStartGood
  <2>5. k.senders = n.senders /\ k.source = n.source /\ Saves(n, k, f)
    BY <1>4, <2>2, <2>4 DEF SameButRecv, SendsAlone, Completes, Gone, Saves
  <2> QED BY <2>4, <2>5 DEF k
<1> QED BY <1>2, <1>3, <1>4

-----------------------------------------------------------------------------
(* The handlers, all of them. *)

\* nothing is saved but whole files, and nothing completes that is not saved
Keeps(n, k) ==
    /\ k.source = n.source
    /\ k.saved = n.saved \/ \E f \in Files : Saves(n, k, f)
Completed(n, k, m) ==
    \A f \in DOMAIN n.senders :
        f \notin DOMAIN k.senders /\ f \in DOMAIN k.finished /\ k.finished[f] = <<"send", "Completed">>
            => Whole(n.senders[f].version) \in m.saved[f]

\* the handler has turned n into k
Handled(p, n, k, m, c2, d) ==
    Good(p, k, m, c2, d) /\ Drained(k) /\ Keeps(n, k) /\ Completed(n, k, m)

\* A handler of the sending side that ends no task.
LEMMA HandledSends ==
    ASSUME NEW p, NEW n, NEW k, NEW m, NEW c2, NEW d, Good(p, k, m, c2, d), Drained(n), SameRecv(n, k)
    PROVE  Handled(p, n, k, m, c2, d)
BY DEF Handled, SameRecv, Drained, Keeps, Completed

\* A handler of the receiving side that saves nothing.
LEMMA HandledHolds ==
    ASSUME NEW p, NEW n, NEW k, NEW m, NEW c2, NEW d, Good(p, k, m, c2, d), Drained(k),
           SameButRecv(n, k) \/ SameTasks(n, k)
    PROVE  Handled(p, n, k, m, c2, d)
<1>1. k.senders = n.senders /\ k.saved = n.saved /\ k.source = n.source
  BY DEF SameButRecv, SameTasks, SendsAlone
<1> QED BY <1>1 DEF Handled, Keeps, Completed

\* A task of the sending side ends.
LEMMA HandledEnds ==
    ASSUME NEW p, NEW n, NEW k, NEW m, NEW c2, NEW d, Good(p, k, m, c2, d), Drained(n), NEW f, NEW how,
           SenderEnded(n, k, f, how),
           how = "Completed" => Whole(n.senders[f].version) \in m.saved[f]
    PROVE  Handled(p, n, k, m, c2, d)
<1>0. /\ k.recvQueue = n.recvQueue /\ k.recvActive = n.recvActive
      /\ k.saved = n.saved /\ k.source = n.source
      /\ k.senders = Without(n.senders, f) /\ k.finished = With(n.finished, f, <<"send", how>>)
  BY DEF SenderEnded
<1>1. DOMAIN k.senders = DOMAIN n.senders \ {f}
  <2>1. PICK x : x = n.senders
    OBVIOUS
  <2>2. DOMAIN Without(x, f) = DOMAIN x \ {f}
    BY WithoutIs
  <2> QED BY <1>0, <2>1, <2>2
<1>2. k.finished[f] = <<"send", how>>
  <2>1. PICK x : x = n.finished
    OBVIOUS
  <2>2. With(x, f, <<"send", how>>)[f] = <<"send", how>>
    BY DEF With
  <2> QED BY <1>0, <2>1, <2>2
<1>3. Completed(n, k, m)
  <2> SUFFICES ASSUME NEW g \in DOMAIN n.senders, g \notin DOMAIN k.senders, g \in DOMAIN k.finished,
                      k.finished[g] = <<"send", "Completed">>
               PROVE  Whole(n.senders[g].version) \in m.saved[g]
    BY DEF Completed
  <2>1. g = f
    BY <1>1
  <2>2. how = "Completed"
    BY <1>2, <2>1
  <2> QED BY <2>1, <2>2
<1> QED BY <1>0, <1>3 DEF Handled, Drained, Keeps

\* on_accept and on_ack are about the sending side.
LEMMA AnswersKeep ==
    ASSUME NEW n, Shape(n), NEW f, NEW r
    PROVE  SameRecv(n, OnAcceptFrame(n, f, r)) /\ SameRecv(n, OnAckFrame(n, f, r))
<1>1. ASSUME NEW x, Shape(x), SameRecv(n, x) PROVE SameRecv(n, Fill(x, f))
  <2> DEFINE w == x.senders[f].window
             out == [i \in 1 .. Len(Ascending(Sendable(w))) |-> Frame("Data", f, Ascending(Sendable(w))[i], x.source[f])]
             v == FillWindow(w)
  <2>1. Fill(x, f) = IF f \notin x.accepted THEN x ELSE Send([x EXCEPT !.senders[f].window = v], out)
    BY DEF Fill
  <2> HIDE DEF w, out, v
  <2> QED BY <1>1, <2>1 DEF Send, Shape, Fields, SameRecv
<1>2. SameRecv(n, n)
  BY DEF SameRecv
<1>3. CASE f \notin DOMAIN n.senders
  BY <1>2, <1>3 DEF OnAcceptFrame, OnAckFrame
<1>4. CASE f \in DOMAIN n.senders
  <2>1. SameRecv(n, OnAcceptFrame(n, f, r))
    <3> DEFINE w == OnAccept(n.senders[f].window, r)
               x == [n EXCEPT !.senders[f].window = w, !.accepted = @ \cup {f}]
    <3>1. OnAcceptFrame(n, f, r) = IF AllAcked(w) THEN Send(x, FinishFrame(f)) ELSE Fill(x, f)
      BY <1>4 DEF OnAcceptFrame
    <3> HIDE DEF w
    <3>2. Shape(x) /\ SameRecv(n, x)
      <4>1. PICK s0 : s0 = [n.senders EXCEPT ![f].window = w]
        OBVIOUS
      <4>2. IsMap(s0) /\ DOMAIN s0 = DOMAIN n.senders
        BY <1>4, <4>1 DEF Shape, IsMap
      <4>3. x = [n EXCEPT !.senders = s0, !.accepted = n.accepted \cup {f}]
        BY <4>1 DEF Shape, Fields
      <4> HIDE DEF x
      <4> QED BY <4>2, <4>3 DEF Shape, Fields, SameRecv
    <3> HIDE DEF x
    <3>3. SameRecv(n, Send(x, FinishFrame(f)))
      BY <3>2 DEF Send, Shape, Fields, SameRecv
    <3> QED BY <1>1, <3>1, <3>2, <3>3
  <2>2. SameRecv(n, OnAckFrame(n, f, r))
    <3> DEFINE w == OnAck(n.senders[f].window, r)
               x == [n EXCEPT !.senders[f].window = w]
               y == IF AllAcked(w) /\ ~AllAcked(n.senders[f].window) THEN Send(x, FinishFrame(f)) ELSE x
    <3>1. OnAckFrame(n, f, r) = Fill(y, f)
      BY <1>4 DEF OnAckFrame
    <3> HIDE DEF w
    <3>2. Shape(x) /\ SameRecv(n, x)
      <4>1. PICK s0 : s0 = [n.senders EXCEPT ![f].window = w]
        OBVIOUS
      <4>2. IsMap(s0) /\ DOMAIN s0 = DOMAIN n.senders
        BY <1>4, <4>1 DEF Shape, IsMap
      <4>3. x = [n EXCEPT !.senders = s0]
        BY <4>1 DEF Shape, Fields
      <4> HIDE DEF x
      <4> QED BY <4>2, <4>3 DEF Shape, Fields, SameRecv
    <3> HIDE DEF x
    <3>3. Shape(Send(x, FinishFrame(f))) /\ SameRecv(n, Send(x, FinishFrame(f)))
      BY <3>2 DEF Send, Shape, Fields, SameRecv
    <3>4. Shape(y) /\ SameRecv(n, y)
      BY <3>2, <3>3
    <3> HIDE DEF y
    <3> QED BY <1>1, <3>1, <3>4
  <2> QED BY <2>1, <2>2
<1> QED BY <1>3, <1>4

\* on_cancel
LEMMA CancelFrameGood ==
    ASSUME OneWay, NEW p, NEW n, NEW m, NEW c, NEW d, Good(p, n, m, c, d), Drained(n),
           c # <<>>, Head(c).op = "Cancel", Head(c).file \notin n.cancelled
    PROVE  Handled(p, n, Cancelled(n, Head(c).file, TRUE), m, Tail(c), d)
<1> DEFINE f == Head(c).file
           k == Cancelled(n, f, TRUE)
           e == d \o n.out
<1>1. /\ p \in Peers /\ Shape(n) /\ n.out \in Seq(Frames) /\ SendSide(p, n) /\ RecvSide(Other(p), n)
      /\ \A g \in Files : <<p, g>> \in Plan => Line(n, m, g, c, e)
  BY DEF Good, Half, Link
<1>2. /\ f \in Files /\ Head(c) \in Range(c) /\ Shrinks(c, Tail(c), f)
      /\ <<p, f>> \in Plan \/ <<Other(p), f>> \in Plan
  BY HeadIs DEF IsFrame
<1>3. CASE f \in DOMAIN n.senders
  <2>1. <<p, f>> \in Plan
    BY <1>1, <1>3 DEF SendSide, Task
  <2>2. Talk(n, m, f, Range(c), Range(e))
    BY <1>1, <1>2, <2>1 DEF Line
  <2>3. StoppedEarly(n, m, f, Range(c), Range(e)) \/ Stopped(n, m, f, Range(c), Range(e))
    BY <1>2, <2>2 DEF Talk, Idle, OfferOnItsWay, Pending, Refused, Accepting, Running, Done, Only
  <2>4. Heard(m, f, <<>>, e)
    BY <2>3 DEF StoppedEarly, Stopped, Only, Carries, Heard
  <2>5. Said(n, n, <<>>) /\ Cancels(p, n, f, <<>>) /\ TRUE \in BOOLEAN
    BY <1>1, SaidNothing, NoFrame DEF Cancels
  <2> HIDE DEF k
  <2>6. Good(p, k, m, Tail(c), d) /\ SenderEnded(n, k, f, "Cancelled")
    BY <1>2, <1>3, <2>4, <2>5, CancelSendGood DEF k
  <2>7. Handled(p, n, k, m, Tail(c), d)
    BY <2>6, HandledEnds
  <2> QED BY <2>7 DEF k
<1>4. CASE f \in Hold(n)
  BY <1>4, PeerCancelGood, HandledHolds
<1>5. CASE f \notin DOMAIN n.senders /\ f \notin Hold(n)
  <2>1. k = n
    BY <1>5 DEF Cancelled, Hold
  <2>2. <<p, f>> \notin Plan
    <3> SUFFICES ASSUME <<p, f>> \in Plan PROVE FALSE
      OBVIOUS
    <3>1. f \notin n.offered /\ f \notin n.accepted
      BY <1>1, <1>5 DEF SendSide
    <3>2. Talk(n, m, f, Range(c), Range(e))
      BY <1>1, <1>2 DEF Line
    <3> QED BY <1>2, <3>1, <3>2, Zenon DEF Talk, Idle, OfferOnItsWay, Pending, Refused, Accepting, Running,
               Done, Only, StoppedEarly, Stopped, Asked
  <2>3. <<Other(p), f>> \in Plan
    BY <1>2, <2>2
  <2>4. Line(m, n, f, e, c)
    BY <2>3, RecvLine
  <2>5. f \in m.cancelled
    BY <1>2, <2>4, Zenon DEF Line, Talk, StoppedEarly, Stopped, Idle, OfferOnItsWay, Pending, Refused,
       Accepting, Running, Done, Only
  <2>6. Good(p, n, m, Tail(c), d)
    BY <1>5, <2>3, <2>5, OverDrop
  <2>7. SameTasks(n, n)
    BY DEF SameTasks
  <2> QED BY <2>1, <2>6, <2>7, HandledHolds
<1> QED BY <1>3, <1>4, <1>5

\* handle_frame
LEMMA HandleGood ==
    ASSUME OneWay, NEW p, NEW n, NEW m, NEW c, NEW d, Good(p, n, m, c, d), Drained(n), c # <<>>
    PROVE  Handled(p, n, HandleFrame(n, Head(c)), m, Tail(c), d)
<1> DEFINE f == Head(c).file
           k == HandleFrame(n, Head(c))
<1>1. Shape(n) /\ Head(c).op \in Ops /\ f \in Files
  BY HeadIs DEF Good, Half, IsFrame, Frames
<1>2. CASE f \in n.cancelled
  <2>1. k = n
    BY <1>2 DEF HandleFrame
  <2>2. Good(p, n, m, Tail(c), d)
    BY <1>2, CancelledDrop
  <2>3. SameTasks(n, n)
    BY DEF SameTasks
  <2> QED BY <2>1, <2>2, <2>3, HandledHolds
<1>3. ASSUME f \notin n.cancelled, Head(c).op = "Offer" PROVE Handled(p, n, k, m, Tail(c), d)
  <2>1. k = OnOffer(n, f, Head(c).version)
    BY <1>3 DEF HandleFrame
  <2> QED BY <1>3, <2>1, OfferGood, HandledHolds
<1>4. ASSUME f \notin n.cancelled, Head(c).op = "Accept" PROVE Handled(p, n, k, m, Tail(c), d)
  <2>1. k = OnAcceptFrame(n, f, Head(c).seq)
    BY <1>3, <1>4 DEF HandleFrame
  <2> QED BY <1>1, <1>4, <2>1, AcceptGood, AnswersKeep, HandledSends
<1>5. ASSUME f \notin n.cancelled, Head(c).op = "Data" PROVE Handled(p, n, k, m, Tail(c), d)
  <2>1. k = OnData(n, f, Head(c).seq, Head(c).version)
    BY <1>5 DEF HandleFrame
  <2> QED BY <1>5, <2>1, DataGood, HandledHolds
<1>6. ASSUME f \notin n.cancelled, Head(c).op = "Ack" PROVE Handled(p, n, k, m, Tail(c), d)
  <2>1. k = OnAckFrame(n, f, Head(c).seq)
    BY <1>6 DEF HandleFrame
  <2> QED BY <1>1, <1>6, <2>1, AckGood, AnswersKeep, HandledSends
<1>7. ASSUME f \notin n.cancelled, Head(c).op = "Finish" PROVE Handled(p, n, k, m, Tail(c), d)
  <2>1. k = OnFinish(n, f)
    BY <1>7 DEF HandleFrame
  <2>2. /\ Good(p, k, m, Tail(c), d) /\ Drained(k) /\ k.senders = n.senders
        /\ k.source = n.source /\ (k.saved = n.saved \/ Saves(n, k, f))
    BY <1>7, <2>1, FinishGood
  <2> HIDE DEF k
  <2> QED BY <1>1, <2>2 DEF Handled, Keeps, Completed
<1>8. ASSUME f \notin n.cancelled, Head(c).op \in {"FinishAck", "Reject"}
      PROVE  Handled(p, n, k, m, Tail(c), d)
  <2> DEFINE how == IF Head(c).op = "FinishAck" THEN "Completed" ELSE "Failed"
  <2>1. k = SendEnds(n, f, how)
    BY <1>8 DEF HandleFrame
  <2>2. how = "Completed" => Head(c).op = "FinishAck"
    OBVIOUS
  <2> HIDE DEF k, how
  <2>3. /\ Good(p, k, m, Tail(c), d) /\ SenderEnded(n, k, f, how)
        /\ Head(c).op = "FinishAck" => [i \in 1 .. Total |-> n.senders[f].version] \in m.saved[f]
    BY <1>8, <2>1, EndsGood
  <2>4. how = "Completed" => Whole(n.senders[f].version) \in m.saved[f]
    BY <2>2, <2>3 DEF Whole
  <2>5. Handled(p, n, k, m, Tail(c), d)
    BY <2>3, <2>4, HandledEnds
  <2> QED BY <2>5 DEF k
<1>9. ASSUME f \notin n.cancelled, Head(c).op = "Cancel" PROVE Handled(p, n, k, m, Tail(c), d)
  <2>1. k = Cancelled(n, f, TRUE)
    BY <1>9 DEF HandleFrame
  <2> QED BY <1>9, <2>1, CancelFrameGood
<1> QED BY <1>1, <1>2, <1>3, <1>4, <1>5, <1>6, <1>7, <1>8, <1>9 DEF Ops

\* on_tick
LEMMA TickHandled ==
    ASSUME OneWay, NEW p, NEW n, NEW m, NEW c, NEW d, Good(p, n, m, c, d), Drained(n),
           NEW due \in SUBSET InFlight(n)
    PROVE  Handled(p, n, SaveProgress(Repeated(n, due), FALSE), m, c, d)
<1> DEFINE k == SaveProgress(Repeated(n, due), FALSE)
<1>1. Good(p, k, m, c, d) /\ SameRecv(n, k)
  BY TickGood
<1> HIDE DEF k
<1>2. Handled(p, n, k, m, c, d)
  BY <1>1, HandledSends
<1> QED BY <1>2 DEF k

\* cmd_start_send
LEMMA StartHandled ==
    ASSUME OneWay, NEW p, NEW n, NEW m, NEW c, NEW d, Good(p, n, m, c, d), Drained(n),
           NEW f, <<p, f>> \in Plan, f \notin DOMAIN n.senders, f \notin n.sendQueued
    PROVE  LET resume == IF f \in DOMAIN n.store /\ n.store[f].direction = "send"
                           THEN n.store[f].next ELSE 0
               task == [window |-> NewSender(resume), version |-> n.source[f]]
               k == ScheduleNextSend([Record(n, f, "send", resume) EXCEPT
                        !.senders = With(@, f, task), !.sendQueue = Append(@, f),
                        !.sendQueued = @ \cup {f}])
           IN  Handled(p, n, k, m, c, d)
<1> DEFINE resume == IF f \in DOMAIN n.store /\ n.store[f].direction = "send"
                       THEN n.store[f].next ELSE 0
           task == [window |-> NewSender(resume), version |-> n.source[f]]
           k == ScheduleNextSend([Record(n, f, "send", resume) EXCEPT
                    !.senders = With(@, f, task), !.sendQueue = Append(@, f),
                    !.sendQueued = @ \cup {f}])
<1>1. Good(p, k, m, c, d) /\ Queues(n, k, f)
  BY StartSendGood
<1> HIDE DEF k
<1>2. Handled(p, n, k, m, c, d)
  BY <1>1 DEF Handled, Drained, Keeps, Completed, Queues
<1> QED BY <1>2 DEF k

\* cmd_respond_offer, accepted
LEMMA RespondHandled ==
    ASSUME OneWay, NEW p, NEW n, NEW m, NEW c, NEW d, Good(p, n, m, c, d), NEW f \in DOMAIN n.offers,
           NEW bad
    PROVE  LET x == [n EXCEPT !.offers = Without(@, f), !.recvQueue = Append(@, f),
                              !.recvQueued = With(@, f, n.offers[f])]
           IN  Handled(p, n, MaybeStartRecv(x, bad), m, c, d)
<1> DEFINE k == MaybeStartRecv([n EXCEPT !.offers = Without(@, f), !.recvQueue = Append(@, f),
                                         !.recvQueued = With(@, f, n.offers[f])], bad)
<1>1. Good(p, k, m, c, d) /\ SameButRecv(n, k) /\ Drained(k)
  BY RespondGood
<1> HIDE DEF k
<1>2. Handled(p, n, k, m, c, d)
  BY <1>1, HandledHolds
<1> QED BY <1>2 DEF k

\* cmd_respond_offer, refused
LEMMA DeclineHandled ==
    ASSUME OneWay, NEW p, NEW n, NEW m, NEW c, NEW d, Good(p, n, m, c, d), Drained(n),
           NEW f \in DOMAIN n.offers
    PROVE  LET k == Ended(Send([n EXCEPT !.offers = Without(@, f)], <<Frame("Reject", f, 0, 0)>>),
                          f, "recv", "Cancelled") IN
           Handled(p, n, k, m, c, d)
<1> DEFINE k == Ended(Send([n EXCEPT !.offers = Without(@, f)], <<Frame("Reject", f, 0, 0)>>),
                      f, "recv", "Cancelled")
<1>1. Good(p, k, m, c, d) /\ SameButRecv(n, k) /\ Drained(k)
  BY DeclineGood
<1> HIDE DEF k
<1>2. Handled(p, n, k, m, c, d)
  BY <1>1, HandledHolds
<1> QED BY <1>2 DEF k

\* cmd_cancel
LEMMA CancelHandled ==
    ASSUME OneWay, NEW p, NEW n, NEW m, NEW c, NEW d, Good(p, n, m, c, d), Drained(n),
           NEW f \in DOMAIN n.senders \cup Hold(n)
    PROVE  Handled(p, n, Cancelled(Send(n, CancelFrame(f)), f, FALSE), m, c, d)
<1> DEFINE n0 == Send(n, CancelFrame(f))
           k == Cancelled(n0, f, FALSE)
<1>1. CASE f \in DOMAIN n.senders
  <2>1. p \in Peers /\ Shape(n) /\ c \in Seq(Frames) /\ <<p, f>> \in Plan /\ f \in Files
    BY <1>1, FileTransferAssumption DEF Good, Half, Link, SendSide, Task
  <2>2. Cancels(p, n, f, CancelFrame(f)) /\ Carries(Range(CancelFrame(f)), f, "Cancel")
    BY <2>1, CancelFrameIs
  <2>3. Said(n, n0, CancelFrame(f))
    BY <2>1, <2>2, SendSays DEF Cancels
  <2>4. Shrinks(c, c, f) /\ Heard(m, f, CancelFrame(f), d \o n.out)
    BY <2>1, <2>2, ShrinksNot DEF Heard
  <2> HIDE DEF n0
  <2>5. Good(p, k, m, c, d) /\ SenderEnded(n, k, f, "Cancelled")
    BY <1>1, <2>2, <2>3, <2>4, CancelSendGood
  <2> HIDE DEF k
  <2>6. Handled(p, n, k, m, c, d)
    BY <2>5, HandledEnds
  <2> QED BY <2>6 DEF k, n0
<1>2. CASE f \in Hold(n)
  <2>1. Good(p, k, m, c, d) /\ SameTasks(n, k) /\ Drained(k)
    BY <1>2, CancelHeldGood
  <2> HIDE DEF k
  <2>2. Handled(p, n, k, m, c, d)
    BY <2>1, HandledHolds
  <2> QED BY <2>2 DEF k
<1> QED BY <1>1, <1>2

-----------------------------------------------------------------------------
(* The steps of the two ends. *)

\* What one end knows of the other, the other knows of it.
LEMMA GoodTurned ==
    ASSUME NEW p, NEW n, NEW m, NEW c, NEW d, Good(p, n, m, c, d), Drained(n), n.out = <<>>, m.out = <<>>
    PROVE  Good(Other(p), m, n, d, c)
<1>1. /\ p \in Peers /\ Other(p) \in Peers /\ Other(Other(p)) = p
  BY OtherIs DEF Good
<1>2. d \in Seq(Frames) /\ c \in Seq(Frames) /\ d \o n.out = d /\ c \o m.out = c
  BY DEF Good, Link
<1>3. Link(p, n, m, c, d)
  BY <1>2 DEF Good
<1>4. Link(Other(p), m, n, d, c)
  BY <1>1, <1>3 DEF Link
<1> QED BY <1>1, <1>2, <1>4 DEF Good

\* A handler's frames leave with it.
LEMMA GoodSent ==
    ASSUME NEW p, NEW k, NEW m, NEW c, NEW d, Good(p, k, m, c, d)
    PROVE  LET l == [k EXCEPT !.out = <<>>] IN
           Good(p, l, m, c, d \o k.out) /\ l.out = <<>> /\ (Drained(k) => Drained(l))
<1> DEFINE l == [k EXCEPT !.out = <<>>]
           e == d \o k.out
<1>1. /\ p \in Peers /\ Half(p, k) /\ Shape(k) /\ Half(Other(p), m) /\ Drained(m) /\ Link(p, k, m, c, e)
      /\ e \in Seq(Frames)
  BY DEF Good, Half, Link
<1>3. Shape(l) /\ l.out = <<>> /\ \A x \in Fields \ {"out"} : l[x] = k[x]
  BY <1>1 DEF Shape, Fields
<1> HIDE DEF l
<1>4. /\ l.senders = k.senders /\ l.sendQueue = k.sendQueue /\ l.sendQueued = k.sendQueued
      /\ l.sendActive = k.sendActive /\ l.offered = k.offered /\ l.accepted = k.accepted
      /\ l.recvQueue = k.recvQueue /\ l.recvQueued = k.recvQueued /\ l.offers = k.offers
      /\ l.receivers = k.receivers /\ l.part = k.part
      /\ l.recvActive = k.recvActive /\ l.cancelled = k.cancelled
      /\ l.saved = k.saved /\ l.source = k.source /\ l.store = k.store
  BY <1>3 DEF Fields
<1>5. Half(p, l)
  <2>1. SendSide(p, l)
    <3>1. SendsAlone(k, l) /\ SendSide(p, k)
      BY <1>1, <1>4 DEF SendsAlone, Half
    <3> QED BY <3>1, SendsAloneSide
  <2>2. Hold(l) = Hold(k)
    BY <1>4 DEF Hold
  <2>3. RecvSide(Other(p), l)
    BY <1>1, <1>4, <2>2 DEF RecvSide, Half
  <2>4. Stored(Other(p), l)
    BY <1>1, <1>4 DEF Stored, Half
  <2>5. l.out \in Seq(Frames)
    BY <1>3
  <2> QED BY <1>3, <2>1, <2>3, <2>4, <2>5 DEF Half
<1>6. \A f \in Files : SameSends(k, l, f) /\ SameHolds(k, l, f)
  BY <1>4 DEF SameSends, SameHolds
<1>7. Hold(l) = Hold(k)
  BY <1>4 DEF Hold
<1>8. Link(p, l, m, c, e)
  BY <1>1, <1>4, <1>6, <1>7, LinkAside
<1>9. Good(p, l, m, c, e)
  BY <1>1, <1>3, <1>5, <1>8 DEF Good
<1>10. Drained(k) => Drained(l)
  BY <1>4 DEF Drained
<1> QED BY <1>3, <1>9, <1>10 DEF l

-----------------------------------------------------------------------------
(* Between sessions. *)

\* The empty map, the empty queue.
LEMMA NoneIs ==
    /\ DOMAIN None = {} /\ IsMap(None) /\ <<>> \in Seq(Files) /\ Range(<<>>) = {}
    /\ IsFiniteSet(DOMAIN None) /\ Cardinality(DOMAIN None) = 0 /\ Cardinality({}) = 0
<1>1. DOMAIN None = {} /\ <<>> \in Seq(Files) /\ Range(<<>>) = {}
  BY DEF None, Range
<1>2. IsMap(None)
  BY DEF None, IsMap
<1>3. IsFiniteSet({}) /\ Cardinality({}) = 0
  BY FS_EmptySet
<1> QED BY <1>1, <1>2, <1>3

\* The engine goes, the stores and files stay.
LEMMA FreshIs ==
    ASSUME NEW n, DOMAIN n = Fields
    PROVE  LET k == FreshEngine(n) IN
           /\ EmptyEngine(k) /\ FreshEngine(k) = k
           /\ k.store = n.store /\ k.part = n.part /\ k.saved = n.saved /\ k.source = n.source
<1> DEFINE k == FreshEngine(n)
<1>1. DOMAIN k = Fields
  BY DEF FreshEngine, Fields
<1>2. /\ k.senders = None /\ k.sendQueue = <<>> /\ k.sendQueued = {} /\ k.sendActive = 0
      /\ k.offered = {} /\ k.accepted = {} /\ k.offers = None /\ k.recvQueue = <<>>
      /\ k.recvQueued = None /\ k.receivers = None /\ k.recvActive = 0
      /\ k.cancelled = {} /\ k.finished = None /\ k.out = <<>>
      /\ k.store = n.store /\ k.part = n.part /\ k.saved = n.saved /\ k.source = n.source
  BY DEF FreshEngine, Fields
<1>3. FreshEngine(k) = k
  BY ZenonT(40) DEF FreshEngine, Fields
<1> HIDE DEF k
<1>4. Shape(k)
  BY <1>1, <1>2, NoneIs DEF Shape
<1> QED BY <1>2, <1>3, <1>4 DEF EmptyEngine, k

\* An empty engine on good stores is a good end.
LEMMA EmptyHalf ==
    ASSUME NEW p, NEW n, EmptyEngine(n), n.source \in [Files -> Versions],
           n.saved \in [Files -> SUBSET Seq(Versions)],
           \A f \in DOMAIN n.part : n.part[f] \in Seq(Versions), Stored(Other(p), n)
    PROVE  Half(p, n) /\ Drained(n)
<1>1. n.out \in Seq(Frames)
  BY NoFrame DEF EmptyEngine
<1>2. 0 \in 0 .. MaxConcurrent /\ DOMAIN <<>> = {}
  BY FileTransferAssumption
<1>3. SendSide(p, n)
  BY <1>2, NoneIs DEF SendSide, EmptyEngine
<1>4. Hold(n) = {}
  BY NoneIs DEF Hold, EmptyEngine
<1>5. RecvSide(Other(p), n)
  BY <1>2, <1>4, NoneIs DEF RecvSide, EmptyEngine
<1>6. Drained(n)
  BY DEF Drained, EmptyEngine
<1> QED BY <1>1, <1>3, <1>5, <1>6 DEF Half, EmptyEngine

\* Two empty engines have nothing to say to each other.
LEMMA EmptyGood ==
    ASSUME NEW p \in Peers, NEW n, NEW m, EmptyEngine(n), EmptyEngine(m), Half(p, n),
           Half(Other(p), m), Drained(m)
    PROVE  Good(p, n, m, <<>>, <<>>)
<1>1. ASSUME NEW x, NEW y, EmptyEngine(x), EmptyEngine(y), NEW f PROVE Line(x, y, f, <<>>, <<>>)
  <2>1. Hold(y) = {}
    BY <1>1, NoneIs DEF Hold, EmptyEngine
  <2>2. Idle(x, y, f, {}, {})
    BY <1>1, <2>1 DEF Idle, EmptyEngine, Only
  <2>3. f \notin x.cancelled /\ f \notin y.cancelled
    BY <1>1 DEF EmptyEngine
  <2> QED BY <2>2, <2>3, NoFrame DEF Line, Talk
<1>2. ASSUME NEW x, EmptyEngine(x), NEW source PROVE Dated(x, source)
  BY <1>2, NoneIs DEF Dated, EmptyEngine
<1>3. <<>> \o n.out = <<>>
  BY DEF EmptyEngine
<1>4. Link(p, n, m, <<>>, <<>>)
  BY <1>1, <1>2, NoFrame DEF Link
<1> QED BY <1>3, <1>4, NoFrame DEF Good

\* A session ends for an end.
LEMMA FreshHalf ==
    ASSUME NEW p, NEW n, Half(p, n)
    PROVE  LET k == FreshEngine(n) IN Half(p, k) /\ EmptyEngine(k) /\ Drained(k)
<1> DEFINE k == FreshEngine(n)
<1>1. /\ EmptyEngine(k) /\ FreshEngine(k) = k
      /\ k.store = n.store /\ k.part = n.part /\ k.saved = n.saved /\ k.source = n.source
  BY FreshIs DEF Half, Shape
<1> HIDE DEF k
<1>2. /\ n.source \in [Files -> Versions] /\ n.saved \in [Files -> SUBSET Seq(Versions)]
      /\ (\A f \in DOMAIN n.part : n.part[f] \in Seq(Versions)) /\ Stored(Other(p), n)
  BY DEF Half, SendSide, RecvSide
<1>3. Stored(Other(p), k)
  BY <1>1, <1>2 DEF Stored
<1>4. Half(p, k) /\ Drained(k)
  BY <1>1, <1>2, <1>3, EmptyHalf
<1> QED BY <1>1, <1>4 DEF k

\* A session begins for an end.
LEMMA PrunedHalf ==
    ASSUME NEW p, NEW n, Half(p, n), EmptyEngine(n)
    PROVE  LET k == Pruned(n) IN
           Half(p, k) /\ EmptyEngine(k) /\ Drained(k) /\ k.saved = n.saved /\ k.source = n.source
<1> DEFINE k == Pruned(n)
<1>1. /\ Shape(k) /\ DOMAIN k.store \subseteq DOMAIN n.store
      /\ \A g \in DOMAIN k.store : k.store[g] = n.store[g]
      /\ \A x \in Fields \ {"store"} : k[x] = n[x]
  BY PrunedIs DEF EmptyEngine
<1> HIDE DEF k
<1>2. EmptyEngine(k) /\ k.part = n.part /\ k.saved = n.saved /\ k.source = n.source
  BY <1>1 DEF EmptyEngine, Fields
<1>3. /\ n.source \in [Files -> Versions] /\ n.saved \in [Files -> SUBSET Seq(Versions)]
      /\ (\A f \in DOMAIN n.part : n.part[f] \in Seq(Versions)) /\ Stored(Other(p), n)
  BY DEF Half, SendSide, RecvSide
<1>4. Stored(Other(p), k)
  BY <1>1, <1>2, <1>3 DEF Stored
<1>5. Half(p, k) /\ Drained(k)
  BY <1>2, <1>3, <1>4, EmptyHalf
<1> QED BY <1>2, <1>5 DEF k

\* A node that holds only its own files.
LEMMA BlankHalf ==
    ASSUME NEW p
    PROVE  Half(p, Blank) /\ EmptyEngine(Blank) /\ Drained(Blank)
<1> DEFINE z == [senders |-> 0, sendQueue |-> 0, sendQueued |-> 0, sendActive |-> 0,
                 offered |-> 0, accepted |-> 0, offers |-> 0, recvQueue |-> 0,
                 recvQueued |-> 0, receivers |-> 0, recvActive |-> 0, cancelled |-> 0,
                 finished |-> 0, out |-> 0,
                 store |-> None, part |-> None, saved |-> [f \in Files |-> {}],
                 source |-> [f \in Files |-> 1]]
<1>1. DOMAIN z = Fields /\ z.store = None /\ z.part = None /\ z.saved = [f \in Files |-> {}]
      /\ z.source = [f \in Files |-> 1]
  BY DEF Fields
<1>2. Blank = FreshEngine(z)
  BY DEF Blank
<1> HIDE DEF z
<1>3. /\ EmptyEngine(Blank) /\ Blank.store = None /\ Blank.part = None
      /\ Blank.saved = [f \in Files |-> {}] /\ Blank.source = [f \in Files |-> 1]
  BY <1>1, <1>2, FreshIs
<1>4. Blank.source \in [Files -> Versions]
  BY <1>3, FileTransferAssumption DEF Versions
<1>5. Stored(Other(p), Blank) /\ \A f \in DOMAIN Blank.part : Blank.part[f] \in Seq(Versions)
  BY <1>3, NoneIs DEF Stored
<1>6. Blank.saved \in [Files -> SUBSET Seq(Versions)]
  BY <1>3
<1> QED BY <1>3, <1>4, <1>5, <1>6, EmptyHalf

-----------------------------------------------------------------------------
(* The invariant. *)

\* What the invariant says of one end.
LEMMA InvAt ==
    ASSUME TransferInv, NEW p \in Peers
    PROVE  /\ Good(p, node[p], node[Other(p)], chan[p], chan[Other(p)]) /\ Drained(node[p])
           /\ node[p].out = <<>> /\ Half(p, node[p]) /\ Shape(node[p])
           /\ DOMAIN node = Peers /\ DOMAIN chan = Peers
           /\ Other(p) \in Peers /\ Other(p) # p /\ Other(Other(p)) = p /\ Peers = {p, Other(p)}
<1>1. Good(p, node[p], node[Other(p)], chan[p], chan[Other(p)])
  BY DEF TransferInv
<1>2. DOMAIN node = Peers /\ DOMAIN chan = Peers
  BY DEF TransferInv
<1>3. Drained(node[p]) /\ node[p].out = <<>>
  BY DEF TransferInv
<1> QED BY <1>1, <1>2, <1>3, OtherIs DEF Good, Half

\* the step of p was one of its handlers
Worked(p) ==
    \E k : /\ node' = [node EXCEPT ![p] = [k EXCEPT !.out = <<>>]] /\ Shape(k)
           /\ Keeps(node[p], k) /\ Completed(node[p], k, node[Other(p)])

\* A handler keeps the invariant.
LEMMA RanGood ==
    ASSUME TransferInv, NEW p \in Peers, NEW k, NEW c2,
           Handled(p, node[p], k, node[Other(p)], c2, chan[Other(p)]), Ran(p, k, c2)
    PROVE  TransferInv' /\ Worked(p)
<1> DEFINE q == Other(p)
           n == node[p]
           m == node[q]
           l == [k EXCEPT !.out = <<>>]
           e == chan[q] \o k.out
<1>1. /\ DOMAIN node = Peers /\ DOMAIN chan = Peers /\ q \in Peers /\ q # p /\ Other(q) = p
      /\ Peers = {p, q} /\ node[q].out = <<>> /\ Drained(node[q])
  BY InvAt DEF TransferInv
<1>2. Good(p, k, m, c2, chan[q]) /\ Drained(k) /\ Shape(k)
  BY DEF Handled, Good, Half
<1>3. Good(p, l, m, c2, e) /\ l.out = <<>> /\ Drained(l)
  BY <1>2, GoodSent
<1>4. Good(q, m, l, e, c2)
  BY <1>1, <1>3, GoodTurned
<1>5. /\ up' = up /\ up = TRUE /\ node' = [node EXCEPT ![p] = l]
      /\ chan' = [chan EXCEPT ![p] = c2, ![q] = e]
  <2>1. chan' = [chan EXCEPT ![p] = c2, ![q] = @ \o k.out]
    BY DEF Ran
  <2>2. [chan EXCEPT ![p] = c2][q] = chan[q]
    BY <1>1
  <2>3. up /\ up \in BOOLEAN
    BY DEF Ran, TransferInv
  <2> QED BY <1>1, <2>1, <2>2, <2>3 DEF Ran
<1> HIDE DEF l, e
<1>6. /\ node'[p] = l /\ node'[q] = m /\ chan'[p] = c2 /\ chan'[q] = e
      /\ node' = [x \in Peers |-> node'[x]] /\ chan' = [x \in Peers |-> chan'[x]]
  BY <1>1, <1>5 DEF TransferInv
<1>7. TransferInv'
  <2>1. \A x \in Peers : Good(x, node'[x], node'[Other(x)], chan'[x], chan'[Other(x)])
    BY <1>1, <1>3, <1>4, <1>6
  <2>2. \A x \in Peers : node'[x].out = <<>> /\ Drained(node'[x])
    BY <1>1, <1>3, <1>6
  <2>3. up' \in BOOLEAN /\ ~(~up')
    BY <1>5
  <2> QED BY <1>6, <2>1, <2>2, <2>3 DEF TransferInv
<1>8. Worked(p)
  BY <1>2, <1>5 DEF Worked, Handled, l
<1> QED BY <1>7, <1>8

\* what an engine's task runs for the frames, commands and ticks it gets
Work(p) ==
    \/ Receive(p) \/ Tick(p)
    \/ \E f \in Files : StartSend(p, f) \/ AcceptOffer(p, f) \/ DeclineOffer(p, f) \/ CancelTask(p, f)

\* An engine's work keeps the invariant.
LEMMA WorkGood ==
    ASSUME OneWay, TransferInv, NEW p \in Peers, Work(p)
    PROVE  TransferInv' /\ Worked(p)
<1> DEFINE n == node[p]
           m == node[Other(p)]
           d == chan[Other(p)]
<1>1. Good(p, n, m, chan[p], d) /\ Drained(n)
  BY InvAt
<1>2. ASSUME NEW k, NEW c2, Handled(p, n, k, m, c2, d), Ran(p, k, c2) PROVE TransferInv' /\ Worked(p)
  BY <1>2, RanGood
<1>3. CASE Receive(p)
  <2>1. chan[p] # <<>> /\ Ran(p, HandleFrame(n, Head(chan[p])), Tail(chan[p]))
    BY <1>3 DEF Receive
  <2>2. Handled(p, n, HandleFrame(n, Head(chan[p])), m, Tail(chan[p]), d)
    BY <1>1, <2>1, HandleGood
  <2> QED BY <1>2, <2>1, <2>2
<1>4. CASE Tick(p)
  <2>1. PICK due \in SUBSET InFlight(n) : Ran(p, SaveProgress(Repeated(n, due), FALSE), chan[p])
    BY <1>4 DEF Tick
  <2>2. Handled(p, n, SaveProgress(Repeated(n, due), FALSE), m, chan[p], d)
    BY <1>1, TickHandled
  <2> QED BY <1>2, <2>1, <2>2
<1>5. ASSUME NEW f \in Files, StartSend(p, f) PROVE TransferInv' /\ Worked(p)
  <2> DEFINE resume == IF f \in DOMAIN n.store /\ n.store[f].direction = "send"
                         THEN n.store[f].next ELSE 0
             task == [window |-> NewSender(resume), version |-> n.source[f]]
             k == ScheduleNextSend([Record(n, f, "send", resume) EXCEPT
                      !.senders = With(@, f, task), !.sendQueue = Append(@, f),
                      !.sendQueued = @ \cup {f}])
  <2>1. /\ <<p, f>> \in Plan /\ f \notin DOMAIN n.senders /\ f \notin n.sendQueued
        /\ Ran(p, k, chan[p])
    BY <1>5 DEF StartSend
  <2>2. Handled(p, n, k, m, chan[p], d)
    BY <1>1, <2>1, StartHandled, Zenon
  <2> HIDE DEF k
  <2> QED BY <1>2, <2>1, <2>2
<1>6. ASSUME NEW f \in Files, AcceptOffer(p, f) PROVE TransferInv' /\ Worked(p)
  <2> DEFINE x == [n EXCEPT !.offers = Without(@, f), !.recvQueue = Append(@, f),
                            !.recvQueued = With(@, f, n.offers[f])]
  <2>1. PICK bad \in {{}, {f}} : f \in DOMAIN n.offers /\ Ran(p, MaybeStartRecv(x, bad), chan[p])
    BY <1>6 DEF AcceptOffer
  <2>2. Handled(p, n, MaybeStartRecv(x, bad), m, chan[p], d)
    BY <1>1, <2>1, RespondHandled
  <2> HIDE DEF x
  <2> QED BY <1>2, <2>1, <2>2
<1>7. ASSUME NEW f \in Files, DeclineOffer(p, f) PROVE TransferInv' /\ Worked(p)
  <2> DEFINE k == Ended(Send([n EXCEPT !.offers = Without(@, f)], <<Frame("Reject", f, 0, 0)>>),
                        f, "recv", "Cancelled")
  <2>1. f \in DOMAIN n.offers /\ Ran(p, k, chan[p])
    BY <1>7 DEF DeclineOffer
  <2>2. Handled(p, n, k, m, chan[p], d)
    BY <1>1, <2>1, DeclineHandled
  <2> HIDE DEF k
  <2> QED BY <1>2, <2>1, <2>2
<1>8. ASSUME NEW f \in Files, CancelTask(p, f) PROVE TransferInv' /\ Worked(p)
  <2> DEFINE k == Cancelled(Send(n, CancelFrame(f)), f, FALSE)
  <2>1. f \in DOMAIN n.senders \cup Hold(n) /\ Ran(p, k, chan[p])
    BY <1>8 DEF CancelTask, Hold
  <2>2. Handled(p, n, k, m, chan[p], d)
    BY <1>1, <2>1, CancelHandled
  <2> HIDE DEF k
  <2> QED BY <1>2, <2>1, <2>2
<1> QED BY <1>3, <1>4, <1>5, <1>6, <1>7, <1>8 DEF Work

-----------------------------------------------------------------------------
(* The other steps. *)

\* A newer version of a file: what was promised of the older ones still holds.
LEMMA EditGood ==
    ASSUME TransferInv, NEW p \in Peers, NEW f \in Files, Edit(p, f)
    PROVE  TransferInv'
<1> DEFINE q == Other(p)
           n == node[p]
           m == node[q]
           s0 == [n.source EXCEPT ![f] = n.source[f] + 1]
           k == [n EXCEPT !.source = s0]
           c == chan[p]
           d == chan[q]
<1>1. /\ DOMAIN node = Peers /\ q \in Peers /\ q # p /\ Other(q) = p
      /\ Peers = {p, q} /\ n.out = <<>> /\ Drained(n) /\ Half(p, n) /\ Shape(n) /\ SendSide(p, n)
      /\ Good(p, n, m, c, d) /\ m.out = <<>> /\ Drained(m) /\ Half(q, m) /\ d \in Seq(Frames)
      /\ n.source \in [Files -> Versions] /\ d \o n.out = d
  <2>1. /\ DOMAIN node = Peers /\ q \in Peers /\ q # p /\ Other(q) = p /\ Peers = {p, q}
        /\ n.out = <<>> /\ Drained(n) /\ Half(p, n) /\ Shape(n) /\ Good(p, n, m, c, d)
    BY InvAt
  <2>2. m.out = <<>> /\ Drained(m) /\ Half(q, m)
    BY <2>1, InvAt
  <2>3. SendSide(p, n) /\ n.source \in [Files -> Versions] /\ d \in Seq(Frames)
    BY <2>1 DEF Half, SendSide, Good
  <2> QED BY <2>1, <2>2, <2>3
<1>2. /\ node' = [node EXCEPT ![p].source[f] = @ + 1]
      /\ n.source[f] < MaxVersion /\ up' = up /\ chan' = chan
  BY DEF Edit
<1>3. node' = [node EXCEPT ![p] = k]
  <2>1. node' = [node EXCEPT ![p] = [n EXCEPT !.source = s0]]
    BY <1>1, <1>2
  <2> QED BY <2>1
<1>4. /\ s0 \in [Files -> Versions] /\ \A g \in Files : n.source[g] <= s0[g]
      /\ \A g \in Files : n.source[g] \in Nat /\ s0[g] \in Nat
  BY <1>1, <1>2, FileTransferAssumption DEF Versions
<1> HIDE DEF s0
<1>5. /\ Shape(k) /\ k.source = s0 /\ \A x \in Fields \ {"source"} : k[x] = n[x]
  BY <1>1 DEF Shape, Fields
<1> HIDE DEF k
<1>6. /\ k.senders = n.senders /\ k.sendQueue = n.sendQueue /\ k.sendQueued = n.sendQueued
      /\ k.sendActive = n.sendActive /\ k.offered = n.offered /\ k.accepted = n.accepted
      /\ k.recvQueue = n.recvQueue /\ k.recvQueued = n.recvQueued /\ k.offers = n.offers
      /\ k.receivers = n.receivers /\ k.part = n.part /\ k.finished = n.finished
      /\ k.recvActive = n.recvActive /\ k.cancelled = n.cancelled
      /\ k.saved = n.saved /\ k.store = n.store /\ k.out = n.out
  BY <1>5 DEF Fields
<1>7. Half(p, k) /\ Drained(k)
  <2>1. \A g \in DOMAIN k.senders : Task(p, k, g)
    <3> SUFFICES ASSUME NEW g \in DOMAIN n.senders PROVE Task(p, k, g)
      BY <1>6
    <3>1. Task(p, n, g)
      BY <1>1 DEF SendSide
    <3>2. g \in Files
      BY <3>1, FileTransferAssumption DEF Task
    <3>3. k.senders[g].version \in 1 .. k.source[g]
      <4>1. n.senders[g].version \in 1 .. n.source[g]
        BY <3>1 DEF Task
      <4> QED BY <1>4, <1>5, <1>6, <3>2, <4>1
    <3> QED BY <1>6, <3>1, <3>3 DEF Task
  <2>2. SendSide(p, k)
    BY <1>1, <1>4, <1>5, <1>6, <2>1 DEF SendSide
  <2>3. Hold(k) = Hold(n)
    BY <1>6 DEF Hold
  <2>4. RecvSide(q, k)
    BY <1>1, <1>6, <2>3 DEF RecvSide, Half
  <2>5. Stored(q, k)
    BY <1>1, <1>6 DEF Stored, Half
  <2> QED BY <1>1, <1>5, <1>6, <2>2, <2>4, <2>5 DEF Half, Drained
<1>8. Link(p, k, m, c, d)
  <2>1. Link(p, n, m, c, d)
    BY <1>1 DEF Good
  <2>2. \A g \in Files : SameSends(n, k, g) /\ SameHolds(n, k, g)
    BY <1>6 DEF SameSends, SameHolds
  <2>3. Dated(k, m.source)
    BY <1>6, <2>1 DEF Link, Dated
  <2>4. Dated(m, k.source)
    <3>1. Dated(m, n.source)
      BY <2>1 DEF Link
    <3>2. /\ \A g \in DOMAIN m.offers : g \in Files /\ m.offers[g] \in Nat
          /\ \A g \in DOMAIN m.recvQueued : g \in Files /\ m.recvQueued[g] \in Nat
          /\ \A g \in DOMAIN m.receivers : g \in Files /\ m.receivers[g].version \in Nat
      <4>1. RecvSide(Other(q), m)
        BY <1>1 DEF Half
      <4>2. \A g \in Hold(m) : g \in Files
        BY <4>1, FileTransferAssumption DEF RecvSide
      <4>3. \A v \in Versions : v \in Nat
        BY FileTransferAssumption DEF Versions
      <4> QED BY <4>1, <4>2, <4>3 DEF RecvSide, Hold
    <3> QED BY <1>4, <1>5, <3>1, <3>2 DEF Dated
  <2>5. \A fr \in Range(d) : IsFrame(q, p, k.source, fr)
    <3> SUFFICES ASSUME NEW fr \in Range(d) PROVE IsFrame(q, p, k.source, fr)
      OBVIOUS
    <3>1. IsFrame(q, p, n.source, fr)
      BY <2>1 DEF Link
    <3>2. fr.file \in Files /\ (fr.version \in 1 .. n.source[fr.file] => fr.version \in 1 .. k.source[fr.file])
      <4>1. fr.file \in Files
        BY <3>1 DEF IsFrame, Frames
      <4> QED BY <1>4, <1>5, <4>1
    <3> QED BY <3>1, <3>2 DEF IsFrame
  <2>6. ASSUME NEW g \in Files, <<p, g>> \in Plan PROVE Line(k, m, g, c, d)
    <3>1. Line(n, m, g, c, d) /\ n.offered \subseteq DOMAIN n.senders /\ SameHolds(m, m, g)
          /\ SameFrames(Range(c), Range(c), g) /\ SameFrames(Range(d), Range(d), g)
      BY <1>1, <2>1, <2>6 DEF Link, SendSide, SameHolds, SameFrames
    <3>2. Talk(k, m, g, Range(c), Range(d))
      BY <2>2, <3>1, SameTalk DEF Line
    <3> QED BY <1>6, <3>1, <3>2 DEF Line
  <2>7. ASSUME NEW g \in Files, <<q, g>> \in Plan PROVE Line(m, k, g, d, c)
    <3>1. Line(m, n, g, d, c) /\ m.offered \subseteq DOMAIN m.senders /\ SameSends(m, m, g)
          /\ SameFrames(Range(c), Range(c), g) /\ SameFrames(Range(d), Range(d), g)
      BY <1>1, <2>1, <2>7 DEF Link, Half, SendSide, SameSends, SameFrames
    <3>2. Talk(m, k, g, Range(d), Range(c))
      BY <2>2, <3>1, SameTalk DEF Line
    <3> QED BY <3>1, <3>2 DEF Line
  <2> QED BY <2>1, <2>3, <2>4, <2>5, <2>6, <2>7 DEF Link
<1>9. Good(p, k, m, c, d) /\ Good(q, m, k, d, c)
  <2>1. Good(p, k, m, c, d)
    BY <1>1, <1>6, <1>7, <1>8 DEF Good
  <2> QED BY <1>1, <1>6, <1>7, <2>1, GoodTurned
<1>10. node'[p] = k /\ node'[q] = m /\ node' = [x \in Peers |-> node'[x]]
  BY <1>1, <1>3
<1>11. \A x \in Peers : Good(x, node'[x], node'[Other(x)], chan'[x], chan'[Other(x)])
  BY <1>1, <1>2, <1>9, <1>10
<1>12. \A x \in Peers : node'[x].out = <<>> /\ Drained(node'[x])
  BY <1>1, <1>6, <1>7, <1>10
<1>13. ~up' => \A x \in Peers : chan'[x] = <<>> /\ EmptyEngine(node'[x])
  <2> SUFFICES ASSUME ~up PROVE \A x \in Peers : chan[x] = <<>> /\ EmptyEngine(node'[x])
    BY <1>2
  <2>1. \A x \in Peers : chan[x] = <<>> /\ EmptyEngine(node[x])
    BY DEF TransferInv
  <2>2. EmptyEngine(k)
    BY <1>5, <1>6, <2>1 DEF EmptyEngine
  <2> QED BY <1>1, <1>10, <2>1, <2>2
<1> QED BY <1>2, <1>10, <1>11, <1>12, <1>13 DEF TransferInv

\* Two ends without a session, and nothing on its way.
LEMMA EmptyInv ==
    ASSUME NEW s0, s0 = [p \in Peers |-> s0[p]], \A p \in Peers : Half(p, s0[p]) /\ EmptyEngine(s0[p]),
           node' = s0, chan' = [p \in Peers |-> <<>>], up' \in BOOLEAN
    PROVE  TransferInv'
<1>1. \A p \in Peers : Drained(s0[p]) /\ s0[p].out = <<>>
  BY DEF EmptyEngine, Drained
<1>2. \A p \in Peers : Good(p, s0[p], s0[Other(p)], <<>>, <<>>)
  BY <1>1, OtherIs, EmptyGood
<1>3. \A p \in Peers : chan'[p] = <<>> /\ chan'[Other(p)] = <<>>
  BY OtherIs
<1>4. chan' = [p \in Peers |-> chan'[p]]
  OBVIOUS
<1> QED BY <1>1, <1>2, <1>3, <1>4 DEF TransferInv

\* The session is lost.
LEMMA DisconnectGood ==
    ASSUME OneWay, TransferInv, NEW crashed \in SUBSET Peers, Disconnect(crashed)
    PROVE  /\ TransferInv'
           /\ \A p \in Peers : node'[p].saved = node[p].saved /\ node'[p].source = node[p].source
<1> DEFINE last(p) == IF p \in crashed THEN node[p] ELSE SaveProgress(node[p], TRUE)
           s0 == [p \in Peers |-> FreshEngine(last(p))]
<1>1. node' = s0 /\ up' = FALSE /\ chan' = [p \in Peers |-> <<>>]
  BY DEF Disconnect
<1>2. ASSUME NEW p \in Peers
      PROVE  /\ Half(p, s0[p]) /\ EmptyEngine(s0[p])
             /\ s0[p].saved = node[p].saved /\ s0[p].source = node[p].source
  <2>1. Half(p, node[p])
    BY InvAt
  <2>2. /\ Half(p, SaveProgress(node[p], TRUE))
        /\ \A x \in Fields \ {"store"} : SaveProgress(node[p], TRUE)[x] = node[p][x]
    <3>1. TRUE \in BOOLEAN
      OBVIOUS
    <3> QED BY <2>1, <3>1, SaveIs
  <2>3. Half(p, last(p)) /\ last(p).saved = node[p].saved /\ last(p).source = node[p].source
    BY <2>1, <2>2 DEF Fields
  <2> HIDE DEF last
  <2>4. Half(p, FreshEngine(last(p))) /\ EmptyEngine(FreshEngine(last(p)))
    BY <2>3, FreshHalf
  <2>5. FreshEngine(last(p)).saved = last(p).saved /\ FreshEngine(last(p)).source = last(p).source
    BY <2>3, FreshIs DEF Half, Shape
  <2> QED BY <2>3, <2>4, <2>5
<1>3. s0 = [p \in Peers |-> s0[p]]
  OBVIOUS
<1> HIDE DEF s0
<1>4. TransferInv'
  <2>1. up' \in BOOLEAN
    BY <1>1
  <2> QED BY <1>1, <1>2, <1>3, <2>1, EmptyInv
<1> QED BY <1>1, <1>2, <1>4

\* A new session.
LEMMA ConnectGood ==
    ASSUME TransferInv, Connect
    PROVE  /\ TransferInv'
           /\ \A p \in Peers : node'[p].saved = node[p].saved /\ node'[p].source = node[p].source
<1> DEFINE s0 == [p \in Peers |-> Pruned(node[p])]
<1>1. node' = s0 /\ up' = TRUE /\ chan' = chan /\ ~up
  BY DEF Connect
<1>2. ASSUME NEW p \in Peers
      PROVE  /\ Half(p, s0[p]) /\ EmptyEngine(s0[p])
             /\ s0[p].saved = node[p].saved /\ s0[p].source = node[p].source
  <2>1. Half(p, node[p]) /\ EmptyEngine(node[p])
    BY <1>1, InvAt DEF TransferInv
  <2> QED BY <2>1, PrunedHalf
<1>3. s0 = [p \in Peers |-> s0[p]]
  OBVIOUS
<1>4. chan' = [p \in Peers |-> <<>>]
  BY <1>1 DEF TransferInv
<1> HIDE DEF s0
<1>5. TransferInv'
  <2>1. up' \in BOOLEAN
    BY <1>1
  <2> QED BY <1>1, <1>2, <1>3, <1>4, <2>1, EmptyInv
<1> QED BY <1>1, <1>2, <1>5

\* At the beginning.
LEMMA InitGood == Init => TransferInv
<1> SUFFICES ASSUME Init PROVE TransferInv
  OBVIOUS
<1>1. node = [p \in Peers |-> Blank] /\ chan = [p \in Peers |-> <<>>] /\ up = TRUE
  BY DEF Init
<1>2. \A p \in Peers : /\ Half(p, Blank) /\ EmptyEngine(Blank) /\ Drained(Blank)
                       /\ node[p] = Blank /\ node[Other(p)] = Blank
                       /\ chan[p] = <<>> /\ chan[Other(p)] = <<>> /\ Other(p) \in Peers
  BY <1>1, BlankHalf, OtherIs
<1>3. \A p \in Peers : Good(p, Blank, Blank, <<>>, <<>>)
  <2> SUFFICES ASSUME NEW p \in Peers PROVE Good(p, Blank, Blank, <<>>, <<>>)
    OBVIOUS
  <2>1. Half(Other(p), Blank)
    BY BlankHalf
  <2> QED BY <1>2, <2>1, EmptyGood
<1>4. Blank.out = <<>>
  BY BlankHalf DEF EmptyEngine
<1>5. up \in BOOLEAN /\ ~(~up)
  BY <1>1
<1>6. node = [p \in Peers |-> node[p]] /\ chan = [p \in Peers |-> chan[p]]
  BY <1>1
<1> QED BY <1>2, <1>3, <1>4, <1>5, <1>6 DEF TransferInv

-----------------------------------------------------------------------------
\* A step: work of an end, an edit, or the end or the beginning of a session.
LEMMA Steps ==
    ASSUME Next
    PROVE  \/ \E p \in Peers : Work(p)
           \/ \E p \in Peers, f \in Files : Edit(p, f)
           \/ \E crashed \in SUBSET Peers : Disconnect(crashed)
           \/ Connect
BY DEF Next, Work

\* Where every file is sent by one end only, the invariant holds in every state.
THEOREM TransferInvariant == OneWay => (Spec => []TransferInv)
<1> SUFFICES ASSUME OneWay PROVE Spec => []TransferInv
  OBVIOUS
<1>1. TransferInv /\ [Next]_vars => TransferInv'
  <2> SUFFICES ASSUME TransferInv, [Next]_vars PROVE TransferInv'
    OBVIOUS
  <2>1. CASE UNCHANGED vars
    BY <2>1 DEF vars, TransferInv, InvAt
  <2>2. CASE Next
    BY <2>2, Steps, WorkGood, EditGood, DisconnectGood, ConnectGood
  <2> QED BY <2>1, <2>2
<1> QED BY <1>1, InitGood, PTL DEF Spec

-----------------------------------------------------------------------------
(* What the runs check follows. *)

\* Every field has its type.
LEMMA InvTyped == TransferInv => TypeOK
<1> SUFFICES ASSUME TransferInv, NEW p \in Peers
             PROVE  LET n == node[p] IN
                /\ DOMAIN n.senders \cup DOMAIN n.receivers \cup DOMAIN n.store \subseteq Files
                /\ \A f \in DOMAIN n.senders :
                      IsWindow(n.senders[f].window) /\ n.senders[f].version \in Versions
                /\ \A f \in DOMAIN n.receivers :
                      n.receivers[f] \in [version : Versions, next : 0 .. Total]
                /\ \A f \in DOMAIN n.store :
                      n.store[f] \in [direction : {"send", "recv"}, next : 0 .. Total]
                /\ n.sendActive \in 0 .. MaxConcurrent /\ n.recvActive \in 0 .. MaxConcurrent
                /\ n.offered \cup n.accepted \subseteq DOMAIN n.senders
                /\ n.sendQueued \subseteq {n.sendQueue[i] : i \in DOMAIN n.sendQueue}
  BY DEF TypeOK
<1>1. PICK n : n = node[p]
  OBVIOUS
<1>2. SendSide(p, n) /\ RecvSide(Other(p), n) /\ Stored(Other(p), n)
  BY <1>1, InvAt DEF Half
<1>3. ASSUME NEW f \in DOMAIN n.senders
      PROVE  f \in Files /\ IsWindow(n.senders[f].window) /\ n.senders[f].version \in Versions
  <2>1. Task(p, n, f) /\ n.source \in [Files -> Versions]
    BY <1>2 DEF SendSide
  <2>2. f \in Files
    BY <2>1, FileTransferAssumption DEF Task
  <2>3. n.source[f] \in 1 .. MaxVersion /\ n.senders[f].version \in 1 .. n.source[f]
    BY <2>1, <2>2 DEF Task, Versions
  <2>4. IsWindow(n.senders[f].window)
    BY <2>1, WindowTyped DEF Task
  <2> QED BY <2>2, <2>3, <2>4, FileTransferAssumption DEF Versions
<1>4. ASSUME NEW f \in DOMAIN n.receivers
      PROVE  f \in Files /\ n.receivers[f] \in [version : Versions, next : 0 .. Total]
  <2>1. f \in Hold(n)
    BY DEF Hold
  <2>2. <<Other(p), f>> \in Plan
    BY <1>2, <2>1 DEF RecvSide
  <2>3. f \in Files
    BY <2>2, FileTransferAssumption
  <2>4. n.receivers[f] \in [version : Versions, next : 0 .. Total]
    BY <1>2 DEF RecvSide
  <2> QED BY <2>3, <2>4
<1>5. \A f \in DOMAIN n.store :
        f \in Files /\ n.store[f] \in [direction : {"send", "recv"}, next : 0 .. Total]
  BY <1>2 DEF Stored
<1>6. /\ n.sendActive \in 0 .. MaxConcurrent /\ n.recvActive \in 0 .. MaxConcurrent
      /\ n.offered \cup n.accepted \subseteq DOMAIN n.senders
  BY <1>2 DEF SendSide, RecvSide
<1>7. n.sendQueued \subseteq {n.sendQueue[i] : i \in DOMAIN n.sendQueue}
  BY <1>2 DEF SendSide, Range
<1> QED BY <1>1, <1>3, <1>4, <1>5, <1>6, <1>7

\* The .part files hold what was counted and what was recorded.
LEMMA InvParts == TransferInv => PartHoldsProgress
<1> SUFFICES ASSUME TransferInv, NEW p \in Peers
             PROVE  LET n == node[p] IN
                /\ \A f \in DOMAIN n.receivers :
                      f \in DOMAIN n.part /\ Len(n.part[f]) = n.receivers[f].next
                /\ \A f \in DOMAIN n.store \cap DOMAIN n.part :
                      n.store[f].direction = "recv" => n.store[f].next <= Len(n.part[f])
  BY DEF PartHoldsProgress
<1>1. RecvSide(Other(p), node[p]) /\ Stored(Other(p), node[p])
  BY InvAt DEF Half
<1> QED BY <1>1 DEF RecvSide, Stored

\* The slots are those of the tasks.
LEMMA InvSlots == TransferInv => NoSlotLost
<1> SUFFICES ASSUME TransferInv, NEW p \in Peers
             PROVE  /\ node[p].recvActive = Cardinality(DOMAIN node[p].receivers)
                    /\ node[p].sendActive <= Cardinality(node[p].offered)
  BY DEF NoSlotLost
<1>1. RecvSide(Other(p), node[p]) /\ SendSide(p, node[p])
  BY InvAt DEF Half
<1> QED BY <1>1 DEF RecvSide, SendSide

\* Of a file that was accepted and is being received, the two ends are in the
\* middle of the transfer.
LEMMA BothAtWork ==
    ASSUME NEW n, NEW m, NEW f, NEW c, NEW e, Line(n, m, f, c, e),
           f \in n.accepted, f \in DOMAIN m.receivers
    PROVE  Running(n, m, f, Range(c), Range(e))
<1>1. f \in Hold(m)
  BY DEF Hold
<1>2. Talk(n, m, f, Range(c), Range(e))
  BY DEF Line
<1> QED BY <1>1, <1>2 DEF Talk, Over, StoppedEarly, Stopped, Idle, OfferOnItsWay, Pending, Refused,
                          Accepting, Done, Asked

\* What is acknowledged has been received.
LEMMA InvAcked == TransferInv => AckedIsOnDisk
<1> SUFFICES ASSUME TransferInv, NEW p \in Peers,
                    NEW f \in node[p].accepted \cap DOMAIN node[Other(p)].receivers
             PROVE  \/ node[p].senders[f].window.start <= node[p].senders[f].window.resume
                    \/ node[p].senders[f].window.start <= node[Other(p)].receivers[f].next
  BY DEF AckedIsOnDisk
<1>1. Good(p, node[p], node[Other(p)], chan[p], chan[Other(p)]) /\ Half(p, node[p])
  BY InvAt
<1>2. <<p, f>> \in Plan /\ f \in Files
  BY <1>1, FileTransferAssumption DEF Half, SendSide, Task
<1>3. Line(node[p], node[Other(p)], f, chan[p], chan[Other(p)] \o node[p].out)
  BY <1>1, <1>2 DEF Good, Link
<1>4. Running(node[p], node[Other(p)], f, Range(chan[p]), Range(chan[Other(p)] \o node[p].out))
  BY <1>3, BothAtWork
<1> QED BY <1>4 DEF Running, Progress

\* When no frame is on its way, the only transfers offered are those whose offer
\* waits at the other end.
LEMMA QuietLine ==
    ASSUME NEW p, NEW n, NEW m, NEW f, SendSide(p, n), RecvSide(p, m), Line(n, m, f, <<>>, <<>>)
    PROVE  /\ f \notin DOMAIN m.receivers
           /\ f \in n.offered => f \in DOMAIN m.offers \cup DOMAIN m.recvQueued
<1>1. Range(<<>>) = {}
  BY DEF Range
<1>2. Talk(n, m, f, {}, {})
  BY <1>1 DEF Line
<1>3. \A op : ~Carries({}, f, op)
  BY DEF Carries
<1>4. ~Running(n, m, f, {}, {})
  <2> SUFFICES ASSUME Running(n, m, f, {}, {}) PROVE FALSE
    OBVIOUS
  <2> DEFINE w == n.senders[f].window
             r == m.receivers[f].next
  <2>1. Progress(w, r, f, {}, {}) /\ Task(p, n, f) /\ r \in 0 .. Total
    BY DEF Running, SendSide, RecvSide
  <2>2. w.start \in 0 .. Total /\ w.next \in 0 .. Total
    BY <2>1, PartsOfSender DEF Task, Sound
  <2>3. ~AllAcked(w)
    BY <2>1, <1>3 DEF Progress
  <2>4. w.start < Total
    BY <2>2, <2>3, SlideWindowAssumption DEF AllAcked
  <2>5. w.start < w.next
    BY <2>1, <2>4 DEF Progress, Steady
  <2>6. ~(r < w.next)
    BY <2>1, <2>4 DEF Progress
  <2>7. ~(r > w.start)
    BY <2>1 DEF Progress
  <2> QED BY <2>1, <2>2, <2>5, <2>6, <2>7, SlideWindowAssumption
<1>5. (f \in n.cancelled /\ Over(n, m, f, {})) \/ Idle(n, m, f, {}, {}) \/ Pending(n, m, f, {}, {})
  BY <1>2, <1>3, <1>4 DEF Talk, StoppedEarly, Stopped, OfferOnItsWay, Refused, Accepting, Done
<1> QED BY <1>3, <1>5 DEF Over, Idle, Pending, Hold, RecvSide

\* Nobody waits.
LEMMA InvNobodyWaits == TransferInv => NobodyWaits
<1> SUFFICES ASSUME TransferInv, \A p \in Peers : chan[p] = <<>> /\ DOMAIN node[p].offers = {},
                    NEW p \in Peers
             PROVE  node[p].offered = {} /\ DOMAIN node[p].receivers = {}
  BY DEF NobodyWaits
<1>1. ASSUME NEW q \in Peers
      PROVE  DOMAIN node[Other(q)].receivers = {}
  <2>1. /\ Good(q, node[q], node[Other(q)], <<>>, <<>>) /\ node[q].out = <<>>
    BY InvAt
  <2>2. SendSide(q, node[q]) /\ RecvSide(q, node[Other(q)])
    BY <2>1, InvAt DEF Good, Half
  <2> SUFFICES ASSUME NEW f \in DOMAIN node[Other(q)].receivers PROVE FALSE
    OBVIOUS
  <2>3. <<q, f>> \in Plan /\ f \in Files
    BY <2>2, FileTransferAssumption DEF RecvSide, Hold
  <2>4. <<>> \o <<>> = <<>>
    OBVIOUS
  <2>5. Line(node[q], node[Other(q)], f, <<>>, <<>>)
    BY <2>1, <2>3, <2>4 DEF Good, Link
  <2> QED BY <2>2, <2>5, QuietLine
<1>2. /\ Other(p) \in Peers /\ Other(Other(p)) = p
      /\ SendSide(p, node[p]) /\ RecvSide(p, node[Other(p)]) /\ Drained(node[Other(p)])
      /\ Good(p, node[p], node[Other(p)], <<>>, <<>>) /\ node[p].out = <<>>
  <2>1. Other(p) \in Peers /\ Other(Other(p)) = p
    BY InvAt
  <2>2. Half(p, node[p]) /\ node[p].out = <<>>
    BY InvAt
  <2>3. Half(Other(p), node[Other(p)]) /\ Drained(node[Other(p)])
    BY <2>1, InvAt
  <2>4. RecvSide(p, node[Other(p)])
    BY <2>1, <2>3 DEF Half
  <2>5. Good(p, node[p], node[Other(p)], <<>>, <<>>)
    BY <2>1, InvAt
  <2> QED BY <2>1, <2>2, <2>3, <2>4, <2>5 DEF Half
<1>3. DOMAIN node[p].receivers = {} /\ DOMAIN node[Other(p)].receivers = {}
  BY <1>1, <1>2
<1>4. DOMAIN node[Other(p)].recvQueued = {}
  <2>1. node[Other(p)].recvActive = 0
    BY <1>2, <1>3, FS_EmptySet DEF RecvSide
  <2>2. SlotFree(node[Other(p)].recvActive)
    BY <2>1, FileTransferAssumption DEF SlotFree
  <2>3. node[Other(p)].recvQueue = <<>>
    BY <1>2, <2>2 DEF Drained
  <2> QED BY <1>2, <2>3 DEF RecvSide, Range
<1>5. node[p].offered = {}
  <2> SUFFICES ASSUME NEW f \in node[p].offered PROVE FALSE
    OBVIOUS
  <2>1. <<p, f>> \in Plan /\ f \in Files
    BY <1>2, FileTransferAssumption DEF SendSide, Task
  <2>2. <<>> \o <<>> = <<>>
    OBVIOUS
  <2>3. Line(node[p], node[Other(p)], f, <<>>, <<>>)
    BY <1>2, <2>1, <2>2 DEF Good, Link
  <2>4. f \in DOMAIN node[Other(p)].offers \cup DOMAIN node[Other(p)].recvQueued
    BY <1>2, <2>3, QuietLine
  <2> QED BY <1>2, <1>4, <2>4
<1> QED BY <1>3, <1>5

-----------------------------------------------------------------------------
\* Windows stay inside their file, slots inside their limit, records inside the
\* file, for any number of blocks, files, versions and slots.
THEOREM TransferTypeCorrect == OneWay => (Spec => []TypeOK)
BY TransferInvariant, InvTyped, PTL

\* A .part file holds what its receiver has counted, and no record is ahead of it,
\* whatever crash or lost session came before.
THEOREM PartFilesHoldProgress == OneWay => (Spec => []PartHoldsProgress)
BY TransferInvariant, InvParts, PTL

\* However a task ends (reject, finish, cancel of either side, abort, lost session),
\* its slot is free again.
THEOREM SlotsComeBack == OneWay => (Spec => []NoSlotLost)
BY TransferInvariant, InvSlots, PTL

\* An acknowledged block is on the other side's disk while its receiver works.
THEOREM AckedBlocksAreOnDisk == OneWay => (Spec => []AckedIsOnDisk)
BY TransferInvariant, InvAcked, PTL

\* The two ends never wait for each other: with no frame on its way and no offer
\* before a user, every offered transfer has ended.
THEOREM NoTransferHangs == OneWay => (Spec => []NobodyWaits)
BY TransferInvariant, InvNobodyWaits, PTL

-----------------------------------------------------------------------------
\* what CompletedIsSaved says of a step
Completions ==
    \A p \in Peers, f \in Files :
        /\ f \in DOMAIN node[p].senders /\ f \notin DOMAIN node'[p].senders
        /\ up' /\ f \in DOMAIN node'[p].finished
        /\ node'[p].finished[f] = <<"send", "Completed">>
        => [i \in 1 .. Total |-> node[p].senders[f].version] \in node[Other(p)].saved[f]

\* Work of an end.
LEMMA WorkedCompletions ==
    ASSUME TransferInv, NEW p \in Peers, Worked(p)
    PROVE  Completions
<1> SUFFICES ASSUME NEW q \in Peers, NEW f \in Files,
                    f \in DOMAIN node[q].senders, f \notin DOMAIN node'[q].senders,
                    f \in DOMAIN node'[q].finished,
                    node'[q].finished[f] = <<"send", "Completed">>
             PROVE  [i \in 1 .. Total |-> node[q].senders[f].version] \in node[Other(q)].saved[f]
  BY DEF Completions
<1>1. PICK k : /\ node' = [node EXCEPT ![p] = [k EXCEPT !.out = <<>>]] /\ Shape(k)
               /\ Completed(node[p], k, node[Other(p)])
  BY DEF Worked
<1>2. DOMAIN node = Peers
  BY InvAt
<1>3. q = p
  <2> SUFFICES ASSUME q # p PROVE FALSE
    OBVIOUS
  <2>1. node'[q] = node[q]
    BY <1>1, <1>2
  <2> QED BY <2>1
<1>4. node'[p] = [k EXCEPT !.out = <<>>]
  BY <1>1, <1>2
<1>5. node'[p].senders = k.senders /\ node'[p].finished = k.finished
  BY <1>1, <1>4 DEF Shape, Fields
<1>6. Whole(node[p].senders[f].version) \in node[Other(p)].saved[f]
  BY <1>1, <1>3, <1>5 DEF Completed
<1> QED BY <1>3, <1>6 DEF Whole

\* Any step.
LEMMA StepCompletions ==
    ASSUME OneWay, TransferInv, [Next]_vars
    PROVE  [Completions]_vars
<1>1. CASE UNCHANGED vars
  BY <1>1
<1>2. ASSUME NEW p \in Peers, Work(p)
      PROVE  Completions
  BY <1>2, WorkGood, WorkedCompletions
<1>3. ASSUME NEW p \in Peers, NEW f \in Files, Edit(p, f)
      PROVE  Completions
  <2>1. DOMAIN node = Peers /\ Shape(node[p])
    BY InvAt
  <2>2. node' = [node EXCEPT ![p] = [node[p] EXCEPT !.source = [node[p].source EXCEPT ![f] = node[p].source[f] + 1]]]
    BY <1>3 DEF Edit
  <2>3. ASSUME NEW q \in Peers PROVE node'[q].senders = node[q].senders
    <3>1. CASE q = p
      BY <2>1, <2>2, <3>1 DEF Shape, Fields
    <3>2. CASE q # p
      BY <2>1, <2>2, <3>2
    <3> QED BY <3>1, <3>2
  <2> QED BY <2>3 DEF Completions
<1>4. ASSUME NEW crashed \in SUBSET Peers, Disconnect(crashed)
      PROVE  Completions
  BY <1>4 DEF Disconnect, Completions
<1>5. ASSUME Connect PROVE Completions
  <2>1. \A p \in Peers : DOMAIN node[p].senders = {}
    BY <1>5 DEF Connect, TransferInv, EmptyEngine, None
  <2> QED BY <2>1 DEF Completions
<1>6. CASE Next
  BY <1>2, <1>3, <1>4, <1>5, <1>6, Steps
<1> QED BY <1>1, <1>6

\* on_finish_ack reports Completed only of a file the other end has saved, in the
\* version the sender offered.
THEOREM CompletedFilesAreSaved == OneWay => (Spec => CompletedIsSaved)
<1> SUFFICES ASSUME OneWay PROVE Spec => CompletedIsSaved
  OBVIOUS
<1>1. TransferInv /\ [Next]_vars => [Completions]_vars
  BY StepCompletions
<1>2. Spec => []TransferInv
  BY TransferInvariant
<1> QED BY <1>1, <1>2, PTL DEF Spec, CompletedIsSaved, Completions

-----------------------------------------------------------------------------
(* File transfer implements FileCopies. *)

\* the files the ends have, and the copies they have saved
Sources == [p \in Peers |-> node[p].source]
SavedFiles == [p \in Peers |-> node[p].saved]

\* A step that changes neither is none of FileCopies.
LEMMA CopiesStutter ==
    ASSUME \A p \in Peers : node'[p].source = node[p].source /\ node'[p].saved = node[p].saved
    PROVE  UNCHANGED Copies!vars
BY DEF Copies!vars

\* Work of an end saves a copy of what the other end has or had, or nothing.
LEMMA WorkedCopies ==
    ASSUME TransferInv, NEW p \in Peers, Worked(p)
    PROVE  [Copies!Next]_(Copies!vars)
<1>1. PICK k : /\ node' = [node EXCEPT ![p] = [k EXCEPT !.out = <<>>]] /\ Shape(k)
               /\ Keeps(node[p], k)
  BY DEF Worked
<1>2. DOMAIN node = Peers /\ Other(p) \in Peers /\ Other(p) # p
  BY InvAt
<1>3. node'[p] = [k EXCEPT !.out = <<>>] /\ \A q \in Peers \ {p} : node'[q] = node[q]
  BY <1>1, <1>2
<1>4. node'[p].source = node[p].source /\ node'[p].saved = k.saved
  BY <1>1, <1>3 DEF Shape, Fields, Keeps
<1>5. CASE k.saved = node[p].saved
  <2>1. ASSUME NEW q \in Peers PROVE node'[q].source = node[q].source /\ node'[q].saved = node[q].saved
    BY <1>3, <1>4, <1>5
  <2> QED BY <2>1, CopiesStutter
<1>6. ASSUME NEW f \in Files, Saves(node[p], k, f)
      PROVE  Copies!Save(p, f)
  <2> DEFINE v == node[p].receivers[f].version
  <2>1. /\ f \in DOMAIN node[p].receivers
        /\ k.saved = [node[p].saved EXCEPT ![f] = node[p].saved[f] \cup {Whole(v)}]
    BY <1>6 DEF Saves
  <2>2. v \in 1 .. MaxVersion
    <3>1. RecvSide(Other(p), node[p])
      BY InvAt DEF Half
    <3> QED BY <2>1, <3>1 DEF RecvSide, Versions
  <2>3. v <= node[Other(p)].source[f]
    <3>1. Dated(node[p], node[Other(p)].source)
      BY InvAt DEF Good, Link
    <3> QED BY <2>1, <3>1 DEF Dated
  <2> HIDE DEF v
  <2>4. Sources' = Sources
    <3>1. ASSUME NEW q \in Peers PROVE node'[q].source = node[q].source
      BY <1>3, <1>4
    <3> QED BY <3>1 DEF Sources
  <2>5. SavedFiles' = [SavedFiles EXCEPT ![p] = [SavedFiles[p] EXCEPT ![f] = SavedFiles[p][f] \cup {Whole(v)}]]
    <3>1. \A q \in Peers \ {p} : node'[q].saved = node[q].saved
      BY <1>3
    <3>2. node'[p].saved = [node[p].saved EXCEPT ![f] = node[p].saved[f] \cup {Whole(v)}]
      BY <1>4, <2>1
    <3> QED BY <3>1, <3>2 DEF SavedFiles
  <2>6. Other(p) \in Peers \ {p} /\ v <= Sources[Other(p)][f]
    BY <1>2, <2>3 DEF Sources
  <2>7. Whole(v) = Copies!Whole(v)
    BY DEF Whole, Copies!Whole
  <2> QED BY <2>2, <2>4, <2>5, <2>6, <2>7, ZenonT(40) DEF Copies!Save, Sources, SavedFiles
<1>7. CASE \E f \in Files : Saves(node[p], k, f)
  BY <1>6, <1>7 DEF Copies!Next
<1> QED BY <1>1, <1>5, <1>7 DEF Keeps

\* An edit is one.
LEMMA EditCopies ==
    ASSUME TransferInv, NEW p \in Peers, NEW f \in Files, Edit(p, f)
    PROVE  Copies!Edit(p, f)
<1>1. DOMAIN node = Peers /\ Shape(node[p])
  BY InvAt
<1>2. /\ node' = [node EXCEPT ![p] = [node[p] EXCEPT !.source = [node[p].source EXCEPT ![f] = node[p].source[f] + 1]]]
      /\ node[p].source[f] < MaxVersion
  BY DEF Edit
<1>3. /\ node'[p].source = [node[p].source EXCEPT ![f] = node[p].source[f] + 1]
      /\ node'[p].saved = node[p].saved
      /\ \A q \in Peers \ {p} : node'[q] = node[q]
  BY <1>1, <1>2 DEF Shape, Fields
<1>4. SavedFiles' = SavedFiles
  <2>1. ASSUME NEW q \in Peers PROVE node'[q].saved = node[q].saved
    BY <1>3
  <2> QED BY <2>1 DEF SavedFiles
<1>5. Sources' = [Sources EXCEPT ![p] = [Sources[p] EXCEPT ![f] = Sources[p][f] + 1]]
  BY <1>3 DEF Sources
<1>6. Sources[p][f] < MaxVersion
  BY <1>2 DEF Sources
<1> QED BY <1>4, <1>5, <1>6 DEF Copies!Edit, Sources, SavedFiles

\* Any step.
LEMMA StepCopies ==
    ASSUME OneWay, TransferInv, [Next]_vars
    PROVE  [Copies!Next]_(Copies!vars)
<1>1. CASE UNCHANGED vars
  BY <1>1, CopiesStutter DEF vars
<1>2. ASSUME NEW p \in Peers, Work(p)
      PROVE  [Copies!Next]_(Copies!vars)
  BY <1>2, WorkGood, WorkedCopies
<1>3. ASSUME NEW p \in Peers, NEW f \in Files, Edit(p, f)
      PROVE  [Copies!Next]_(Copies!vars)
  BY <1>3, EditCopies DEF Copies!Next
<1>4. ASSUME NEW crashed \in SUBSET Peers, Disconnect(crashed)
      PROVE  [Copies!Next]_(Copies!vars)
  BY <1>4, DisconnectGood, CopiesStutter
<1>5. ASSUME Connect PROVE [Copies!Next]_(Copies!vars)
  BY <1>5, ConnectGood, CopiesStutter
<1>6. CASE Next
  BY <1>2, <1>3, <1>4, <1>5, <1>6, Steps
<1> QED BY <1>1, <1>6

\* Nothing is saved at first.
LEMMA InitCopies == Init => Copies!Init
<1>1. Blank.source = [f \in Files |-> 1] /\ Blank.saved = [f \in Files |-> {}]
  BY DEF Blank, FreshEngine
<1>2. ASSUME Init PROVE Copies!Init
  <2>1. \A p \in Peers : node[p] = Blank
    BY <1>2 DEF Init
  <2> QED BY <1>1, <2>1 DEF Copies!Init
<1> QED BY <1>2

\* File transfer implements FileCopies: on_finish saves a whole copy of a version the
\* other end has or had, and nothing else touches the saved files.
THEOREM TransferImplementsCopies == OneWay => (Spec => OnlyWholeCopies)
<1> SUFFICES ASSUME OneWay PROVE Spec => OnlyWholeCopies
  OBVIOUS
<1>1. TransferInv /\ [Next]_vars => [Copies!Next]_(Copies!vars)
  BY StepCopies
<1>2. Spec => []TransferInv
  BY TransferInvariant
<1> QED BY <1>1, <1>2, InitCopies, PTL DEF Spec, OnlyWholeCopies, Copies!Spec
=============================================================================
