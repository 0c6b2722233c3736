------------------------- MODULE ConnLimiterProofs -------------------------
(***************************************************************************)
(* Proofs about ConnLimiter, for any number of handlers, addresses and     *)
(* ticks and any configuration of the limiter.                             *)
(*                                                                         *)
(* The code keeps its books lazily: old attempts leave a bucket, and a     *)
(* lapsed ban is lifted, only when the bucket is next touched.  The        *)
(* histories of the specification follow the clock.  The inductive         *)
(* invariant says bucket by bucket how the two agree (Kept), and counts,   *)
(* besides the buckets, the handshakes whose bucket is gone: each of them  *)
(* may still enter one without pruning (Sized).                            *)
(***************************************************************************)
EXTENDS ConnLimiter, FiniteSetTheorems, SequenceTheorems,
        WellFoundedInduction, TLAPS

\* Handlers in a handshake whose bucket has been evicted.
Missing == {c \in Conns : peer[c] # NoKey /\ peer[c] \notin DOMAIN buckets}

\* Bucket b at time n agrees with the histories g, st and d of its key.
Kept(b, n, g, st, d) ==
    /\ b \in Bucket
    /\ d > n => b.until = d
    /\ b.until > n => d = b.until
    /\ b.until = 0 \/ b.until > n => b.failures =< st
    /\ Len(b.attempts) =< MaxAttempts
    /\ g = Recent(b.attempts, n)

\* What the histories say of a key that the table does not hold.
Absent(n, g, d) == g = <<>> /\ d =< n

Agrees ==
    \A k \in Keys :
        IF k \in DOMAIN buckets
        THEN Kept(buckets[k], now, granted[k], strikes[k], due[k])
        ELSE Absent(now, granted[k], due[k])

Sized ==
    Cardinality(DOMAIN buckets) + Cardinality(Missing)
        =< MaxBuckets + Cardinality(Conns)

IInv == TypeOK /\ Agrees /\ Sized

-----------------------------------------------------------------------------
(* The window *)

\* Every nonempty set of numbers has a least element.
LEMMA LeastNumber ==
    ASSUME NEW T \in SUBSET Nat, T # {}
    PROVE  \E m \in T : \A n \in T : m =< n
<1>1. PICK m \in T : \A n \in T : ~(<<n, m>> \in OpToRel(<, Nat))
    BY NatLessThanWellFounded, WFMin
<1>2. ASSUME NEW n \in T PROVE m =< n
    <2>1. <<n, m>> \in OpToRel(<, Nat) <=> n < m
        BY DEF OpToRel
    <2>2. ~(n < m)
        BY <1>1, <2>1, Zenon
    <2> QED BY <2>2
<1> QED BY <1>2

\* A sequence of members of a set of numbers is a sequence of numbers.
LEMMA SeqOfInt ==
    ASSUME NEW S \in SUBSET Int, NEW s \in Seq(S)
    PROVE  Len(s) \in Nat /\ \A j \in 1 .. Len(s) : s[j] \in Int
<1>1. Len(s) \in Nat /\ \A j \in 1 .. Len(s) : s[j] \in S
    OBVIOUS
<1> QED BY <1>1

\* Recent keeps a suffix: all before it is old, and it begins with an
\* attempt the window covers.
LEMMA RecentIsSuffix ==
    ASSUME NEW S \in SUBSET Int, NEW s \in Seq(S), NEW t \in Int
    PROVE  \E i \in 1 .. Len(s) + 1 :
              /\ \A j \in 1 .. i - 1 : t - s[j] > Window
              /\ i =< Len(s) => t - s[i] =< Window
              /\ Recent(s, t) = SubSeq(s, i, Len(s))
<1> DEFINE Good(i) == /\ \A j \in 1 .. i - 1 : t - s[j] > Window
                      /\ i =< Len(s) => t - s[i] =< Window
           T == {i \in 1 .. Len(s) + 1 : i = Len(s) + 1 \/ t - s[i] =< Window}
<1>0. Len(s) \in Nat /\ \A j \in 1 .. Len(s) : s[j] \in Int
    BY SeqOfInt
<1>1. T \in SUBSET Nat /\ T # {}
    <2>1. Len(s) + 1 \in T
        BY <1>0
    <2> QED BY <1>0, <2>1
<1>2. PICK i \in T : \A n \in T : i =< n
    BY <1>1, LeastNumber
<1>3. i \in 1 .. Len(s) + 1 /\ Good(i)
    <2>1. ASSUME NEW j \in 1 .. i - 1 PROVE t - s[j] > Window
        <3>1. j \in 1 .. Len(s) /\ j \notin T
            BY <1>0, <1>2
        <3> QED BY <1>0, <3>1, LimiterAssumption
    <2> QED BY <1>0, <1>2, <2>1
<1>4. Good(CHOOSE n \in 1 .. Len(s) + 1 : Good(n))
      /\ (CHOOSE n \in 1 .. Len(s) + 1 : Good(n)) \in 1 .. Len(s) + 1
    BY <1>3, Zenon
<1> HIDE DEF T
<1>5. Recent(s, t) = SubSeq(s, CHOOSE n \in 1 .. Len(s) + 1 : Good(n), Len(s))
    BY DEF Recent
<1> QED BY <1>4, <1>5, Zenon

\* A sequence whose first attempt the window covers is kept whole.
LEMMA RecentWhole ==
    ASSUME NEW S \in SUBSET Int, NEW s \in Seq(S), NEW t \in Int,
           s = <<>> \/ t - s[1] =< Window
    PROVE  Recent(s, t) = s
<1>1. PICK i \in 1 .. Len(s) + 1 :
              /\ \A j \in 1 .. i - 1 : t - s[j] > Window
              /\ i =< Len(s) => t - s[i] =< Window
              /\ Recent(s, t) = SubSeq(s, i, Len(s))
    BY RecentIsSuffix
<1>2. i = 1
    <2>1. CASE s = <<>>
        BY <1>1, <2>1
    <2>2. CASE s # <<>> /\ t - s[1] =< Window
        <3>1. 1 \in 1 .. Len(s) /\ s[1] \in Int
            BY <2>2, SeqOfInt
        <3>2. ~(t - s[1] > Window)
            BY <2>2, <3>1, LimiterAssumption
        <3> QED BY <1>1, <3>1, <3>2
    <2> QED BY <2>1, <2>2
<1> QED BY <1>1, <1>2

\* What Recent returns: times of the sequence, no more of them, and the first
\* is in the window.
LEMMA RecentTyped ==
    ASSUME NEW S \in SUBSET Int, NEW s \in Seq(S), NEW t \in Int
    PROVE  /\ Recent(s, t) \in Seq(S)
           /\ Len(Recent(s, t)) =< Len(s)
           /\ Recent(s, t) = <<>> \/ t - Recent(s, t)[1] =< Window
<1>1. PICK i \in 1 .. Len(s) + 1 :
              /\ \A j \in 1 .. i - 1 : t - s[j] > Window
              /\ i =< Len(s) => t - s[i] =< Window
              /\ Recent(s, t) = SubSeq(s, i, Len(s))
    BY RecentIsSuffix
<1> DEFINE r == SubSeq(s, i, Len(s))
<1>2. r \in Seq(S) /\ Len(r) = Len(s) + 1 - i
      /\ \A j \in 1 .. Len(r) : r[j] = s[i + j - 1]
    OBVIOUS
<1>3. r = <<>> \/ t - r[1] =< Window
    <2>1. CASE i = Len(s) + 1
        BY <1>2, <2>1
    <2>2. CASE i =< Len(s)
        <3>1. r[1] = s[i]
            BY <1>2, <2>2
        <3> QED BY <1>1, <2>2, <3>1
    <2> QED BY <2>1, <2>2
<1> QED BY <1>1, <1>2, <1>3

\* Looking twice, the second time later, is looking once.
LEMMA RecentTwice ==
    ASSUME NEW S \in SUBSET Int, NEW s \in Seq(S), NEW t \in Int, NEW u \in Int, t =< u
    PROVE  Recent(Recent(s, t), u) = Recent(s, u)
<1>1. PICK i \in 1 .. Len(s) + 1 :
              /\ \A j \in 1 .. i - 1 : t - s[j] > Window
              /\ i =< Len(s) => t - s[i] =< Window
              /\ Recent(s, t) = SubSeq(s, i, Len(s))
    BY RecentIsSuffix
<1>2. PICK m \in 1 .. Len(s) + 1 :
              /\ \A j \in 1 .. m - 1 : u - s[j] > Window
              /\ m =< Len(s) => u - s[m] =< Window
              /\ Recent(s, u) = SubSeq(s, m, Len(s))
    BY RecentIsSuffix
<1> DEFINE r == SubSeq(s, i, Len(s))
<1>3. r \in Seq(S) /\ Len(r) = Len(s) + 1 - i
      /\ \A j \in 1 .. Len(r) : r[j] = s[i + j - 1]
    OBVIOUS
<1>4. PICK n \in 1 .. Len(r) + 1 :
              /\ \A j \in 1 .. n - 1 : u - r[j] > Window
              /\ n =< Len(r) => u - r[n] =< Window
              /\ Recent(r, u) = SubSeq(r, n, Len(r))
    BY <1>3, RecentIsSuffix
<1>5. \A j \in 1 .. Len(s) : s[j] \in Int
    BY SeqOfInt
<1>6. i =< m
    <2>1. SUFFICES ASSUME m < i PROVE FALSE
        OBVIOUS
    <2>2. m \in 1 .. i - 1 /\ m \in 1 .. Len(s)
        BY <2>1
    <2> QED BY <1>1, <1>2, <1>5, <2>2, LimiterAssumption
<1>7. m = i + n - 1
    <2>1. ASSUME i + n - 1 < m PROVE FALSE
        <3>1. n \in 1 .. Len(r) /\ i + n - 1 \in 1 .. m - 1
              /\ i + n - 1 \in 1 .. Len(s) /\ r[n] = s[i + n - 1]
            BY <1>3, <2>1
        <3>2. u - s[i + n - 1] > Window /\ u - s[i + n - 1] =< Window
            BY <1>2, <1>4, <3>1
        <3>3. s[i + n - 1] \in Int
            BY <1>5, <3>1
        <3> QED BY <3>2, <3>3, LimiterAssumption
    <2>2. ASSUME m < i + n - 1 PROVE FALSE
        <3>1. /\ m + 1 - i \in 1 .. n - 1 /\ m + 1 - i \in 1 .. Len(r)
              /\ m \in 1 .. Len(s)
              /\ r[m + 1 - i] = s[i + (m + 1 - i) - 1]
            <4>1. m + 1 - i \in 1 .. n - 1
                BY <1>6, <2>2
            <4>2. n - 1 =< Len(r)
                BY <1>3
            <4>3. m + 1 - i \in 1 .. Len(r)
                BY <1>3, <4>1, <4>2
            <4>4. m \in 1 .. Len(s)
                BY <1>3, <4>3
            <4> QED BY <1>3, <4>1, <4>3, <4>4
        <3>2. i + (m + 1 - i) - 1 = m
            OBVIOUS
        <3>3. u - s[m] > Window
            BY <1>4, <3>1, <3>2
        <3> QED BY <1>2, <1>5, <3>1, <3>3, LimiterAssumption
    <2> QED BY <1>3, <2>1, <2>2
<1>8. SubSeq(r, n, Len(r)) = SubSeq(s, m, Len(s))
    <2>1. /\ SubSeq(r, n, Len(r)) \in Seq(S)
          /\ Len(SubSeq(r, n, Len(r))) = Len(r) + 1 - n
          /\ \A j \in 1 .. Len(r) + 1 - n : SubSeq(r, n, Len(r))[j] = r[n + j - 1]
        BY <1>3
    <2>2. /\ SubSeq(s, m, Len(s)) \in Seq(S)
          /\ Len(SubSeq(s, m, Len(s))) = Len(s) + 1 - m
          /\ \A j \in 1 .. Len(s) + 1 - m : SubSeq(s, m, Len(s))[j] = s[m + j - 1]
        OBVIOUS
    <2>3. Len(r) + 1 - n = Len(s) + 1 - m
        BY <1>3, <1>7
    <2>4. ASSUME NEW j \in 1 .. Len(s) + 1 - m
          PROVE  r[n + j - 1] = s[m + j - 1]
        <3>1. n + j - 1 \in 1 .. Len(r) /\ i + (n + j - 1) - 1 = m + j - 1
            BY <1>3, <1>7
        <3> QED BY <1>3, <3>1
    <2> HIDE DEF r
    <2> QED BY <2>1, <2>2, <2>3, <2>4, SeqEqual
<1> QED BY <1>1, <1>2, <1>4, <1>8

\* The empty sequence stays empty.
LEMMA RecentEmpty ==
    ASSUME NEW t \in Int
    PROVE  Recent(<<>>, t) = <<>>
<1>1. <<>> \in Seq(Int)
    OBVIOUS
<1> QED BY <1>1, RecentWhole

-----------------------------------------------------------------------------
(* Buckets *)

\* Ticks are positive numbers.
LEMMA TimeIsInt ==
    /\ Time \in SUBSET Int
    /\ \A t \in Time : t \in Nat /\ t >= 1
BY LimiterAssumption DEF Time

\* The bucket a call works on agrees with the histories, whether it was in
\* the table or is new.
LEMMA EntryKept ==
    ASSUME IInv, NEW k \in Keys
    PROVE  Kept(Entry(k), now, granted[k], strikes[k], due[k])
<1>0. now \in Time /\ strikes[k] \in Nat /\ due[k] \in Nat
    BY DEF IInv, TypeOK
<1>1. CASE k \in DOMAIN buckets
    <2>1. Kept(buckets[k], now, granted[k], strikes[k], due[k])
        BY <1>1 DEF IInv, Agrees
    <2>2. Entry(k) = [buckets[k] EXCEPT !.seen = now]
        BY <1>1 DEF Entry
    <2>3. /\ Entry(k) \in Bucket
          /\ Entry(k).attempts = buckets[k].attempts
          /\ Entry(k).failures = buckets[k].failures
          /\ Entry(k).until = buckets[k].until
        BY <1>0, <2>1, <2>2 DEF Kept, Bucket
    <2> QED BY <2>1, <2>3 DEF Kept
<1>2. CASE k \notin DOMAIN buckets
    <2>1. Absent(now, granted[k], due[k])
        BY <1>2 DEF IInv, Agrees
    <2>2. /\ Entry(k) = [attempts |-> <<>>, failures |-> 0, until |-> 0,
                         seen |-> now, bans |-> 0]
        BY <1>2 DEF Entry, NewBucket
    <2>3. <<>> \in Seq(Time) /\ Len(<<>>) = 0
        OBVIOUS
    <2>4. Entry(k) \in Bucket
        BY <1>0, <2>2, <2>3 DEF Bucket
    <2>5. Recent(<<>>, now) = <<>>
        BY <1>0, TimeIsInt, RecentEmpty
    <2> QED
        BY <1>0, <2>1, <2>2, <2>3, <2>4, <2>5, TimeIsInt, LimiterAssumption
        DEF Kept, Absent
<1> QED BY <1>1, <1>2

\* Sweeping brings the attempts to what the history has.
LEMMA SweptKept ==
    ASSUME now \in Time, NEW b, NEW g, NEW st \in Nat, NEW d \in Nat,
           Kept(b, now, g, st, d)
    PROVE  /\ Kept(Swept(b), now, g, st, d)
           /\ Swept(b).attempts = g
           /\ g \in Seq(Time)
           /\ g = <<>> \/ now - g[1] =< Window
<1>1. b \in Bucket /\ g = Recent(b.attempts, now) /\ b.attempts \in Seq(Time)
    BY DEF Kept, Bucket
<1>2. /\ g \in Seq(Time) /\ Len(g) =< Len(b.attempts)
      /\ g = <<>> \/ now - g[1] =< Window
    BY <1>1, TimeIsInt, RecentTyped
<1>3. Recent(g, now) = g
    BY <1>2, TimeIsInt, RecentWhole
<1>4. /\ Swept(b) \in Bucket
      /\ Swept(b).attempts = g
      /\ Swept(b).failures = b.failures
      /\ Swept(b).until = b.until
    BY <1>1, <1>2 DEF Swept, Bucket
<1>5. Len(g) \in Nat /\ Len(b.attempts) \in Nat
    BY <1>1, <1>2
<1>6. Len(g) =< MaxAttempts
    BY <1>2, <1>5, LimiterAssumption DEF Kept
<1> QED BY <1>2, <1>3, <1>4, <1>6 DEF Kept

\* Lifting a ban that has run out keeps the agreement; a bucket that is not
\* banned afterwards belongs to a key whose last ban is over.
LEMMA LiftedKept ==
    ASSUME now \in Time, NEW b, NEW g, NEW st \in Nat, NEW d \in Nat,
           Kept(b, now, g, st, d)
    PROVE  /\ Kept(Lifted(b), now, g, st, d)
           /\ Lifted(b).attempts = b.attempts
           /\ Lifted(b).until = 0 \/ Banned(Lifted(b))
           /\ ~Banned(Lifted(b)) => d =< now
<1>0. now \in Nat /\ now >= 1
    BY TimeIsInt
<1>1. CASE b.until = 0 \/ Banned(b)
    <2>1. Lifted(b) = b
        BY <1>1 DEF Lifted
    <2> QED BY <1>0, <1>1, <2>1 DEF Kept, Banned, Bucket
<1>2. CASE ~(b.until = 0 \/ Banned(b))
    <2>1. Lifted(b) = [b EXCEPT !.until = 0, !.failures = 0]
        BY <1>2 DEF Lifted
    <2>2. /\ Lifted(b) \in Bucket
          /\ Lifted(b).attempts = b.attempts
          /\ Lifted(b).failures = 0
          /\ Lifted(b).until = 0
        <3>1. b \in Bucket
            BY DEF Kept
        <3>2. 0 \in Nat
            OBVIOUS
        <3>3. [b EXCEPT !.until = 0, !.failures = 0] \in Bucket
            BY <3>1, <3>2 DEF Bucket
        <3>4. /\ [b EXCEPT !.until = 0, !.failures = 0].attempts = b.attempts
              /\ [b EXCEPT !.until = 0, !.failures = 0].failures = 0
              /\ [b EXCEPT !.until = 0, !.failures = 0].until = 0
            BY <3>1 DEF Bucket
        <3> QED BY <2>1, <3>3, <3>4
    <2>3. b.until =< now /\ d =< now
        BY <1>0, <1>2 DEF Kept, Banned, Bucket
    <2> QED BY <1>0, <2>2, <2>3 DEF Kept, Banned
<1> QED BY <1>1, <1>2

\* One more failure keeps the agreement with one more strike, and a ban it
\* orders has been earned.
LEMMA StruckKept ==
    ASSUME now \in Time, NEW b, NEW g, NEW st \in Nat, NEW d \in Nat,
           Kept(b, now, g, st, d),
           b.until = 0 \/ Banned(b),
           ~Banned(b) => d =< now
    PROVE  LET r == Struck(b)
               e == IF Banned(r) THEN r.until ELSE d
           IN  /\ Kept(r, now, g, st + 1, e)
               /\ e \in Nat
               /\ e # d => st + 1 >= Threshold
<1> DEFINE r == Struck(b)
           e == IF Banned(r) THEN r.until ELSE d
<1>0. now \in Nat /\ now >= 1
    BY TimeIsInt
<1>1. /\ b \in Bucket /\ b.failures \in Nat /\ b.until \in Nat
      /\ b.bans \in 0 .. 3 /\ b.failures =< st
      /\ Banned(b) => d = b.until
    BY DEF Kept, Bucket, Banned
<1>2. CASE b.failures + 1 < Threshold
    <2>1. r = [b EXCEPT !.failures = b.failures + 1]
        BY <1>2 DEF Struck
    <2>2. /\ r \in Bucket /\ r.attempts = b.attempts
          /\ r.failures = b.failures + 1 /\ r.until = b.until
        BY <1>1, <2>1 DEF Bucket
    <2>3. e = d
        BY <1>1, <2>2 DEF Banned
    <2>4. Kept(r, now, g, st + 1, d)
        BY <1>0, <1>1, <2>2 DEF Kept
    <2> QED BY <2>3, <2>4
<1>3. CASE ~(b.failures + 1 < Threshold)
    <2>1. r = [b EXCEPT !.failures = b.failures + 1,
                        !.until = now + Escalated(b.bans),
                        !.bans = IF @ < 3 THEN @ + 1 ELSE 3]
        BY <1>3 DEF Struck
    <2>2. Escalated(b.bans) \in Nat \ {0}
        BY LimiterAssumption DEF Escalated
    <2>3. /\ r \in Bucket /\ r.attempts = b.attempts
          /\ r.failures = b.failures + 1
          /\ r.until = now + Escalated(b.bans)
        <3>1. now + Escalated(b.bans) \in Nat
            BY <1>0, <2>2
        <3>2. (IF b.bans < 3 THEN b.bans + 1 ELSE 3) \in 0 .. 3
            BY <1>1
        <3>3. b.failures + 1 \in Nat
            BY <1>1
        <3> HIDE DEF r
        <3> QED BY <1>1, <2>1, <3>1, <3>2, <3>3 DEF Bucket
    <2>4. Banned(r) /\ e = r.until /\ e \in Nat /\ e > now
        BY <1>0, <2>2, <2>3 DEF Banned
    <2>5. Kept(r, now, g, st + 1, e)
        BY <1>0, <1>1, <2>3, <2>4 DEF Kept
    <2> QED BY <1>1, <1>3, <2>4, <2>5, LimiterAssumption
<1> QED BY <1>2, <1>3

\* The bucket check_connect decides on.
LEMMA CheckedKept ==
    ASSUME IInv, NEW k \in Keys
    PROVE  LET b == Lifted(Swept(Entry(k)))
           IN  /\ Kept(b, now, granted[k], strikes[k], due[k])
               /\ b.attempts = granted[k]
               /\ granted[k] \in Seq(Time)
               /\ granted[k] = <<>> \/ now - granted[k][1] =< Window
               /\ ~Banned(b) => due[k] =< now
<1>0. now \in Time /\ strikes[k] \in Nat /\ due[k] \in Nat
    BY DEF IInv, TypeOK
<1>1. Kept(Entry(k), now, granted[k], strikes[k], due[k])
    BY EntryKept
<1>2. /\ Kept(Swept(Entry(k)), now, granted[k], strikes[k], due[k])
      /\ Swept(Entry(k)).attempts = granted[k]
      /\ granted[k] \in Seq(Time)
      /\ granted[k] = <<>> \/ now - granted[k][1] =< Window
    BY <1>0, <1>1, SweptKept
<1> QED BY <1>0, <1>2, LiftedKept

\* A key the table does not hold is never refused: Refuse enters no bucket.
LEMMA RefusedIsKnown ==
    ASSUME IInv, NEW k \in Keys, Refuse(k)
    PROVE  k \in DOMAIN buckets
<1> DEFINE b == Lifted(Swept(Entry(k)))
<1>1. SUFFICES ASSUME k \notin DOMAIN buckets PROVE FALSE
    OBVIOUS
<1>2. granted[k] = <<>> /\ due[k] =< now
    BY <1>1 DEF IInv, Agrees, Absent
<1>3. b.attempts = <<>> /\ (Banned(b) => due[k] = b.until)
    BY <1>2, CheckedKept DEF Kept, Banned
<1>4. ~Banned(b)
    <2>1. due[k] \in Nat /\ now \in Nat
        BY TimeIsInt DEF IInv, TypeOK
    <2> QED BY <1>2, <1>3, <2>1 DEF Banned
<1>5. Len(b.attempts) = 0
    BY <1>3
<1> QED BY <1>4, <1>5, LimiterAssumption DEF Refuse

-----------------------------------------------------------------------------
(* Steps *)

\* The set of keys the table holds is finite.
LEMMA TableFinite ==
    ASSUME TypeOK
    PROVE  /\ IsFiniteSet(DOMAIN buckets)
           /\ Cardinality(DOMAIN buckets) \in Nat
           /\ Cardinality(Conns) \in Nat
           /\ IsFiniteSet(Missing) /\ Cardinality(Missing) \in Nat
<1>1. IsFiniteSet(DOMAIN buckets)
    BY FS_Subset, LimiterAssumption DEF TypeOK
<1>2. IsFiniteSet(Missing)
    BY FS_Subset, LimiterAssumption DEF Missing
<1> QED BY <1>1, <1>2, FS_CardinalityType, LimiterAssumption

\* What survives pruning is part of the table and within the limit.
LEMMA SurvivorsFacts ==
    ASSUME NEW table, IsFiniteSet(DOMAIN table), NEW S \in Survivors(table)
    PROVE  S \subseteq DOMAIN table /\ Cardinality(S) =< MaxBuckets
<1> DEFINE kept == {k \in DOMAIN table : Remembered(table[k])}
<1>1. CASE Cardinality(DOMAIN table) =< MaxBuckets
    BY <1>1 DEF Survivors
<1>2. CASE /\ ~(Cardinality(DOMAIN table) =< MaxBuckets)
           /\ Cardinality(kept) =< MaxBuckets
    BY <1>2 DEF Survivors
<1>3. CASE /\ ~(Cardinality(DOMAIN table) =< MaxBuckets)
           /\ ~(Cardinality(kept) =< MaxBuckets)
    <2>1. S \in SUBSET kept /\ Cardinality(S) = MaxBuckets
        BY <1>3 DEF Survivors
    <2> QED BY <2>1, LimiterAssumption
<1> QED BY <1>1, <1>2, <1>3

\* A handshake that ends takes nothing away from the room it may still need.
LEMMA MissingShrinks ==
    ASSUME TypeOK, NEW c \in Conns,
           peer' = [peer EXCEPT ![c] = NoKey],
           DOMAIN buckets \subseteq DOMAIN buckets'
    PROVE  /\ Missing' \subseteq Missing \ {c}
           /\ IsFiniteSet(Missing') /\ Cardinality(Missing') \in Nat
           /\ Cardinality(Missing') =< Cardinality(Missing)
           /\ c \in Missing => Cardinality(Missing') =< Cardinality(Missing) - 1
<1>1. Missing' \subseteq Missing \ {c}
    BY DEF Missing, TypeOK
<1>2. IsFiniteSet(Missing) /\ Cardinality(Missing) \in Nat
    BY TableFinite
<1>3. /\ IsFiniteSet(Missing \ {c})
      /\ Cardinality(Missing \ {c}) =
            IF c \in Missing THEN Cardinality(Missing) - 1
                             ELSE Cardinality(Missing)
    BY <1>2, FS_RemoveElement
<1>4. IsFiniteSet(Missing') /\ Cardinality(Missing') =< Cardinality(Missing \ {c})
    BY <1>1, <1>3, FS_Subset
<1>5. Cardinality(Missing') \in Nat
    BY <1>4, FS_CardinalityType
<1> QED BY <1>1, <1>2, <1>3, <1>4, <1>5

\* A refused check sweeps and lifts, and changes nothing else.
LEMMA RefuseStep ==
    ASSUME IInv, NEW k \in Keys, Refuse(k)
    PROVE  IInv'
<1> DEFINE b == Lifted(Swept(Entry(k)))
<1>1. k \in DOMAIN buckets
    BY RefusedIsKnown
<1>2. Kept(b, now, granted[k], strikes[k], due[k])
    BY CheckedKept
<1>3. /\ buckets' = With(k, b)
      /\ UNCHANGED <<now, peer, granted, strikes, due>>
    BY DEF Refuse
<1> HIDE DEF b
<1>4. DOMAIN buckets' = DOMAIN buckets /\ buckets'[k] = b
      /\ \A j \in DOMAIN buckets : j # k => buckets'[j] = buckets[j]
    <2>1. /\ DOMAIN With(k, b) = DOMAIN buckets \cup {k}
          /\ With(k, b)[k] = b
          /\ \A j \in DOMAIN buckets : j # k => With(k, b)[j] = buckets[j]
        BY DEF With
    <2> QED BY <1>1, <1>3, <2>1
<1>5. Agrees'
    BY <1>1, <1>2, <1>3, <1>4 DEF IInv, Agrees
<1>6. TypeOK'
    BY <1>2, <1>3, <1>4 DEF IInv, TypeOK, Kept
<1>7. Sized'
    <2>1. Missing' = Missing
        BY <1>3, <1>4 DEF Missing
    <2> QED BY <1>3, <1>4, <2>1 DEF IInv, Sized
<1> QED BY <1>5, <1>6, <1>7 DEF IInv

\* A failure counts against the key, and may enter its bucket anew.
LEMMA FailStep ==
    ASSUME IInv, NEW c \in Conns, Fail(c)
    PROVE  /\ IInv'
           /\ \A k \in Keys : due'[k] # due[k] => strikes'[k] >= Threshold
<1> DEFINE k == peer[c]
           l == Lifted(Entry(k))
           b == Struck(l)
           e == IF Banned(b) THEN b.until ELSE due[k]
<1>0. now \in Time /\ k \in Keys /\ strikes[k] \in Nat /\ due[k] \in Nat
    BY DEF IInv, TypeOK, Fail
<1>1. Kept(Entry(k), now, granted[k], strikes[k], due[k])
    BY <1>0, EntryKept
<1>2. /\ Kept(l, now, granted[k], strikes[k], due[k])
      /\ l.until = 0 \/ Banned(l)
      /\ ~Banned(l) => due[k] =< now
    BY <1>0, <1>1, LiftedKept
<1>3. /\ Kept(b, now, granted[k], strikes[k] + 1, e)
      /\ e \in Nat
      /\ e # due[k] => strikes[k] + 1 >= Threshold
    <2> HIDE DEF l
    <2> QED BY <1>0, <1>2, StruckKept
<1>4. /\ buckets' = With(k, b)
      /\ strikes' = [strikes EXCEPT ![k] = @ + 1]
      /\ due' = [due EXCEPT ![k] = e]
      /\ peer' = [peer EXCEPT ![c] = NoKey]
      /\ UNCHANGED <<now, granted>>
    BY DEF Fail
<1> HIDE DEF b, e, l
<1>5. /\ DOMAIN buckets' = DOMAIN buckets \cup {k}
      /\ buckets'[k] = b
      /\ \A j \in DOMAIN buckets : j # k => buckets'[j] = buckets[j]
    <2>1. /\ DOMAIN With(k, b) = DOMAIN buckets \cup {k}
          /\ With(k, b)[k] = b
          /\ \A j \in DOMAIN buckets : j # k => With(k, b)[j] = buckets[j]
        BY DEF With
    <2> QED BY <1>4, <2>1
<1>6. /\ strikes'[k] = strikes[k] + 1 /\ due'[k] = e
      /\ \A j \in Keys : j # k => strikes'[j] = strikes[j] /\ due'[j] = due[j]
    BY <1>0, <1>4 DEF IInv, TypeOK
<1>7. Agrees'
    <2> SUFFICES ASSUME NEW j \in Keys
                 PROVE  IF j \in DOMAIN buckets'
                        THEN Kept(buckets'[j], now', granted'[j], strikes'[j], due'[j])
                        ELSE Absent(now', granted'[j], due'[j])
        BY DEF Agrees
    <2>1. CASE j = k
        BY <1>3, <1>4, <1>5, <1>6, <2>1
    <2>2. CASE j # k
        BY <1>4, <1>5, <1>6, <2>2 DEF IInv, Agrees
    <2> QED BY <2>1, <2>2
<1>8. TypeOK'
    <2>1. strikes' \in [Keys -> Nat] /\ due' \in [Keys -> Nat]
        BY <1>0, <1>3, <1>4 DEF IInv, TypeOK
    <2>2. peer' \in [Conns -> Keys \cup {NoKey}]
        BY <1>4 DEF IInv, TypeOK
    <2>3. DOMAIN buckets' \subseteq Keys
          /\ \A j \in DOMAIN buckets' : buckets'[j] \in Bucket
        BY <1>0, <1>3, <1>5 DEF IInv, TypeOK, Kept
    <2> QED BY <1>4, <2>1, <2>2, <2>3 DEF IInv, TypeOK
<1>9. Sized'
    <2>1. /\ IsFiniteSet(DOMAIN buckets)
          /\ Cardinality(DOMAIN buckets) \in Nat
          /\ Cardinality(Conns) \in Nat
          /\ Cardinality(Missing) \in Nat
        BY TableFinite DEF IInv
    <2>2. /\ Cardinality(Missing') \in Nat
          /\ Cardinality(Missing') =< Cardinality(Missing)
          /\ c \in Missing => Cardinality(Missing') =< Cardinality(Missing) - 1
        BY <1>4, <1>5, MissingShrinks DEF IInv
    <2>3. Cardinality(DOMAIN buckets') =
             IF k \in DOMAIN buckets THEN Cardinality(DOMAIN buckets)
                                     ELSE Cardinality(DOMAIN buckets) + 1
        BY <1>5, <2>1, FS_AddElement
    <2>4. k \notin DOMAIN buckets => c \in Missing
        BY <1>0, LimiterAssumption DEF Missing
    <2> QED BY <2>1, <2>2, <2>3, <2>4, LimiterAssumption DEF IInv, Sized
<1>10. \A j \in Keys : due'[j] # due[j] => strikes'[j] >= Threshold
    BY <1>3, <1>6
<1> QED BY <1>7, <1>8, <1>9, <1>10 DEF IInv

\* A success forgives the key if the table still knows it.
LEMMA SucceedStep ==
    ASSUME IInv, NEW c \in Conns, Succeed(c)
    PROVE  IInv'
<1> DEFINE k == peer[c]
           b == Cleared(buckets[k])
<1>0. now \in Time /\ k \in Keys /\ now \in Int
    BY TimeIsInt DEF IInv, TypeOK, Succeed
<1>1. /\ buckets' = IF k \in DOMAIN buckets THEN With(k, b) ELSE buckets
      /\ granted' = [granted EXCEPT ![k] = <<>>]
      /\ strikes' = [strikes EXCEPT ![k] = 0]
      /\ peer' = [peer EXCEPT ![c] = NoKey]
      /\ UNCHANGED <<now, due>>
    BY DEF Succeed
<1>2. ASSUME k \in DOMAIN buckets
      PROVE  Kept(b, now, <<>>, 0, due[k])
    <2>1. Kept(buckets[k], now, granted[k], strikes[k], due[k])
        BY <1>0, <1>2 DEF IInv, Agrees
    <2>2. buckets[k] \in Bucket
        BY <2>1 DEF Kept
    <2>3. <<>> \in Seq(Time) /\ Len(<<>>) = 0
        OBVIOUS
    <2>4. /\ b \in Bucket /\ b.attempts = <<>> /\ b.failures = 0
          /\ b.until = buckets[k].until
        <3>1. 0 \in Nat /\ 0 \in 0 .. 3
            OBVIOUS
        <3>2. [buckets[k] EXCEPT !.attempts = <<>>, !.failures = 0, !.bans = 0]
                \in Bucket
            BY <2>2, <2>3, <3>1 DEF Bucket
        <3>3. b \in Bucket
            BY <3>2 DEF Cleared
        <3>4. b.attempts = <<>> /\ b.failures = 0 /\ b.until = buckets[k].until
            BY <2>2 DEF Cleared, Bucket
        <3> QED BY <3>3, <3>4
    <2>5. Recent(<<>>, now) = <<>>
        BY <1>0, RecentEmpty
    <2> QED BY <2>1, <2>3, <2>4, <2>5, LimiterAssumption DEF Kept
<1> HIDE DEF b
<1>3. /\ DOMAIN buckets' = DOMAIN buckets
      /\ k \in DOMAIN buckets => buckets'[k] = b
      /\ \A j \in DOMAIN buckets : j # k => buckets'[j] = buckets[j]
    <2>1. CASE k \in DOMAIN buckets
        <3>1. /\ DOMAIN With(k, b) = DOMAIN buckets \cup {k}
              /\ With(k, b)[k] = b
              /\ \A j \in DOMAIN buckets : j # k => With(k, b)[j] = buckets[j]
            BY DEF With
        <3> QED BY <1>1, <2>1, <3>1
    <2>2. CASE k \notin DOMAIN buckets
        BY <1>1, <2>2
    <2> QED BY <2>1, <2>2
<1>4. /\ granted'[k] = <<>> /\ strikes'[k] = 0
      /\ \A j \in Keys : j # k =>
            granted'[j] = granted[j] /\ strikes'[j] = strikes[j]
    BY <1>0, <1>1 DEF IInv, TypeOK
<1>5. Agrees'
    <2> SUFFICES ASSUME NEW j \in Keys
                 PROVE  IF j \in DOMAIN buckets'
                        THEN Kept(buckets'[j], now', granted'[j], strikes'[j], due'[j])
                        ELSE Absent(now', granted'[j], due'[j])
        BY DEF Agrees
    <2>1. CASE j = k /\ j \in DOMAIN buckets
        BY <1>1, <1>2, <1>3, <1>4, <2>1
    <2>2. CASE j = k /\ j \notin DOMAIN buckets
        BY <1>1, <1>3, <1>4, <2>2 DEF IInv, Agrees, Absent
    <2>3. CASE j # k
        BY <1>1, <1>3, <1>4, <2>3 DEF IInv, Agrees
    <2> QED BY <2>1, <2>2, <2>3
<1>6. TypeOK'
    <2>1. <<>> \in Seq(Time)
        OBVIOUS
    <2>2. granted' \in [Keys -> Seq(Time)] /\ strikes' \in [Keys -> Nat]
        BY <1>0, <1>1, <2>1 DEF IInv, TypeOK
    <2>3. peer' \in [Conns -> Keys \cup {NoKey}]
        BY <1>1 DEF IInv, TypeOK
    <2>4. \A j \in DOMAIN buckets' : buckets'[j] \in Bucket
        BY <1>2, <1>3 DEF IInv, TypeOK, Kept
    <2> QED BY <1>1, <1>3, <2>2, <2>3, <2>4 DEF IInv, TypeOK
<1>7. Sized'
    <2>1. /\ Cardinality(DOMAIN buckets) \in Nat
          /\ Cardinality(Conns) \in Nat
          /\ Cardinality(Missing) \in Nat
        BY TableFinite DEF IInv
    <2>2. /\ Cardinality(Missing') \in Nat
          /\ Cardinality(Missing') =< Cardinality(Missing)
        BY <1>1, <1>3, MissingShrinks DEF IInv
    <2> QED BY <1>3, <2>1, <2>2, LimiterAssumption DEF IInv, Sized
<1> QED BY <1>5, <1>6, <1>7 DEF IInv

\* A handshake that ends without a report leaves the books alone.
LEMMA LeaveStep ==
    ASSUME IInv, NEW c \in Conns, Leave(c)
    PROVE  IInv'
<1>1. /\ peer' = [peer EXCEPT ![c] = NoKey]
      /\ UNCHANGED <<now, buckets, granted, strikes, due>>
    BY DEF Leave
<1>2. TypeOK' /\ Agrees'
    BY <1>1 DEF IInv, TypeOK, Agrees
<1>3. Sized'
    <2>1. /\ Cardinality(DOMAIN buckets) \in Nat
          /\ Cardinality(Conns) \in Nat
          /\ Cardinality(Missing) \in Nat
        BY TableFinite DEF IInv
    <2>2. /\ Cardinality(Missing') \in Nat
          /\ Cardinality(Missing') =< Cardinality(Missing)
        BY <1>1, MissingShrinks DEF IInv
    <2> QED BY <1>1, <2>1, <2>2, LimiterAssumption DEF IInv, Sized
<1> QED BY <1>2, <1>3 DEF IInv

\* As time passes the window of the history moves on, and a ban that runs out
\* leaves a bucket whose failures no longer count.
LEMMA TickStep ==
    ASSUME IInv, Tick
    PROVE  IInv'
<1>0. now \in Time /\ now' = now + 1 /\ now' \in Time
    BY LimiterAssumption DEF IInv, TypeOK, Tick, Time
<1>1. /\ granted' = [k \in Keys |-> Recent(granted[k], now + 1)]
      /\ strikes' = [k \in Keys |-> IF due[k] = now + 1 THEN 0 ELSE strikes[k]]
      /\ UNCHANGED <<buckets, peer, due>>
    BY DEF Tick
<1>2. now \in Int /\ now + 1 \in Int /\ now \in Nat
    BY <1>0, TimeIsInt
<1>3. TypeOK'
    <2>1. \A k \in Keys : granted[k] \in Seq(Time)
        BY DEF IInv, TypeOK
    <2>2. \A k \in Keys : Recent(granted[k], now + 1) \in Seq(Time)
        BY <1>2, <2>1, TimeIsInt, RecentTyped
    <2>3. strikes' \in [Keys -> Nat]
        BY <1>1 DEF IInv, TypeOK
    <2> QED BY <1>0, <1>1, <2>2, <2>3 DEF IInv, TypeOK
<1>4. Agrees'
    <2> SUFFICES ASSUME NEW k \in Keys
                 PROVE  IF k \in DOMAIN buckets'
                        THEN Kept(buckets'[k], now', granted'[k], strikes'[k], due'[k])
                        ELSE Absent(now', granted'[k], due'[k])
        BY DEF Agrees
    <2>0. due[k] \in Nat /\ strikes[k] \in Nat
        BY DEF IInv, TypeOK
    <2>1. CASE k \in DOMAIN buckets
        <3> DEFINE b == buckets[k]
        <3>1. Kept(b, now, granted[k], strikes[k], due[k])
            BY <2>1 DEF IInv, Agrees
        <3>2. b \in Bucket /\ b.attempts \in Seq(Time) /\ b.until \in Nat
              /\ b.failures \in Nat
            BY <3>1 DEF Kept, Bucket
        <3>3. granted'[k] = Recent(b.attempts, now + 1)
            <4>1. granted'[k] = Recent(Recent(b.attempts, now), now + 1)
                BY <1>1, <3>1 DEF Kept
            <4>2. now =< now + 1
                BY <1>2
            <4> QED BY <1>2, <3>2, <4>1, <4>2, TimeIsInt, RecentTwice
        <3>4. due'[k] = due[k] /\ buckets'[k] = b
              /\ strikes'[k] = IF due[k] = now + 1 THEN 0 ELSE strikes[k]
            BY <1>1
        <3>5. /\ due[k] > now + 1 => b.until = due[k]
              /\ b.until > now + 1 => due[k] = b.until
            BY <1>2, <2>0, <3>1, <3>2 DEF Kept
        <3>6. b.until = 0 \/ b.until > now + 1 =>
                 b.failures =< (IF due[k] = now + 1 THEN 0 ELSE strikes[k])
            BY <1>2, <2>0, <3>1, <3>2 DEF Kept
        <3>7. Len(b.attempts) =< MaxAttempts
            BY <3>1 DEF Kept
        <3> QED BY <1>0, <2>1, <3>2, <3>3, <3>4, <3>5, <3>6, <3>7, <1>1 DEF Kept
    <2>2. CASE k \notin DOMAIN buckets
        <3>1. granted[k] = <<>> /\ due[k] =< now
            BY <2>2 DEF IInv, Agrees, Absent
        <3>2. granted'[k] = <<>>
            BY <1>1, <1>2, <3>1, RecentEmpty
        <3> QED BY <1>0, <1>1, <1>2, <2>0, <2>2, <3>1, <3>2 DEF Absent
    <2> QED BY <2>1, <2>2
<1>5. Sized'
    <2>1. Missing' = Missing
        BY <1>1 DEF Missing
    <2> QED BY <1>1, <2>1 DEF IInv, Sized
<1> QED BY <1>3, <1>4, <1>5 DEF IInv

\* An admission counts, and pruning takes a key's bucket and its histories
\* together; nobody is admitted while the last ban of its key lasts.
LEMMA AdmitStep ==
    ASSUME IInv, NEW c \in Conns, NEW k \in Keys, Admit(c, k)
    PROVE  IInv' /\ due[k] =< now
<1> DEFINE b     == Lifted(Swept(Entry(k)))
           a     == [b EXCEPT !.attempts = Append(@, now)]
           table == With(k, a)
           more  == [granted EXCEPT ![k] = Append(@, now)]
<1>0. now \in Time /\ now \in Int /\ now \in Nat
    BY TimeIsInt DEF IInv, TypeOK
<1>1. /\ Kept(b, now, granted[k], strikes[k], due[k])
      /\ b.attempts = granted[k]
      /\ granted[k] \in Seq(Time)
      /\ granted[k] = <<>> \/ now - granted[k][1] =< Window
      /\ ~Banned(b) => due[k] =< now
    BY CheckedKept
<1>2. /\ ~Banned(b)
      /\ Len(b.attempts) < MaxAttempts
      /\ peer' = [peer EXCEPT ![c] = k]
      /\ now' = now
    BY DEF Admit
<1>3. PICK S \in Survivors(table) :
         /\ buckets' = Restrict(table, S)
         /\ granted' = Forget(more, DOMAIN table \ S, <<>>)
         /\ strikes' = Forget(strikes, DOMAIN table \ S, 0)
         /\ due' = Forget(due, DOMAIN table \ S, 0)
    BY DEF Admit
<1> DEFINE g == Append(granted[k], now)
<1>4. Kept(a, now, g, strikes[k], due[k])
    <2>1. /\ g \in Seq(Time) /\ Len(g) = Len(granted[k]) + 1
          /\ Len(granted[k]) \in Nat
          /\ \A j \in 1 .. Len(granted[k]) : g[j] = granted[k][j]
          /\ g[Len(granted[k]) + 1] = now
        BY <1>0, <1>1
    <2>2. now - g[1] =< Window
        <3>1. CASE granted[k] = <<>>
            <4>1. g[1] = now
                BY <2>1, <3>1
            <4> QED BY <1>0, <4>1, LimiterAssumption
        <3>2. CASE granted[k] # <<>>
            <4>1. Len(granted[k]) >= 1
                BY <1>1, <3>2
            <4>2. g[1] = granted[k][1]
                BY <2>1, <4>1
            <4> QED BY <1>1, <3>2, <4>2
        <3> QED BY <3>1, <3>2
    <2>3. Recent(g, now) = g
        BY <1>0, <2>1, <2>2, TimeIsInt, RecentWhole
    <2>4. b \in Bucket
        BY <1>1 DEF Kept
    <2>5. /\ a \in Bucket /\ a.attempts = g
          /\ a.failures = b.failures /\ a.until = b.until
        <3> HIDE DEF b
        <3>1. a = [b EXCEPT !.attempts = g]
            BY <1>1, <2>4 DEF Bucket
        <3> HIDE DEF a, g
        <3> QED BY <2>1, <2>4, <3>1 DEF Bucket
    <2>6. Len(g) =< MaxAttempts
        BY <1>1, <1>2, <2>1, LimiterAssumption
    <2> HIDE DEF a, b, g
    <2> QED BY <1>1, <2>3, <2>5, <2>6 DEF Kept
<1> HIDE DEF a, b
<1>5. /\ DOMAIN table = DOMAIN buckets \cup {k}
      /\ table[k] = a
      /\ \A j \in DOMAIN buckets : j # k => table[j] = buckets[j]
    BY DEF With
<1> HIDE DEF table
<1>6. more \in [Keys -> Seq(Time)] /\ more[k] = g
      /\ \A j \in Keys : j # k => more[j] = granted[j]
    <2>1. g \in Seq(Time)
        BY <1>0, <1>1
    <2> QED BY <2>1 DEF IInv, TypeOK
<1> HIDE DEF more, g
<1>7. IsFiniteSet(DOMAIN table)
    BY <1>5, TableFinite, FS_AddElement DEF IInv
<1>8. S \subseteq DOMAIN table /\ Cardinality(S) =< MaxBuckets
    BY <1>7, SurvivorsFacts
<1>9. DOMAIN buckets' = S /\ \A j \in S : buckets'[j] = table[j]
    BY <1>3 DEF Restrict
<1>10. \A j \in Keys :
          /\ j \in DOMAIN table \ S => granted'[j] = <<>> /\ due'[j] = 0
          /\ j \notin DOMAIN table \ S =>
                /\ granted'[j] = more[j]
                /\ strikes'[j] = strikes[j] /\ due'[j] = due[j]
    BY <1>3 DEF Forget
<1>11. Agrees'
    <2> SUFFICES ASSUME NEW j \in Keys
                 PROVE  IF j \in DOMAIN buckets'
                        THEN Kept(buckets'[j], now', granted'[j], strikes'[j], due'[j])
                        ELSE Absent(now', granted'[j], due'[j])
        BY DEF Agrees
    <2>1. CASE j \in S /\ j = k
        BY <1>2, <1>4, <1>5, <1>6, <1>9, <1>10, <2>1
    <2>2. CASE j \in S /\ j # k
        <3>1. j \in DOMAIN buckets
            BY <1>5, <1>8, <2>2
        <3>2. Kept(buckets[j], now, granted[j], strikes[j], due[j])
            BY <3>1 DEF IInv, Agrees
        <3> QED BY <1>2, <1>5, <1>6, <1>9, <1>10, <2>2, <3>1, <3>2
    <2>3. CASE j \in DOMAIN table \ S
        BY <1>0, <1>2, <1>9, <1>10, <2>3 DEF Absent
    <2>4. CASE j \notin DOMAIN table
        <3>1. j # k /\ j \notin DOMAIN buckets /\ j \notin S
            BY <1>5, <1>8, <2>4
        <3>2. Absent(now, granted[j], due[j])
            BY <3>1 DEF IInv, Agrees
        <3> QED BY <1>2, <1>6, <1>9, <1>10, <2>4, <3>1, <3>2
    <2> QED BY <2>1, <2>2, <2>3, <2>4
<1>12. TypeOK'
    <2>1. granted' \in [Keys -> Seq(Time)]
        <3>1. <<>> \in Seq(Time)
            OBVIOUS
        <3>2. \A j \in Keys :
                 (IF j \in DOMAIN table \ S THEN <<>> ELSE more[j]) \in Seq(Time)
            BY <1>6, <3>1
        <3> QED BY <1>3, <3>2 DEF Forget
    <2>2. strikes' \in [Keys -> Nat] /\ due' \in [Keys -> Nat]
        BY <1>3 DEF Forget, IInv, TypeOK
    <2>3. peer' \in [Conns -> Keys \cup {NoKey}]
        BY <1>2 DEF IInv, TypeOK
    <2>4. DOMAIN buckets' \subseteq Keys
        BY <1>5, <1>8, <1>9 DEF IInv, TypeOK
    <2>5. \A j \in DOMAIN buckets' : buckets'[j] \in Bucket
        BY <1>4, <1>5, <1>8, <1>9 DEF IInv, TypeOK, Kept
    <2> QED BY <1>0, <1>2, <2>1, <2>2, <2>3, <2>4, <2>5 DEF TypeOK
<1>13. Sized'
    <2>1. IsFiniteSet(Conns) /\ Missing' \subseteq Conns
        BY LimiterAssumption DEF Missing
    <2>2. Cardinality(Missing') =< Cardinality(Conns)
          /\ Cardinality(Missing') \in Nat /\ Cardinality(Conns) \in Nat
        BY <2>1, FS_Subset, FS_CardinalityType
    <2>3. Cardinality(S) \in Nat
        BY <1>7, <1>8, FS_Subset, FS_CardinalityType
    <2> QED BY <1>8, <1>9, <2>2, <2>3, LimiterAssumption DEF Sized
<1> QED BY <1>1, <1>2, <1>11, <1>12, <1>13 DEF IInv

\* At the start the table is empty and there is nothing to remember.
LEMMA InitIInv == Init => IInv
<1> SUFFICES ASSUME Init PROVE IInv
    OBVIOUS
<1>0. 1 \in Time /\ <<>> \in Seq(Time)
    BY LimiterAssumption DEF Time
<1>1. DOMAIN buckets = {} /\ now = 1
    BY DEF Init
<1>2. TypeOK
    BY <1>0, <1>1 DEF Init, TypeOK
<1>3. Agrees
    BY <1>1 DEF Init, Agrees, Absent
<1>4. Sized
    <2>1. Missing = {}
        BY DEF Init, Missing
    <2>2. Cardinality({}) = 0
        BY FS_EmptySet
    <2>3. Cardinality(Conns) \in Nat
        BY LimiterAssumption, FS_CardinalityType
    <2> QED BY <1>1, <2>1, <2>2, <2>3, LimiterAssumption DEF Sized
<1> QED BY <1>2, <1>3, <1>4 DEF IInv

\* Every step keeps the invariant.
LEMMA NextIInv == IInv /\ [Next]_vars => IInv'
<1> SUFFICES ASSUME IInv, [Next]_vars PROVE IInv'
    OBVIOUS
<1>1. CASE \E c \in Conns, k \in Keys : Admit(c, k)
    BY <1>1, AdmitStep
<1>2. CASE \E k \in Keys : Refuse(k)
    BY <1>2, RefuseStep
<1>3. CASE \E c \in Conns : Fail(c)
    BY <1>3, FailStep
<1>4. CASE \E c \in Conns : Succeed(c)
    BY <1>4, SucceedStep
<1>5. CASE \E c \in Conns : Leave(c)
    BY <1>5, LeaveStep
<1>6. CASE Tick
    BY <1>6, TickStep
<1>7. CASE UNCHANGED vars
    BY <1>7 DEF vars, IInv, TypeOK, Agrees, Sized, Missing
<1> QED BY <1>1, <1>2, <1>3, <1>4, <1>5, <1>6, <1>7 DEF Next

\* The lazily kept buckets agree with the clock in every reachable state.
THEOREM Invariant == Spec => []IInv
<1>1. Init => IInv
    BY InitIInv
<1>2. IInv /\ [Next]_vars => IInv'
    BY NextIInv
<1> QED BY <1>1, <1>2, PTL DEF Spec

\* The state of the limiter keeps its shape; in particular the escalation of
\* bans (record_handshake_failure) stays within its four steps.
THEOREM TypeCorrect == Spec => []TypeOK
<1>1. IInv => TypeOK
    BY DEF IInv
<1> QED BY <1>1, Invariant, PTL

\* check_connect never lets an address through more than max_attempts times
\* in a window, although it drops old attempts only when it is called.
THEOREM RateIsKept == Spec => []RateKept
<1>1. IInv => RateKept
    <2> SUFFICES ASSUME IInv, NEW k \in Keys PROVE Len(granted[k]) =< MaxAttempts
        BY DEF RateKept
    <2>0. now \in Int
        BY TimeIsInt DEF IInv, TypeOK
    <2>1. CASE k \in DOMAIN buckets
        <3> DEFINE s == buckets[k].attempts
        <3>1. Kept(buckets[k], now, granted[k], strikes[k], due[k])
            BY <2>1 DEF IInv, Agrees
        <3>2. s \in Seq(Time) /\ granted[k] = Recent(s, now) /\ Len(s) =< MaxAttempts
            BY <3>1 DEF Kept, Bucket
        <3>3. Recent(s, now) \in Seq(Time) /\ Len(Recent(s, now)) =< Len(s)
            BY <2>0, <3>2, TimeIsInt, RecentTyped
        <3>4. Len(s) \in Nat /\ Len(Recent(s, now)) \in Nat
            BY <3>2, <3>3
        <3> QED BY <3>2, <3>3, <3>4, LimiterAssumption
    <2>2. CASE k \notin DOMAIN buckets
        <3>1. granted[k] = <<>>
            BY <2>2 DEF IInv, Agrees, Absent
        <3>2. Len(<<>>) = 0
            OBVIOUS
        <3> QED BY <3>1, <3>2, LimiterAssumption
    <2> QED BY <2>1, <2>2
<1> QED BY <1>1, Invariant, PTL

\* maybe_prune, which only an admission calls, keeps the table within
\* max_buckets and one bucket more for each handler.
THEOREM TableIsBounded == Spec => []TableBounded
<1>1. IInv => TableBounded
    <2> SUFFICES ASSUME IInv PROVE TableBounded
        OBVIOUS
    <2>1. /\ Cardinality(DOMAIN buckets) \in Nat
          /\ Cardinality(Conns) \in Nat
          /\ Cardinality(Missing) \in Nat
        BY TableFinite DEF IInv
    <2> QED BY <2>1, LimiterAssumption DEF IInv, Sized, TableBounded
<1> QED BY <1>1, Invariant, PTL

\* No handler is let through while the last ban of its address lasts,
\* whatever concurrent handlers have reported (check_connect, reset).
THEOREM BansAreHonoured == Spec => BanHonoured
<1> DEFINE Held == \A c \in Conns :
             peer[c] = NoKey /\ peer'[c] # NoKey => due[peer'[c]] =< now
<1>1. IInv /\ [Next]_vars => [Held]_vars
    <2> SUFFICES ASSUME IInv, Next PROVE Held
        OBVIOUS
    <2>1. ASSUME NEW c \in Conns, NEW k \in Keys, Admit(c, k) PROVE Held
        <3>1. due[k] =< now
            BY <2>1, AdmitStep
        <3>2. \A d \in Conns : peer'[d] = IF d = c THEN k ELSE peer[d]
            BY <2>1 DEF Admit, IInv, TypeOK
        <3> QED BY <3>1, <3>2
    <2>2. ASSUME NEW k \in Keys, Refuse(k) PROVE Held
        BY <2>2 DEF Refuse
    <2>3. ASSUME NEW c \in Conns, Fail(c) \/ Succeed(c) \/ Leave(c) PROVE Held
        BY <2>3 DEF Fail, Succeed, Leave, IInv, TypeOK
    <2>4. CASE Tick
        BY <2>4 DEF Tick
    <2> QED BY <2>1, <2>2, <2>3, <2>4 DEF Next
<1> QED BY <1>1, Invariant, PTL DEF Spec, BanHonoured

\* Every ban record_handshake_failure orders has failure_threshold failures
\* behind it that nothing has forgiven, the lapse of an earlier ban included.
THEOREM BansAreEarned == Spec => BanEarned
<1> DEFINE Earned == \A k \in Keys :
             due'[k] # due[k] /\ due'[k] # 0 => strikes'[k] >= Threshold
<1>1. IInv /\ [Next]_vars => [Earned]_vars
    <2> SUFFICES ASSUME IInv, Next PROVE Earned
        OBVIOUS
    <2>1. ASSUME NEW c \in Conns, NEW k \in Keys, Admit(c, k) PROVE Earned
        BY <2>1 DEF Admit, Forget
    <2>2. ASSUME NEW k \in Keys, Refuse(k) PROVE Earned
        BY <2>2 DEF Refuse
    <2>3. ASSUME NEW c \in Conns, Fail(c) PROVE Earned
        BY <2>3, FailStep
    <2>4. ASSUME NEW c \in Conns, Succeed(c) \/ Leave(c) PROVE Earned
        BY <2>4 DEF Succeed, Leave
    <2>5. CASE Tick
        BY <2>5 DEF Tick
    <2> QED BY <2>1, <2>2, <2>3, <2>4, <2>5 DEF Next
<1> QED BY <1>1, Invariant, PTL DEF Spec, BanEarned
=============================================================================
