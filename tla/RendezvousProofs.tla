-------------------------- MODULE RendezvousProofs --------------------------
(***************************************************************************)
(* Proofs about Rendezvous for every set of connections and sessions and   *)
(* every capacity of the table.                                            *)
(***************************************************************************)
EXTENDS Rendezvous, SequenceTheorems, FiniteSetTheorems, TLAPS

Sessions == [a : Slots, b : Slots, av : Nat, bv : Nat, fwd : Nat]

\* The part of the types the versions depend on.
TableTypes ==
    /\ table \in [Sids -> Sessions]
    /\ regs \in [Conns -> 0 .. MaxRegs]

\* Candidates that were handed over are not newer than the last exchange, and
\* no slot is ahead of the registrations of its connection.
GivenIsOld(t) ==
    /\ t.a.given => t.av <= t.fwd
    /\ t.b.given => t.bv <= t.fwd

BehindRegs(slot) == slot.conn \in Conns => slot.reg <= regs[slot.conn]

Taken(t) == t.a # NoSlot \/ t.b # NoSlot

\* The inductive invariant.
RendezvousInv ==
    /\ TableTypes
    /\ \A s \in Sids : /\ GivenIsOld(table[s])
                       /\ BehindRegs(table[s].a)
                       /\ BehindRegs(table[s].b)
    /\ EmptySessionFreed

-----------------------------------------------------------------------------
\* An empty session satisfies every part.
LEMMA NoSessionFacts ==
    /\ NoSession \in Sessions
    /\ NoSlot \in Slots
    /\ GivenIsOld(NoSession)
    /\ NoSession.a = NoSlot /\ NoSession.b = NoSlot /\ NoSession.fwd = 0
    /\ NoSlot.conn = None /\ ~NoSlot.given
  BY DEF NoSession, Sessions, Slots, NoSlot, GivenIsOld

\* A slot is empty exactly when it has no connection, and then nothing of it
\* was handed over.
LEMMA SlotFacts ==
    ASSUME NEW slot \in Slots
    PROVE  /\ slot.conn = None <=> slot = NoSlot
           /\ slot.given => slot.conn \in Conns
           /\ slot.conn \in Conns => slot.reg \in Nat
  BY RendezvousAssumption DEF Slots, NoSlot

\* What eviction leaves of every session, that of the newcomer included.
LEMMA EvictionFacts ==
    ASSUME TableTypes, NEW s \in Sids
    PROVE  /\ AfterEviction(s).table \in [Sids -> Sessions]
           /\ \A r \in Sids : AfterEviction(s).table[r] \in {table[r], NoSession}
           /\ AfterEviction(s).table[s] = table[s]
<1> USE NoSessionFacts DEF TableTypes
<1>1. CASE s \notin Present /\ Cardinality(Present) >= MaxSessions
  <2>1. AfterEviction(s).table = [table EXCEPT ![Head(recent)] = NoSession]
    BY <1>1 DEF AfterEviction
  <2>2. table[s] = NoSession
    BY <1>1 DEF Present
  <2> QED
    BY <2>1, <2>2
<1>2. CASE ~(s \notin Present /\ Cardinality(Present) >= MaxSessions)
  BY <1>2 DEF AfterEviction
<1> QED
  BY <1>1, <1>2

\* Taking a seat replaces one slot and raises its version.
LEMMA SeatedFacts ==
    ASSUME TableTypes, NEW t \in Sessions, NEW c \in Conns, regs[c] < MaxRegs,
           SeatOf(t, c) # "none"
    PROVE  LET n == Seated(t, c)
               slot == [conn |-> c, reg |-> regs[c] + 1, given |-> FALSE]
           IN  /\ n \in Sessions
               /\ slot \in Slots /\ slot # NoSlot
               /\ \/ /\ n.a = slot /\ n.b = t.b /\ n.bv = t.bv /\ n.fwd = t.fwd
                     /\ t.a = NoSlot \/ t.a.conn = c
                  \/ /\ n.b = slot /\ n.a = t.a /\ n.av = t.av /\ n.fwd = t.fwd
                     /\ t.b = NoSlot \/ t.b.conn = c
<1> DEFINE slot == [conn |-> c, reg |-> regs[c] + 1, given |-> FALSE]
<1>1. slot \in Slots /\ slot.conn # NoSlot.conn
  BY RendezvousAssumption DEF Slots, TableTypes, NoSlot
<1>2. slot # NoSlot
  BY <1>1
<1>3. CASE SeatOf(t, c) = "a"
  <2>1. Seated(t, c) = [a |-> slot, b |-> t.b, av |-> t.av + 1, bv |-> t.bv, fwd |-> t.fwd]
    BY <1>3 DEF Seated, Sessions
  <2>2. t.a = NoSlot \/ t.a.conn = c
    BY <1>3 DEF SeatOf
  <2>3. slot \in Slots /\ slot # NoSlot
    BY <1>1, <1>2
  <2> QED
    BY <2>1, <2>2, <2>3 DEF Sessions
<1>4. CASE SeatOf(t, c) # "a"
  <2>1. Seated(t, c) = [a |-> t.a, b |-> slot, av |-> t.av, bv |-> t.bv + 1, fwd |-> t.fwd]
    BY <1>4 DEF Seated, Sessions
  <2>2. t.b = NoSlot \/ t.b.conn = c
    BY <1>4 DEF SeatOf
  <2>3. slot \in Slots /\ slot # NoSlot
    BY <1>1, <1>2
  <2> QED
    BY <2>1, <2>2, <2>3 DEF Sessions
<1> QED
  BY <1>3, <1>4

\* An exchange marks both slots and moves fwd up to both versions.
LEMMA ForwardedFacts ==
    ASSUME NEW n \in Sessions, BothFresh(n)
    PROVE  LET f == Forwarded(n) IN
           /\ f \in Sessions
           /\ f.a.conn = n.a.conn /\ f.a.reg = n.a.reg /\ f.a # NoSlot
           /\ f.b.conn = n.b.conn /\ f.b.reg = n.b.reg /\ f.b # NoSlot
           /\ GivenIsOld(f)
<1> DEFINE top == IF n.av > n.bv THEN n.av ELSE n.bv
           sa == [n.a EXCEPT !.given = TRUE]
           sb == [n.b EXCEPT !.given = TRUE]
<1>1. /\ n.a \in Slots /\ n.a # NoSlot
      /\ n.b \in Slots /\ n.b # NoSlot
  BY DEF BothFresh, Sessions
<1>2. /\ sa \in Slots /\ sa.conn = n.a.conn /\ sa.reg = n.a.reg /\ sa.given
      /\ sb \in Slots /\ sb.conn = n.b.conn /\ sb.reg = n.b.reg /\ sb.given
  BY <1>1 DEF Slots, NoSlot
<1>3. sa # NoSlot /\ sb # NoSlot
  BY <1>2 DEF NoSlot
<1>4. top \in Nat /\ top >= n.av /\ top >= n.bv
  BY DEF Sessions
<1>5. Forwarded(n) = [a |-> sa, b |-> sb, av |-> n.av, bv |-> n.bv, fwd |-> top]
  <2>1. Forwarded(n) = [n EXCEPT !.fwd = top, !.a = sa, !.b = sb]
    BY DEF Forwarded, Sessions
  <2> HIDE DEF sa, sb, top
  <2> QED
    BY <2>1 DEF Sessions
<1> HIDE DEF sa, sb, top
<1> QED
  BY <1>2, <1>3, <1>4, <1>5 DEF Sessions, GivenIsOld

-----------------------------------------------------------------------------
\* What one step may do to a session o that becomes n: a seat in use keeps its
\* connection or is freed, and candidates that were handed over and are still
\* there are not handed over again.
SlotMove(o, n, old, new) ==
    /\ old.conn # None /\ new.conn # None => new.conn = old.conn
    /\ old.given /\ new.conn = old.conn /\ new.reg = old.reg => n.fwd = o.fwd

SessionMove(o, n) == SlotMove(o, n, o.a, n.a) /\ SlotMove(o, n, o.b, n.b)

\* The session is as good as before, its registrations counted by r.
SessionGood(n, r) ==
    /\ n \in Sessions
    /\ GivenIsOld(n)
    /\ n.a.conn \in Conns => n.a.reg <= r[n.a.conn]
    /\ n.b.conn \in Conns => n.b.reg <= r[n.b.conn]
    /\ n # NoSession => Taken(n)

\* RendezvousInv, read session by session.
LEMMA InvBySession ==
    RendezvousInv <=> /\ regs \in [Conns -> 0 .. MaxRegs]
                      /\ table \in [Sids -> Sessions]
                      /\ \A s \in Sids : SessionGood(table[s], regs)
  BY DEF RendezvousInv, TableTypes, SessionGood, BehindRegs, EmptySessionFreed,
         Present, Taken

\* Staying and being evicted are moves, and leave a good session good.
LEMMA StayOrGo ==
    ASSUME NEW o, NEW n \in {o, NoSession}, NEW r, NEW q,
           r \in [Conns -> 0 .. MaxRegs], q \in [Conns -> 0 .. MaxRegs],
           \A c \in Conns : r[c] <= q[c],
           SessionGood(o, r)
    PROVE  SessionGood(n, q) /\ SessionMove(o, n)
<1>1. CASE n = NoSession
  <2>1. SessionGood(n, q)
    BY <1>1, NoSessionFacts, RendezvousAssumption DEF SessionGood, NoSession, NoSlot
  <2>2. /\ o.a.given => o.a.conn # None
        /\ o.b.given => o.b.conn # None
    BY SlotFacts, RendezvousAssumption DEF SessionGood, Sessions
  <2>3. n.a.conn = None /\ n.b.conn = None
    BY <1>1, NoSessionFacts
  <2> QED
    BY <2>1, <2>2, <2>3 DEF SessionMove, SlotMove
<1>2. CASE n = o
  <2>1. /\ o.a.conn \in Conns => o.a.reg <= q[o.a.conn]
        /\ o.b.conn \in Conns => o.b.reg <= q[o.b.conn]
    <3>1. /\ o.a.conn \in Conns => o.a.reg \in Nat
          /\ o.b.conn \in Conns => o.b.reg \in Nat
      BY RendezvousAssumption DEF SessionGood, Sessions, Slots, NoSlot
    <3> QED
      BY <3>1 DEF SessionGood
  <2>2. SessionMove(o, n)
    BY <1>2 DEF SessionMove, SlotMove
  <2> QED
    BY <1>2, <2>1, <2>2 DEF SessionGood
<1> QED
  BY <1>1, <1>2

\* The session a connection registers in.
LEMMA RegisterMove ==
    ASSUME RendezvousInv, NEW c \in Conns, NEW s \in Sids, Register(c, s)
    PROVE  SessionGood(table'[s], regs') /\ SessionMove(table[s], table'[s])
<1> DEFINE o == table[s]
           slot == [conn |-> c, reg |-> regs[c] + 1, given |-> FALSE]
           n == Seated(o, c)
<1>1. /\ regs \in [Conns -> 0 .. MaxRegs] /\ regs' \in [Conns -> 0 .. MaxRegs]
      /\ regs'[c] = regs[c] + 1 /\ \A x \in Conns : regs[x] <= regs'[x]
      /\ regs[c] \in Nat /\ regs[c] < MaxRegs
  BY RendezvousAssumption DEF Register, RendezvousInv, TableTypes
<1>2. /\ AfterEviction(s).table \in [Sids -> Sessions]
      /\ AfterEviction(s).table[s] = o
  BY EvictionFacts DEF RendezvousInv
<1>3. SessionGood(o, regs) /\ o \in Sessions
  BY InvBySession DEF SessionGood
<1>4. CASE SeatOf(o, c) = "none"
  <2>1. table'[s] = o
    BY <1>2, <1>4 DEF Register
  <2> QED
    BY <1>1, <1>3, <2>1, StayOrGo
<1>5. CASE SeatOf(o, c) # "none"
  <2>1. table'[s] = IF BothFresh(n) THEN Forwarded(n) ELSE n
    BY <1>2, <1>5 DEF Register
  <2>2. /\ n \in Sessions
        /\ slot \in Slots /\ slot # NoSlot
        /\ \/ /\ n.a = slot /\ n.b = o.b /\ n.bv = o.bv /\ n.fwd = o.fwd
              /\ o.a = NoSlot \/ o.a.conn = c
           \/ /\ n.b = slot /\ n.a = o.a /\ n.av = o.av /\ n.fwd = o.fwd
              /\ o.b = NoSlot \/ o.b.conn = c
    BY <1>1, <1>3, <1>5, SeatedFacts DEF RendezvousInv
  <2>3. /\ o.a \in Slots /\ o.b \in Slots /\ o.av \in Nat /\ o.bv \in Nat /\ o.fwd \in Nat
        /\ GivenIsOld(o)
        /\ o.a.conn \in Conns => o.a.reg <= regs[o.a.conn]
        /\ o.b.conn \in Conns => o.b.reg <= regs[o.b.conn]
    BY <1>3 DEF SessionGood, Sessions
  <2>4. /\ slot.conn = c /\ slot.reg = regs[c] + 1 /\ ~slot.given
        /\ NoSlot.conn = None /\ ~NoSlot.given
    BY DEF NoSlot
  <2>5. /\ o.a.conn = None <=> o.a = NoSlot
        /\ o.b.conn = None <=> o.b = NoSlot
        /\ o.a.given => o.a.conn \in Conns
        /\ o.b.given => o.b.conn \in Conns
        /\ o.a.conn \in Conns => o.a.reg \in Nat
        /\ o.b.conn \in Conns => o.b.reg \in Nat
    BY <2>3, SlotFacts
  <2> HIDE DEF slot, n, o
  <2>6. Taken(n) /\ n # NoSession
    BY <2>2, NoSessionFacts DEF Taken
  <2>7. /\ n.a.conn \in Conns => n.a.reg <= regs'[n.a.conn]
        /\ n.b.conn \in Conns => n.b.reg <= regs'[n.b.conn]
    BY <1>1, <2>2, <2>3, <2>4, <2>5
  <2>8. GivenIsOld(n)
    BY <2>2, <2>3, <2>4 DEF GivenIsOld
  <2>9. /\ o.a.conn # None => n.a.conn = o.a.conn
        /\ o.b.conn # None => n.b.conn = o.b.conn
    BY <2>2, <2>4, <2>5
  \* A slot that was handed over and is still there is the one c did not take,
  \* and its version has not moved past fwd: there is no exchange.
  <2>10. \/ o.a.given /\ n.a.conn = o.a.conn /\ n.a.reg = o.a.reg
         \/ o.b.given /\ n.b.conn = o.b.conn /\ n.b.reg = o.b.reg
         => n.fwd = o.fwd /\ ~BothFresh(n)
    <3>1. /\ o.a.given /\ n.a.conn = o.a.conn /\ n.a.reg = o.a.reg => n.a # slot
          /\ o.b.given /\ n.b.conn = o.b.conn /\ n.b.reg = o.b.reg => n.b # slot
      BY <1>1, <2>3, <2>4, <2>5
    <3> QED
      BY <2>2, <2>3, <3>1 DEF GivenIsOld, BothFresh
  <2>11. CASE BothFresh(n)
    <3> DEFINE f == Forwarded(n)
    <3>1. /\ f \in Sessions /\ GivenIsOld(f)
          /\ f.a.conn = n.a.conn /\ f.a.reg = n.a.reg /\ f.a # NoSlot
          /\ f.b.conn = n.b.conn /\ f.b.reg = n.b.reg
      BY <2>2, <2>11, ForwardedFacts
    <3>2. table'[s] = f
      BY <2>1, <2>11
    <3> HIDE DEF f
    <3>3. f # NoSession /\ Taken(f)
      BY <3>1, NoSessionFacts DEF Taken
    <3>4. SessionGood(f, regs')
      BY <2>7, <3>1, <3>3 DEF SessionGood
    <3>5. SessionMove(o, f)
      BY <2>9, <2>10, <2>11, <3>1 DEF SessionMove, SlotMove
    <3> QED
      BY <3>2, <3>4, <3>5 DEF o
  <2>12. CASE ~BothFresh(n)
    <3>1. table'[s] = n
      BY <2>1, <2>12
    <3>2. SessionGood(n, regs')
      BY <2>2, <2>6, <2>7, <2>8 DEF SessionGood
    <3>3. SessionMove(o, n)
      BY <2>9, <2>10 DEF SessionMove, SlotMove
    <3> QED
      BY <3>1, <3>2, <3>3 DEF o
  <2> QED
    BY <2>11, <2>12
<1> QED
  BY <1>4, <1>5

-----------------------------------------------------------------------------
\* The session a closed connection leaves: its slot goes, nothing else moves.
LEMMA RemoveMove ==
    ASSUME RendezvousInv, NEW c \in Conns, RemoveSlot(c), leaving[c] \in Sids
    PROVE  LET s == leaving[c] IN
           SessionGood(table'[s], regs') /\ SessionMove(table[s], table'[s])
<1> DEFINE s == leaving[c]
           o == table[s]
           n == Vacated(o, c)
<1>1. /\ SessionGood(o, regs) /\ o \in Sessions
      /\ o.a \in Slots /\ o.b \in Slots
      /\ regs' = regs
  BY InvBySession DEF SessionGood, Sessions, RemoveSlot
<1>2. table'[s] = IF n.a = NoSlot /\ n.b = NoSlot THEN NoSession ELSE n
  BY DEF RemoveSlot, RendezvousInv, TableTypes
<1>3. /\ n \in Sessions
      /\ n.av = o.av /\ n.bv = o.bv /\ n.fwd = o.fwd
      /\ n.a = o.a \/ n.a = NoSlot
      /\ n.b = o.b \/ n.b = NoSlot
  BY <1>1, NoSessionFacts DEF Vacated, Sessions
<1>4. CASE n.a = NoSlot /\ n.b = NoSlot
  <2>1. table'[s] = NoSession
    BY <1>2, <1>4
  <2> QED
    BY <1>1, <2>1, StayOrGo DEF RendezvousInv, TableTypes
<1>5. CASE ~(n.a = NoSlot /\ n.b = NoSlot)
  <2>1. table'[s] = n
    BY <1>2, <1>5
  <2>2. NoSlot.conn = None /\ ~NoSlot.given /\ None \notin Conns
    BY NoSessionFacts, RendezvousAssumption
  <2>3. GivenIsOld(n)
    BY <1>1, <1>3, <2>2 DEF SessionGood, GivenIsOld
  <2>4. SessionGood(n, regs')
    BY <1>1, <1>3, <1>5, <2>2, <2>3 DEF SessionGood, Taken
  <2>5. SessionMove(o, n)
    BY <1>3, <2>2 DEF SessionMove, SlotMove
  <2> QED
    BY <2>1, <2>4, <2>5
<1> QED
  BY <1>4, <1>5

\* Every step keeps the invariant and is a move of every session.
LEMMA RendezvousStep ==
    RendezvousInv /\ [Next]_vars =>
        RendezvousInv' /\ \A s \in Sids : SessionMove(table[s], table'[s])
<1> DEFINE AllGood == \A s \in Sids : /\ SessionGood(table'[s], regs')
                                      /\ SessionMove(table[s], table'[s])
<1> SUFFICES ASSUME RendezvousInv, [Next]_vars
             PROVE  /\ regs' \in [Conns -> 0 .. MaxRegs]
                    /\ table' \in [Sids -> Sessions]
                    /\ AllGood
  <2>1. RendezvousInv' <=> /\ regs' \in [Conns -> 0 .. MaxRegs]
                           /\ table' \in [Sids -> Sessions]
                           /\ \A s \in Sids : SessionGood(table'[s], regs')
    BY DEF RendezvousInv, TableTypes, SessionGood, BehindRegs,
       EmptySessionFreed, Present, Taken
  <2> QED
    BY <2>1
<1>1. /\ regs \in [Conns -> 0 .. MaxRegs]
      /\ table \in [Sids -> Sessions]
      /\ \A s \in Sids : SessionGood(table[s], regs)
  BY InvBySession
<1>2. ASSUME UNCHANGED <<table, regs>>
      PROVE  regs' \in [Conns -> 0 .. MaxRegs] /\ table' \in [Sids -> Sessions] /\ AllGood
  BY <1>1, <1>2, StayOrGo
<1>3. ASSUME NEW c \in Conns, NEW s \in Sids, Register(c, s)
      PROVE  regs' \in [Conns -> 0 .. MaxRegs] /\ table' \in [Sids -> Sessions] /\ AllGood
  <2>1. regs' \in [Conns -> 0 .. MaxRegs] /\ \A x \in Conns : regs[x] <= regs'[x]
    BY <1>1, <1>3, RendezvousAssumption DEF Register
  <2>2. SessionGood(table'[s], regs') /\ SessionMove(table[s], table'[s])
    BY <1>3, RegisterMove
  <2>3. /\ AfterEviction(s).table \in [Sids -> Sessions]
        /\ \A r \in Sids : AfterEviction(s).table[r] \in {table[r], NoSession}
    BY EvictionFacts DEF RendezvousInv
  <2>4. /\ DOMAIN table' = Sids
        /\ table' = [r \in Sids |-> table'[r]]
        /\ \A r \in Sids \ {s} : table'[r] = AfterEviction(s).table[r]
    BY <1>3, <2>3 DEF Register
  <2>5. \A r \in Sids \ {s} : SessionGood(table'[r], regs') /\ SessionMove(table[r], table'[r])
    BY <1>1, <2>1, <2>3, <2>4, StayOrGo
  <2>6. AllGood
    BY <2>2, <2>5
  <2> QED
    BY <2>1, <2>4, <2>6 DEF SessionGood
<1>4. ASSUME NEW c \in Conns, Send(c) PROVE UNCHANGED <<table, regs>>
  BY <1>4 DEF Send
<1>5. ASSUME NEW c \in Conns, ForwardToOther(c) PROVE UNCHANGED <<table, regs>>
  BY <1>5 DEF ForwardToOther
<1>6. ASSUME NEW c \in Conns, RemoveRoute(c) PROVE UNCHANGED <<table, regs>>
  BY <1>6 DEF RemoveRoute
<1>7. ASSUME NEW c \in Conns, RemoveSlot(c)
      PROVE  regs' \in [Conns -> 0 .. MaxRegs] /\ table' \in [Sids -> Sessions] /\ AllGood
  <2>1. CASE leaving[c] \in Sids
    <3>1. /\ SessionGood(table'[leaving[c]], regs')
          /\ SessionMove(table[leaving[c]], table'[leaving[c]])
      BY <1>7, <2>1, RemoveMove
    <3>2. /\ regs' = regs
          /\ table' = [table EXCEPT ![leaving[c]] = table'[leaving[c]]]
      BY <1>1, <1>7, <2>1 DEF RemoveSlot
    <3>3. \A r \in Sids \ {leaving[c]} : table'[r] = table[r]
      BY <1>1, <3>2
    <3>4. \A r \in Sids \ {leaving[c]} :
             SessionGood(table'[r], regs') /\ SessionMove(table[r], table'[r])
      BY <1>1, <3>2, <3>3, StayOrGo
    <3> QED
      BY <1>1, <2>1, <3>1, <3>2, <3>4 DEF SessionGood
  <2>2. CASE leaving[c] \notin Sids
    <3>1. UNCHANGED <<table, regs>>
      BY <1>1, <1>7, <2>2 DEF RemoveSlot
    <3> QED
      BY <1>2, <3>1
  <2> QED
    BY <2>1, <2>2
<1>8. CASE UNCHANGED vars
  BY <1>2, <1>8 DEF vars
<1> QED
  BY <1>2, <1>3, <1>4, <1>5, <1>6, <1>7, <1>8 DEF Next

LEMMA RendezvousInit == Init => RendezvousInv
<1> SUFFICES ASSUME Init PROVE RendezvousInv
  OBVIOUS
<1>1. regs \in [Conns -> 0 .. MaxRegs]
  BY RendezvousAssumption DEF Init
<1>2. table \in [Sids -> Sessions]
  BY NoSessionFacts DEF Init
<1>3. \A s \in Sids : SessionGood(table[s], regs)
  BY NoSessionFacts, RendezvousAssumption DEF Init, SessionGood
<1> QED
  BY <1>1, <1>2, <1>3, InvBySession

\* No session that both ends have left stays in the table, and the versions
\* order every hand-over.
THEOREM RendezvousInvariant == Spec => [](RendezvousInv /\ EmptySessionFreed)
<1>1. RendezvousInv => EmptySessionFreed
  BY DEF RendezvousInv
<1> QED
  BY RendezvousInit, RendezvousStep, <1>1, PTL DEF Spec

\* PUNCH-004: candidates that were handed over are never handed over again.
THEOREM NoForwardIsStale == Spec => NoStaleForward
<1>1. (\A s \in Sids : SessionMove(table[s], table'[s])) =>
         \A s \in Sids, x \in Seats :
            LET old == table[s][x]
                new == table'[s][x] IN
            old.given /\ new.conn = old.conn /\ new.reg = old.reg
               => table'[s].fwd = table[s].fwd
  BY DEF SessionMove, SlotMove, Seats
<1> QED
  BY RendezvousInvariant, RendezvousStep, <1>1, PTL DEF Spec, NoStaleForward

\* A seat in use never passes straight to another connection.
THEOREM SeatsAreKept == Spec => SeatIsKept
<1>1. (\A s \in Sids : SessionMove(table[s], table'[s])) =>
         \A s \in Sids, x \in Seats :
            LET old == table[s][x].conn
                new == table'[s][x].conn IN
            old # None /\ new # None => new = old
  BY DEF SessionMove, SlotMove, Seats
<1> QED
  BY RendezvousInvariant, RendezvousStep, <1>1, PTL DEF Spec, SeatIsKept

-----------------------------------------------------------------------------
(* The order of the candidates.                                            *)

Messages == [to : Conns, sid : Sids, from : Conns, reg : 1 .. MaxRegs]
Ends(t) == {t.a, t.b}

Alike(m, n) == m.to = n.to /\ m.sid = n.sid /\ m.from = n.from

\* What m, still to be sent by the task of c, promises: c is one of the two
\* ends and cannot be exchanged again before it registers anew, and neither
\* the receiver nor the session knows older or newer candidates than it may.
\* (r, t and g stand for regs, table and got.)
DueIn(r, t, g, c, m) ==
    /\ c = m.to \/ c = m.from
    /\ m.reg <= r[m.from]
    /\ \A e \in Ends(t[m.sid]) : /\ e.conn = m.from => m.reg <= e.reg
                                 /\ e.conn = c => e.given
    /\ g[m.to].sid = m.sid /\ g[m.to].from = m.from => g[m.to].reg <= m.reg

\* What c was sent last is no newer than what its peer registered.
ReceivedIn(r, t, g) ==
    g # NoCands =>
        /\ g \in [sid : Sids, from : Conns, reg : 1 .. MaxRegs]
        /\ g.reg <= r[g.from]
        /\ \A e \in Ends(t[g.sid]) : e.conn = g.from => g.reg <= e.reg

\* The invariant: whatever waits to be sent is Due, and no two of these
\* messages, of one task or of two, carry candidates of one end to one other.
OrderInv ==
    /\ outbox \in [Conns -> Seq(Messages)]
    /\ \A c \in Conns : \A i \in 1 .. Len(outbox[c]) : DueIn(regs, table, got, c, outbox[c][i])
    /\ \A c, d \in Conns : \A i \in 1 .. Len(outbox[c]), j \in 1 .. Len(outbox[d]) :
          Alike(outbox[c][i], outbox[d][j]) => c = d /\ i = j
    /\ got = [c \in Conns |-> got[c]] /\ \A c \in Conns : ReceivedIn(regs, table, got[c])
    /\ \A s \in Sids : table[s].a.conn = table[s].b.conn => table[s].a.conn = None

\* The seat c takes is not the second one it has.
LEMMA SeatChoice ==
    ASSUME NEW t, NEW c
    PROVE  /\ SeatOf(t, c) = "a" => t.a.conn = c \/ (t.a = NoSlot /\ t.b.conn # c)
           /\ SeatOf(t, c) = "b" => t.a.conn # c
           /\ SeatOf(t, c) \in {"a", "b", "none"}
           /\ SeatOf(t, c) = "none" => t.a.conn # c /\ t.b.conn # c
  BY DEF SeatOf

\* The session a connection registered in: c's candidates are the newest, the
\* other end is the one that was there.
Rejoined(o, n, c) ==
    /\ \A e \in Ends(n) :
          \/ e.conn = c /\ e.reg = regs[c] + 1
          \/ e.conn # c /\ \E f \in Ends(o) : /\ e.conn = f.conn /\ e.reg = f.reg
                                              /\ f.given => e.given
    /\ n.a.conn = n.b.conn => n.a.conn = None

\* The messages of an exchange, if there was one.
Exchanged(o, n, c, s) ==
    /\ n.a.conn \in Conns /\ n.b.conn \in Conns /\ c \in {n.a.conn, n.b.conn}
    /\ n.a.given /\ n.b.given
    /\ \A e \in Ends(o) : e.conn # c => ~e.given
    /\ outbox' = [outbox EXCEPT ![c] = @ \o <<Message(n.a, s, n.b), Message(n.b, s, n.a)>>]

LEMMA RegisterEnds ==
    ASSUME RendezvousInv, OrderInv, NEW c \in Conns, NEW s \in Sids, Register(c, s),
           SeatOf(table[s], c) # "none"
    PROVE  /\ Rejoined(table[s], table'[s], c)
           /\ outbox' = outbox \/ Exchanged(table[s], table'[s], c, s)
<1> DEFINE o == table[s]
           slot == [conn |-> c, reg |-> regs[c] + 1, given |-> FALSE]
           n == Seated(o, c)
<1>1. regs \in [Conns -> 0 .. MaxRegs] /\ regs[c] < MaxRegs
  BY DEF Register, RendezvousInv, TableTypes
<1>2. /\ AfterEviction(s).table \in [Sids -> Sessions]
      /\ AfterEviction(s).table[s] = o
  BY EvictionFacts DEF RendezvousInv
<1>3. o \in Sessions /\ o.a \in Slots /\ o.b \in Slots /\ GivenIsOld(o)
  BY DEF RendezvousInv, TableTypes, Sessions
<1>4. table'[s] = IF BothFresh(n) THEN Forwarded(n) ELSE n
  BY <1>2 DEF Register
<1>5. outbox' = IF BothFresh(n)
                   THEN [outbox EXCEPT ![c] = @ \o <<Message(n.a, s, n.b), Message(n.b, s, n.a)>>]
                   ELSE outbox
  <2>1. outbox' = [outbox EXCEPT ![c] =
                    IF BothFresh(n)
                       THEN @ \o <<Message(n.a, s, n.b), Message(n.b, s, n.a)>>
                       ELSE @]
    BY <1>2 DEF Register
  <2>2. DOMAIN outbox = Conns /\ outbox = [d \in Conns |-> outbox[d]]
    BY DEF OrderInv
  <2> HIDE DEF n
  <2> QED BY <2>1, <2>2
<1>6. /\ n \in Sessions
      /\ slot \in Slots /\ slot # NoSlot
      /\ \/ n.a = slot /\ n.b = o.b /\ n.bv = o.bv /\ n.fwd = o.fwd /\ o.b.conn # c
         \/ n.b = slot /\ n.a = o.a /\ n.av = o.av /\ n.fwd = o.fwd /\ o.a.conn # c
  <2>1. n \in Sessions /\ slot \in Slots /\ slot # NoSlot
    BY <1>1, <1>3, SeatedFacts DEF RendezvousInv
  <2>2. o.a.conn = c => o.b.conn # c
    BY RendezvousAssumption DEF OrderInv
  <2>3. CASE SeatOf(o, c) = "a"
    <3>1. n.a = slot /\ n.b = o.b /\ n.bv = o.bv /\ n.fwd = o.fwd
      BY <1>3, <2>3 DEF Seated, Sessions
    <3>2. o.b.conn # c
      BY <2>2, <2>3, SeatChoice
    <3> QED BY <2>1, <3>1, <3>2
  <2>4. CASE SeatOf(o, c) = "b"
    <3>1. n.b = slot /\ n.a = o.a /\ n.av = o.av /\ n.fwd = o.fwd
      BY <1>3, <2>4 DEF Seated, Sessions
    <3>2. o.a.conn # c
      BY <2>4, SeatChoice
    <3> QED BY <2>1, <3>1, <3>2
  <2> QED BY <2>3, <2>4, SeatChoice
<1>7. slot.conn = c /\ slot.reg = regs[c] + 1 /\ ~slot.given
  OBVIOUS
<1> HIDE DEF slot, n
<1>8. Rejoined(o, n, c)
  BY <1>6, <1>7 DEF Rejoined, Ends
<1>9. CASE ~BothFresh(n)
  BY <1>4, <1>5, <1>8, <1>9
<1>10. CASE BothFresh(n)
  <2> DEFINE f == Forwarded(n)
  <2>1. /\ f.a.conn = n.a.conn /\ f.a.reg = n.a.reg /\ f.a # NoSlot
        /\ f.b.conn = n.b.conn /\ f.b.reg = n.b.reg /\ f.b # NoSlot
        /\ f \in Sessions
    BY <1>6, <1>10, ForwardedFacts
  <2>2. f.a.given /\ f.b.given
    <3>1. /\ [n.a EXCEPT !.given = TRUE].given /\ [n.b EXCEPT !.given = TRUE].given
      BY <1>6 DEF Sessions, Slots, NoSlot
    <3> QED BY <1>6, <3>1 DEF Forwarded, Sessions
  <2>3. table'[s] = f
    BY <1>4, <1>10
  <2> HIDE DEF f
  <2>4. f.a.conn \in Conns /\ f.b.conn \in Conns /\ c \in {f.a.conn, f.b.conn}
    BY <1>6, <1>7, <2>1 DEF Sessions, Slots
  <2>5. \A e \in Ends(o) : e.conn # c => ~e.given
    <3>1. n.av > n.fwd /\ n.bv > n.fwd
      BY <1>10 DEF BothFresh
    <3>2. n.a = slot => o.a.conn = c \/ o.a = NoSlot
      BY <1>6, <1>7, SeatedFacts, <1>1, <1>3, SlotFacts DEF RendezvousInv, n, slot
    <3>3. n.b = slot => o.b.conn = c \/ o.b = NoSlot
      BY <1>6, <1>7, SeatedFacts, <1>1, <1>3, SlotFacts DEF RendezvousInv, n, slot
    <3>4. ~NoSlot.given
      BY DEF NoSlot
    <3> QED BY <1>3, <1>6, <3>1, <3>2, <3>3, <3>4 DEF GivenIsOld, Ends, Sessions
  <2>6. /\ Message(f.a, s, f.b) = Message(n.a, s, n.b)
        /\ Message(f.b, s, f.a) = Message(n.b, s, n.a)
    BY <2>1 DEF Message
  <2>7. outbox' = [outbox EXCEPT ![c] = @ \o <<Message(f.a, s, f.b), Message(f.b, s, f.a)>>]
    BY <1>5, <1>10, <2>6
  <2>8. Exchanged(o, f, c, s)
    BY <2>2, <2>4, <2>5, <2>7 DEF Exchanged
  <2>9. Rejoined(o, f, c)
    BY <1>8, <2>1, <2>2 DEF Rejoined, Ends
  <2> QED BY <2>3, <2>8, <2>9 DEF o
<1> QED BY <1>9, <1>10

\* What any step does to the ends of the sessions: an end has gone, has just
\* registered (c), or is one that was there.
EvolvesAt(c, r) ==
    /\ \A e \in Ends(table'[r]) :
          \/ e.conn = None
          \/ e.conn = c /\ e.reg = regs[c] + 1
          \/ \E f \in Ends(table[r]) : /\ e.conn = f.conn /\ e.reg = f.reg
                                       /\ f.given => e.given
    /\ table'[r].a.conn = table'[r].b.conn => table'[r].a.conn = None

Evolves(c) == \A r \in Sids : EvolvesAt(c, r)

RegsGrow ==
    /\ regs \in [Conns -> 0 .. MaxRegs] /\ regs' \in [Conns -> 0 .. MaxRegs]
    /\ \A x \in Conns : regs[x] <= regs'[x]

\* Messages of other tasks stay due when c registers ...
LEMMA DueKept ==
    ASSUME NEW c, Evolves(c), RegsGrow, UNCHANGED got,
           NEW d \in Conns, d # c, NEW m \in Messages, DueIn(regs, table, got, d, m)
    PROVE  DueIn(regs', table', got', d, m)
<1>1. m.sid \in Sids /\ m.from \in Conns /\ m.to \in Conns /\ m.reg \in 1 .. MaxRegs
  BY DEF Messages
<1>2. regs[m.from] \in Nat /\ regs'[m.from] \in Nat /\ regs[m.from] <= regs'[m.from]
  BY <1>1, RendezvousAssumption DEF RegsGrow
<1>3. ASSUME NEW e \in Ends(table'[m.sid])
      PROVE  /\ e.conn = m.from => m.reg <= e.reg
             /\ e.conn = d => e.given
  <2>1. CASE e.conn = None
    BY <1>1, <2>1, RendezvousAssumption
  <2>2. CASE e.conn = c /\ e.reg = regs[c] + 1
    BY <1>1, <1>2, <2>2 DEF DueIn
  <2>3. CASE \E f \in Ends(table[m.sid]) : /\ e.conn = f.conn /\ e.reg = f.reg
                                           /\ f.given => e.given
    BY <2>3 DEF DueIn
  <2> QED BY <1>1, <1>3, <2>1, <2>2, <2>3 DEF Evolves, EvolvesAt
<1> QED BY <1>1, <1>2, <1>3 DEF DueIn

\* ... and so does what was received stay behind what is registered.
LEMMA ReceivedKept ==
    ASSUME NEW c, Evolves(c), RegsGrow, NEW d \in Conns, got'[d] = got[d], ReceivedIn(regs, table, got[d])
    PROVE  ReceivedIn(regs', table', got'[d])
<1> SUFFICES ASSUME got[d] # NoCands PROVE ReceivedIn(regs', table', got'[d])
  BY DEF ReceivedIn
<1>1. got[d] \in [sid : Sids, from : Conns, reg : 1 .. MaxRegs]
  BY DEF ReceivedIn
<1>2. got[d].sid \in Sids /\ got[d].from \in Conns /\ got[d].reg \in 1 .. MaxRegs
  BY <1>1
<1>3. regs[got[d].from] \in Nat /\ regs'[got[d].from] \in Nat
      /\ regs[got[d].from] <= regs'[got[d].from]
  BY <1>2, RendezvousAssumption DEF RegsGrow
<1>4. got[d].reg <= regs[got[d].from]
  BY DEF ReceivedIn
<1>5. ASSUME NEW e \in Ends(table'[got[d].sid]), e.conn = got[d].from
      PROVE  got[d].reg <= e.reg
  <2>1. CASE e.conn = None
    BY <1>2, <1>5, <2>1, RendezvousAssumption
  <2>2. CASE e.conn = c /\ e.reg = regs[c] + 1
    BY <1>2, <1>3, <1>4, <1>5, <2>2
  <2>3. CASE \E f \in Ends(table[got[d].sid]) : e.conn = f.conn /\ e.reg = f.reg
    BY <1>5, <2>3 DEF ReceivedIn
  <2> QED BY <1>2, <1>5, <2>1, <2>2, <2>3 DEF Evolves, EvolvesAt
<1> QED BY <1>1, <1>2, <1>3, <1>4, <1>5 DEF ReceivedIn

\* Sessions that stay or go as a whole have evolved, for any c.
LEMMA StayEvolves ==
    ASSUME OrderInv, NEW c, NEW r \in Sids, table'[r] \in {table[r], NoSession}
    PROVE  EvolvesAt(c, r)
  BY NoSessionFacts DEF OrderInv, Ends, EvolvesAt

\* A registration in full: everything evolves, and new messages are due.
LEMMA RegisterEvolves ==
    ASSUME RendezvousInv, OrderInv, NEW c \in Conns, NEW s \in Sids, Register(c, s)
    PROVE  /\ Evolves(c) /\ RegsGrow /\ UNCHANGED got /\ outbox[c] = <<>>
           /\ regs'[c] = regs[c] + 1
           /\ outbox' = outbox \/ Exchanged(table[s], table'[s], c, s)
<1>1. RegsGrow /\ regs'[c] = regs[c] + 1
  BY RendezvousAssumption DEF Register, RendezvousInv, TableTypes, RegsGrow
<1>2. UNCHANGED got /\ outbox[c] = <<>>
  BY DEF Register, Idle
<1>3. /\ AfterEviction(s).table \in [Sids -> Sessions]
      /\ \A r \in Sids : AfterEviction(s).table[r] \in {table[r], NoSession}
      /\ AfterEviction(s).table[s] = table[s]
  BY EvictionFacts DEF RendezvousInv
<1>4. \A r \in Sids \ {s} : table'[r] \in {table[r], NoSession}
  BY <1>3 DEF Register
<1>5. CASE SeatOf(table[s], c) = "none"
  <2>1. table'[s] = table[s] /\ outbox' = outbox
    BY <1>3, <1>5 DEF Register
  <2>2. \A r \in Sids : table'[r] \in {table[r], NoSession}
    BY <1>4, <2>1
  <2>3. Evolves(c)
    BY <2>2, StayEvolves DEF Evolves
  <2> QED BY <1>1, <1>2, <2>1, <2>3
<1>6. CASE SeatOf(table[s], c) # "none"
  <2>1. /\ Rejoined(table[s], table'[s], c)
        /\ outbox' = outbox \/ Exchanged(table[s], table'[s], c, s)
    BY <1>6, RegisterEnds
  <2>2. Evolves(c)
    BY <1>4, <2>1, StayEvolves DEF Evolves, EvolvesAt, Rejoined
  <2> QED BY <1>1, <1>2, <2>1, <2>2
<1> QED BY <1>5, <1>6

\* A registration keeps the order: an exchange finds no message between its
\* two ends in the outbox of the other one, whose candidates would be given.
LEMMA RegisterOrder ==
    ASSUME RendezvousInv, OrderInv, NEW c \in Conns, NEW s \in Sids, Register(c, s)
    PROVE  OrderInv'
<1>1. /\ Evolves(c) /\ RegsGrow /\ UNCHANGED got /\ outbox[c] = <<>>
      /\ regs'[c] = regs[c] + 1
      /\ outbox' = outbox \/ Exchanged(table[s], table'[s], c, s)
  BY RegisterEvolves
<1>2. /\ outbox \in [Conns -> Seq(Messages)]
      /\ \A d \in Conns : \A i \in 1 .. Len(outbox[d]) : outbox[d][i] \in Messages
  BY DEF OrderInv
<1>3. \A d \in Conns \ {c} : \A i \in 1 .. Len(outbox[d]) :
         DueIn(regs', table', got', d, outbox[d][i])
  <2>1. ASSUME NEW d \in Conns \ {c}, NEW m \in Messages, DueIn(regs, table, got, d, m)
        PROVE  DueIn(regs', table', got', d, m)
    BY <1>1, <2>1, DueKept
  <2> QED BY <1>2, <2>1 DEF OrderInv
<1>4. /\ got' = [d \in Conns |-> got'[d]]
      /\ \A d \in Conns : ReceivedIn(regs', table', got'[d])
  BY <1>1, ReceivedKept DEF OrderInv
<1>5. \A r \in Sids : table'[r].a.conn = table'[r].b.conn => table'[r].a.conn = None
  BY <1>1 DEF Evolves, EvolvesAt
<1>6. CASE outbox' = outbox
  <2>1. \A d \in Conns : \A i \in 1 .. Len(outbox[d]) :
           DueIn(regs', table', got', d, outbox[d][i])
    BY <1>1, <1>3
  <2> QED BY <1>2, <1>4, <1>5, <1>6, <2>1 DEF OrderInv
<1>7. CASE Exchanged(table[s], table'[s], c, s)
  <2> DEFINE n == table'[s]
             m1 == Message(n.a, s, n.b)
             m2 == Message(n.b, s, n.a)
  <2>1. /\ n.a.conn \in Conns /\ n.b.conn \in Conns /\ c \in {n.a.conn, n.b.conn}
        /\ n.a.given /\ n.b.given /\ n.a.conn # n.b.conn
    BY <1>1, <1>7, RendezvousAssumption DEF Exchanged, Evolves, EvolvesAt
  <2>2. /\ n.a.reg \in 1 .. MaxRegs /\ n.b.reg \in 1 .. MaxRegs
        /\ n.a.reg <= regs'[n.a.conn] /\ n.b.reg <= regs'[n.b.conn]
    <3>1. SessionGood(n, regs')
      BY RegisterMove
    <3> QED BY <2>1, <3>1, RendezvousAssumption DEF SessionGood, Sessions, Slots, NoSlot
  <2>3. /\ m1 \in Messages /\ m1.to = n.a.conn /\ m1.from = n.b.conn /\ m1.sid = s
        /\ m1.reg = n.b.reg
        /\ m2 \in Messages /\ m2.to = n.b.conn /\ m2.from = n.a.conn /\ m2.sid = s
        /\ m2.reg = n.a.reg
    BY <2>1, <2>2 DEF Message, Messages
  <2> HIDE DEF m1, m2
  <2>4. outbox'[c] = <<m1, m2>> /\ \A d \in Conns \ {c} : outbox'[d] = outbox[d]
    <3>1. outbox' = [outbox EXCEPT ![c] = @ \o <<m1, m2>>]
      BY <1>7 DEF Exchanged, m1, m2
    <3>2. outbox'[c] = <<>> \o <<m1, m2>>
      BY <1>1, <1>2, <3>1
    <3>3. <<m1, m2>> \in Seq(Messages)
      BY <2>3
    <3> QED BY <1>2, <3>1, <3>2, <3>3, ConcatEmptySeq
  <2>5. outbox' \in [Conns -> Seq(Messages)]
    <3>1. outbox' = [outbox EXCEPT ![c] = @ \o <<m1, m2>>]
      BY <1>7 DEF Exchanged, m1, m2
    <3>2. <<m1, m2>> \in Seq(Messages)
      BY <2>3
    <3>3. \A d \in Conns : outbox'[d] \in Seq(Messages)
      BY <1>2, <2>4, <3>2
    <3>4. outbox' = [d \in Conns |-> outbox'[d]]
      BY <1>2, <3>1
    <3> QED BY <3>3, <3>4
  <2>6. DueIn(regs', table', got', c, m1) /\ DueIn(regs', table', got', c, m2)
    <3>1. s # None
      BY RendezvousAssumption
    <3>2. ASSUME NEW x \in Ends(n), NEW y \in Conns,
                 got'[y].sid = s, got'[y].from = x.conn
          PROVE  got'[y].reg <= x.reg
      BY <1>4, <3>1, <3>2 DEF ReceivedIn, NoCands
    <3>3. n.a \in Ends(n) /\ n.b \in Ends(n) /\ \A e \in Ends(n) : e = n.a \/ e = n.b
      BY DEF Ends
    <3> QED BY <2>1, <2>2, <2>3, <3>2, <3>3 DEF DueIn
  <2>7. \A d \in Conns : \A i \in 1 .. Len(outbox'[d]) :
           DueIn(regs', table', got', d, outbox'[d][i])
    BY <1>3, <2>4, <2>6
  <2>8. ASSUME NEW d \in Conns \ {c}, NEW j \in 1 .. Len(outbox[d]), NEW m \in {m1, m2}
        PROVE  ~Alike(m, outbox[d][j])
    <3> SUFFICES ASSUME Alike(m, outbox[d][j]) PROVE FALSE
      OBVIOUS
    <3>1. DueIn(regs, table, got, d, outbox[d][j])
      BY DEF OrderInv
    <3>2. outbox[d][j].sid = s /\ d \in {n.a.conn, n.b.conn}
      BY <2>3, <3>1 DEF Alike, DueIn
    <3>3. PICK e \in Ends(n) : e.conn = d
      BY <3>2 DEF Ends
    <3>4. PICK f \in Ends(table[s]) : f.conn = d
      <4>1. d # None
        BY RendezvousAssumption
      <4> QED BY <1>1, <3>3, <4>1 DEF Evolves, EvolvesAt
    <3> QED BY <1>7, <3>1, <3>2, <3>4 DEF DueIn, Exchanged
  <2>9. \A d, e \in Conns : \A i \in 1 .. Len(outbox'[d]), j \in 1 .. Len(outbox'[e]) :
           Alike(outbox'[d][i], outbox'[e][j]) => d = e /\ i = j
    <3>1. ~Alike(m1, m2) /\ ~Alike(m2, m1)
      BY <2>1, <2>3 DEF Alike
    <3>2. Len(outbox'[c]) = 2 /\ outbox'[c][1] = m1 /\ outbox'[c][2] = m2
      BY <2>4
    <3>3. \A x, y : Alike(x, y) <=> Alike(y, x)
      BY DEF Alike
    <3>4. ASSUME NEW d \in Conns, NEW e \in Conns,
                 NEW i \in 1 .. Len(outbox'[d]), NEW j \in 1 .. Len(outbox'[e]),
                 Alike(outbox'[d][i], outbox'[e][j])
          PROVE  d = e /\ i = j
      <4>1. CASE d = c /\ e = c
        BY <3>1, <3>2, <3>4, <4>1
      <4>2. CASE d = c /\ e # c
        BY <2>4, <2>8, <3>2, <3>4, <4>2
      <4>3. CASE d # c /\ e = c
        BY <2>4, <2>8, <3>2, <3>3, <3>4, <4>3
      <4>4. CASE d # c /\ e # c
        BY <2>4, <3>4, <4>4 DEF OrderInv
      <4> QED BY <4>1, <4>2, <4>3, <4>4
    <3> QED BY <3>4
  <2> QED BY <1>4, <1>5, <2>5, <2>7, <2>9 DEF OrderInv
<1> QED BY <1>1, <1>6, <1>7

\* A send: the message was due, so it is not older than the last one received
\* from its end, and nothing of the same kind is left to be sent.
LEMMA SendOrder ==
    ASSUME RendezvousInv, OrderInv, NEW c \in Conns, Send(c)
    PROVE  /\ OrderInv'
           /\ \A d \in Conns : got[d].sid = got'[d].sid /\ got[d].from = got'[d].from
                 => got'[d].reg >= got[d].reg
<1> DEFINE m == Head(outbox[c])
           new == [sid |-> m.sid, from |-> m.from, reg |-> m.reg]
<1>1. /\ outbox \in [Conns -> Seq(Messages)] /\ got = [d \in Conns |-> got[d]]
      /\ outbox[c] \in Seq(Messages) /\ outbox[c] # <<>>
  BY DEF OrderInv, Send
<1>2. m \in Messages /\ m = outbox[c][1] /\ 1 \in 1 .. Len(outbox[c])
  BY <1>1
<1> HIDE DEF m
<1>3. DueIn(regs, table, got, c, m)
  BY <1>2 DEF OrderInv
<1>4. m.to \in Conns /\ m.sid \in Sids /\ m.from \in Conns /\ m.reg \in 1 .. MaxRegs
  BY <1>2 DEF Messages
<1>5. UNCHANGED <<table, regs>> /\ got' = [d \in Conns |-> got'[d]]
      /\ got'[m.to] = new /\ \A d \in Conns \ {m.to} : got'[d] = got[d]
  BY <1>1, <1>4 DEF Send, m
<1>6. /\ Tail(outbox[c]) \in Seq(Messages)
      /\ Len(Tail(outbox[c])) = Len(outbox[c]) - 1
      /\ \A i \in 1 .. Len(Tail(outbox[c])) : Tail(outbox[c])[i] = outbox[c][i + 1]
  BY <1>1, HeadTailProperties
<1>7. outbox'[c] = Tail(outbox[c]) /\ \A d \in Conns \ {c} : outbox'[d] = outbox[d]
  BY <1>1 DEF Send
<1>8. outbox' \in [Conns -> Seq(Messages)]
  BY <1>1, <1>6 DEF Send
\* what is still to be sent was to be sent before, at another place
<1>9. ASSUME NEW d \in Conns, NEW i \in 1 .. Len(outbox'[d])
      PROVE  \E j \in 1 .. Len(outbox[d]) : /\ outbox'[d][i] = outbox[d][j]
                                            /\ j = IF d = c THEN i + 1 ELSE i
  <2>1. CASE d = c
    <3>1. i \in 1 .. Len(Tail(outbox[c]))
      BY <1>7, <1>9, <2>1
    <3>2. Len(outbox[c]) \in Nat /\ i + 1 \in 1 .. Len(outbox[c])
      BY <1>1, <1>6, <3>1
    <3> QED BY <1>6, <1>7, <2>1, <3>1, <3>2
  <2>2. CASE d # c
    BY <1>7, <1>9, <2>2
  <2> QED BY <2>1, <2>2
<1>10. \A d \in Conns : \A i \in 1 .. Len(outbox'[d]) :
          DueIn(regs', table', got', d, outbox'[d][i])
  <2> SUFFICES ASSUME NEW d \in Conns, NEW i \in 1 .. Len(outbox'[d])
               PROVE  DueIn(regs', table', got', d, outbox'[d][i])
    OBVIOUS
  <2>1. PICK j \in 1 .. Len(outbox[d]) : outbox'[d][i] = outbox[d][j]
                                         /\ j = IF d = c THEN i + 1 ELSE i
    BY <1>9
  <2> DEFINE x == outbox[d][j]
  <2>2. DueIn(regs, table, got, d, x) /\ x \in Messages
    BY <1>1 DEF OrderInv
  <2>3. ~Alike(m, x)
    <3>1. ~(d = c /\ j = 1)
      BY <2>1, <1>8
    <3> QED BY <1>2, <3>1 DEF OrderInv
  <2> HIDE DEF x
  <2>4. got'[x.to].sid = x.sid /\ got'[x.to].from = x.from => got'[x.to].reg <= x.reg
    <3>1. CASE x.to = m.to
      BY <1>5, <2>3, <3>1 DEF Alike
    <3>2. CASE x.to # m.to
      BY <1>5, <2>2, <3>2 DEF DueIn, Messages
    <3> QED BY <3>1, <3>2
  <2>5. DueIn(regs', table', got', d, x)
    BY <1>5, <2>2, <2>4 DEF DueIn
  <2> QED BY <2>1, <2>5 DEF x
<1>11. \A d, e \in Conns : \A i \in 1 .. Len(outbox'[d]), j \in 1 .. Len(outbox'[e]) :
          Alike(outbox'[d][i], outbox'[e][j]) => d = e /\ i = j
  <2> SUFFICES ASSUME NEW d \in Conns, NEW e \in Conns,
                      NEW i \in 1 .. Len(outbox'[d]), NEW j \in 1 .. Len(outbox'[e]),
                      Alike(outbox'[d][i], outbox'[e][j])
               PROVE  d = e /\ i = j
    OBVIOUS
  <2>1. PICK k \in 1 .. Len(outbox[d]) : outbox'[d][i] = outbox[d][k]
                                         /\ k = IF d = c THEN i + 1 ELSE i
    BY <1>9
  <2>2. PICK l \in 1 .. Len(outbox[e]) : outbox'[e][j] = outbox[e][l]
                                         /\ l = IF e = c THEN j + 1 ELSE j
    BY <1>9
  <2>3. d = e /\ k = l
    BY <2>1, <2>2 DEF OrderInv
  <2>4. i \in Int /\ j \in Int
    BY <1>8
  <2> QED BY <2>1, <2>2, <2>3, <2>4
<1>12. \A d \in Conns : ReceivedIn(regs', table', got'[d])
  <2>1. ReceivedIn(regs', table', new)
    BY <1>3, <1>4, <1>5 DEF ReceivedIn, DueIn
  <2>2. \A d \in Conns \ {m.to} : ReceivedIn(regs', table', got'[d])
    BY <1>5 DEF OrderInv
  <2> QED BY <1>5, <2>1, <2>2
<1>13. \A r \in Sids : table'[r].a.conn = table'[r].b.conn => table'[r].a.conn = None
  BY <1>5 DEF OrderInv
<1>14. \A d \in Conns : got[d].sid = got'[d].sid /\ got[d].from = got'[d].from
          => got'[d].reg >= got[d].reg
  <2>1. ASSUME NEW d \in Conns \ {m.to} PROVE got'[d].reg >= got[d].reg
    <3>1. got[d].reg \in Nat
      BY DEF OrderInv, ReceivedIn, NoCands
    <3> QED BY <1>5, <3>1
  <2>2. got'[m.to].reg = m.reg /\ got'[m.to].sid = m.sid /\ got'[m.to].from = m.from
    BY <1>5
  <2>3. got[m.to].reg \in Nat
    BY <1>4 DEF OrderInv, ReceivedIn, NoCands
  <2> QED BY <1>3, <1>4, <2>1, <2>2, <2>3 DEF DueIn
<1> QED BY <1>5, <1>8, <1>10, <1>11, <1>12, <1>13, <1>14 DEF OrderInv

\* The other steps hand nothing over: ends only leave the sessions.
LEMMA QuietOrder ==
    ASSUME RendezvousInv, OrderInv, UNCHANGED <<regs, outbox, got>>, Evolves(None)
    PROVE  OrderInv'
<1>1. RegsGrow
  BY RendezvousAssumption DEF RendezvousInv, TableTypes, RegsGrow
<1>2. \A d \in Conns : ReceivedIn(regs', table', got'[d])
  BY <1>1, ReceivedKept DEF OrderInv
<1>3. ASSUME NEW d \in Conns, NEW m \in Messages, DueIn(regs, table, got, d, m)
      PROVE  DueIn(regs', table', got', d, m)
  <2>1. d # None
    BY RendezvousAssumption
  <2> QED BY <1>1, <1>3, <2>1, DueKept
<1>4. \A d \in Conns : \A i \in 1 .. Len(outbox[d]) : outbox[d][i] \in Messages
  BY DEF OrderInv
<1>5. \A r \in Sids : table'[r].a.conn = table'[r].b.conn => table'[r].a.conn = None
  BY DEF Evolves, EvolvesAt
<1>6. \A d \in Conns : \A i \in 1 .. Len(outbox'[d]) :
         DueIn(regs', table', got', d, outbox'[d][i])
  BY <1>3, <1>4 DEF OrderInv
<1> QED BY <1>2, <1>5, <1>6 DEF OrderInv

LEMMA OrderStep ==
    RendezvousInv /\ OrderInv /\ [Next]_vars =>
       /\ OrderInv'
       /\ \A d \in Conns : got[d].sid = got'[d].sid /\ got[d].from = got'[d].from
             => got'[d].reg >= got[d].reg
<1> SUFFICES ASSUME RendezvousInv, OrderInv, [Next]_vars
             PROVE  /\ OrderInv'
                    /\ \A d \in Conns : got[d].sid = got'[d].sid /\ got[d].from = got'[d].from
                          => got'[d].reg >= got[d].reg
  OBVIOUS
<1>8. ASSUME NEW d \in Conns PROVE got[d].reg \in Nat
  <2>1. ReceivedIn(regs, table, got[d])
    BY DEF OrderInv
  <2> QED BY <2>1 DEF ReceivedIn, NoCands
<1>1. \A r \in Sids : table'[r] \in {table[r], NoSession} => EvolvesAt(None, r)
  BY StayEvolves
<1>2. ASSUME NEW c \in Conns, NEW s \in Sids, Register(c, s)
      PROVE  OrderInv' /\ got' = got
  BY <1>2, RegisterOrder DEF Register
<1>3. ASSUME NEW c \in Conns, Send(c)
      PROVE  /\ OrderInv'
             /\ \A d \in Conns : got[d].sid = got'[d].sid /\ got[d].from = got'[d].from
                   => got'[d].reg >= got[d].reg
  BY <1>3, SendOrder
<1>4. ASSUME UNCHANGED <<table, regs, outbox, got>> PROVE OrderInv'
  BY <1>1, <1>4, QuietOrder DEF Evolves
<1>5. ASSUME NEW c \in Conns, ForwardToOther(c) \/ RemoveRoute(c)
      PROVE  OrderInv' /\ got' = got
  BY <1>4, <1>5 DEF ForwardToOther, RemoveRoute
<1>6. ASSUME NEW c \in Conns, RemoveSlot(c) PROVE OrderInv' /\ got' = got
  <2> DEFINE s == leaving[c]
             n == Vacated(table[s], c)
  <2>1. UNCHANGED <<regs, outbox, got>>
    BY <1>6 DEF RemoveSlot
  <2>2. \A r \in Sids \ {s} : table'[r] = table[r]
    BY <1>6 DEF RemoveSlot, RendezvousInv, TableTypes
  <2>3. ASSUME s \in Sids PROVE EvolvesAt(None, s)
    <3>1. table[s] \in Sessions /\ DOMAIN table = Sids
      BY <2>3 DEF RendezvousInv, TableTypes
    <3>2. table'[s] \in {n, NoSession}
      BY <1>6, <2>3, <3>1 DEF RemoveSlot
    <3>3. n.a \in {table[s].a, NoSlot} /\ n.b \in {table[s].b, NoSlot}
      BY <3>1 DEF Vacated, Sessions
    <3>4. NoSlot.conn = None /\ NoSession.a = NoSlot /\ NoSession.b = NoSlot
      BY NoSessionFacts
    <3>5. table[s].a.conn = table[s].b.conn => table[s].a.conn = None
      BY <2>3 DEF OrderInv
    <3> QED BY <3>2, <3>3, <3>4, <3>5 DEF EvolvesAt, Ends
  <2>4. Evolves(None)
    BY <1>1, <2>2, <2>3 DEF Evolves
  <2> QED BY <2>1, <2>4, QuietOrder
<1>7. ASSUME UNCHANGED vars PROVE OrderInv' /\ got' = got
  BY <1>4, <1>7 DEF vars
<1>9. CASE got' = got
  BY <1>2, <1>3, <1>5, <1>6, <1>7, <1>8, <1>9 DEF Next
<1>10. CASE got' # got
  BY <1>2, <1>3, <1>5, <1>6, <1>7, <1>10 DEF Next, vars
<1> QED BY <1>9, <1>10

LEMMA OrderInit == Init => OrderInv
<1> SUFFICES ASSUME Init PROVE OrderInv
  OBVIOUS
<1>1. \A c \in Conns : outbox[c] = <<>> /\ Len(outbox[c]) = 0 /\ got[c] = NoCands
  BY DEF Init
<1>2. outbox \in [Conns -> Seq(Messages)]
  BY DEF Init
<1>3. \A s \in Sids : table[s].a.conn = None
  BY NoSessionFacts DEF Init
<1>4. got = [c \in Conns |-> got[c]]
  BY DEF Init
<1>5. \A c \in Conns : ReceivedIn(regs, table, got[c])
  BY <1>1 DEF ReceivedIn
<1> QED BY <1>1, <1>2, <1>3, <1>4, <1>5 DEF OrderInv

\* The candidates of one end arrive in the order it registered them, although
\* several tasks send them outside the lock.
THEOREM CandidatesArriveInOrder == Spec => CandidatesInOrder
<1>1. Spec => [](RendezvousInv /\ OrderInv)
  <2>1. RendezvousInv /\ OrderInv /\ [Next]_vars => (RendezvousInv /\ OrderInv)'
    BY RendezvousStep, OrderStep
  <2> QED BY RendezvousInit, OrderInit, <2>1, PTL DEF Spec
<1>2. RendezvousInv /\ OrderInv /\ [Next]_vars =>
         \A c \in Conns : got[c].sid = got'[c].sid /\ got[c].from = got'[c].from
            => got'[c].reg >= got[c].reg
  BY OrderStep
<1> QED BY <1>1, <1>2, PTL DEF Spec, CandidatesInOrder

-----------------------------------------------------------------------------
(* The list of sessions by activity, and with it the types.                *)

RecentInv ==
    /\ recent \in Seq(Sids)
    /\ \A i, j \in 1 .. Len(recent) : recent[i] = recent[j] => i = j
    /\ {recent[i] : i \in 1 .. Len(recent)} = Present
    /\ IsFiniteSet(Present) /\ Cardinality(Present) <= MaxSessions
    /\ route \in [Conns -> Sids \cup {None, "closed"}]
    /\ leaving \in [Conns -> Sids \cup {None}]

\* A list without repetitions, as a set.
Once(q) == \A i, j \in 1 .. Len(q) : q[i] = q[j] => i = j
Listed(q) == {q[i] : i \in 1 .. Len(q)}

\* Taking an element out of a list leaves the others.
LEMMA WithoutFacts ==
    ASSUME NEW S, NEW q \in Seq(S), Once(q), NEW e
    PROVE  /\ Without(q, e) \in Seq(S) /\ Once(Without(q, e))
           /\ Listed(Without(q, e)) = Listed(q) \ {e}
<1>1. CASE e \notin Listed(q)
  <2>1. Without(q, e) = q
    BY <1>1 DEF Listed, Without, RemoveFirst
  <2> QED BY <1>1, <2>1
<1>2. CASE e \in Listed(q)
  <2>1. PICK k \in 1 .. Len(q) : q[k] = e
    BY <1>2 DEF Listed
  <2>2. {i \in 1 .. Len(q) : q[i] = e} = {k}
    BY <2>1 DEF Once
  <2>3. SelectInSeq(q, LAMBDA v : v = e) = k
    <3>1. Min({k}) = k
      BY DEF Min
    <3> QED BY <2>2, <3>1 DEF SelectInSeq
  <2> DEFINE r == Without(q, e)
             front == SubSeq(q, 1, k - 1)
             back == SubSeq(q, k + 1, Len(q))
  <2>4. r = front \o back
    BY <2>1, <2>3 DEF Without, RemoveFirst, RemoveAt
  <2>5. Len(q) \in Nat /\ k \in Nat /\ k >= 1 /\ k <= Len(q)
        /\ \A i \in 1 .. Len(q) : q[i] \in S
    BY <2>1
  <2>6. /\ front \in Seq(S) /\ Len(front) = k - 1
        /\ \A i \in 1 .. k - 1 : front[i] = q[i]
    BY <2>5, SubSeqProperties
  <2>7. /\ back \in Seq(S) /\ Len(back) = Len(q) - k
        /\ \A i \in 1 .. Len(q) - k : back[i] = q[k + i]
    BY <2>5, SubSeqProperties
  <2> HIDE DEF r, front, back
  <2>8. /\ r \in Seq(S) /\ Len(r) = Len(q) - 1
        /\ \A i \in 1 .. Len(q) - 1 : r[i] = IF i < k THEN q[i] ELSE q[i + 1]
    <3>1. /\ r \in Seq(S) /\ Len(r) = Len(q) - 1
          /\ \A i \in 1 .. Len(q) - 1 :
                r[i] = IF i <= k - 1 THEN front[i] ELSE back[i - (k - 1)]
      <4>1. /\ front \o back \in Seq(S)
            /\ Len(front \o back) = Len(front) + Len(back)
            /\ \A i \in 1 .. Len(front) + Len(back) : (front \o back)[i] =
                  IF i <= Len(front) THEN front[i] ELSE back[i - Len(front)]
        BY <2>6, <2>7, ConcatProperties
      <4>2. Len(front) + Len(back) = Len(q) - 1
        BY <2>5, <2>6, <2>7
      <4> QED BY <2>4, <2>6, <4>1, <4>2
    <3>2. ASSUME NEW i \in 1 .. Len(q) - 1, ~(i < k)
          PROVE  r[i] = q[i + 1]
      <4>1. i - (k - 1) \in 1 .. Len(q) - k /\ k + (i - (k - 1)) = i + 1 /\ ~(i <= k - 1)
        BY <2>5, <3>2
      <4> QED BY <2>7, <3>1, <4>1
    <3>3. ASSUME NEW i \in 1 .. Len(q) - 1, i < k
          PROVE  r[i] = q[i]
      BY <2>5, <2>6, <3>1, <3>3
    <3> QED BY <3>1, <3>2, <3>3
  <2>9. Once(r)
    BY <2>5, <2>8 DEF Once
  <2>10. Listed(r) = Listed(q) \ {e}
    <3>1. ASSUME NEW i \in 1 .. Len(r) PROVE r[i] \in Listed(q) \ {e}
      BY <2>1, <2>5, <2>8 DEF Listed, Once
    <3>2. ASSUME NEW i \in 1 .. Len(q), q[i] # e PROVE \E j \in 1 .. Len(r) : r[j] = q[i]
      <4>1. CASE i < k
        BY <2>5, <2>8, <4>1
      <4>2. CASE i > k
        <5>1. i - 1 \in 1 .. Len(r) /\ i - 1 + 1 = i /\ ~(i - 1 < k)
          BY <2>5, <2>8, <4>2
        <5> QED BY <2>8, <5>1
      <4> QED BY <2>1, <2>5, <3>2, <4>1, <4>2
    <3>3. \A x \in Listed(q) \ {e} : x \in Listed(r)
      BY <3>2 DEF Listed
    <3>4. \A x \in Listed(r) : x \in Listed(q) \ {e}
      BY <3>1 DEF Listed
    <3> QED BY <3>3, <3>4
  <2> QED BY <2>8, <2>9, <2>10 DEF r
<1> QED BY <1>1, <1>2

\* A new last element.
LEMMA AppendFacts ==
    ASSUME NEW S, NEW q \in Seq(S), Once(q), NEW e \in S, e \notin Listed(q)
    PROVE  /\ Append(q, e) \in Seq(S) /\ Once(Append(q, e))
           /\ Listed(Append(q, e)) = Listed(q) \cup {e}
<1>1. /\ Append(q, e) \in Seq(S) /\ Len(Append(q, e)) = Len(q) + 1 /\ Len(q) \in Nat
      /\ \A i \in 1 .. Len(q) : Append(q, e)[i] = q[i]
      /\ Append(q, e)[Len(q) + 1] = e
  BY AppendProperties
<1>2. Once(Append(q, e))
  BY <1>1 DEF Once, Listed
<1>3. \A i \in 1 .. Len(q) + 1 : i = Len(q) + 1 \/ i \in 1 .. Len(q)
  BY <1>1
<1>4. Listed(Append(q, e)) = Listed(q) \cup {e}
  BY <1>1, <1>3 DEF Listed
<1> QED BY <1>1, <1>2, <1>4

\* A list without its first element.
LEMMA TailFacts ==
    ASSUME NEW S, NEW q \in Seq(S), Once(q), q # <<>>
    PROVE  /\ Head(q) \in Listed(q) /\ Tail(q) \in Seq(S) /\ Once(Tail(q))
           /\ Listed(Tail(q)) = Listed(q) \ {Head(q)}
<1>1. /\ Head(q) = q[1] /\ 1 \in 1 .. Len(q) /\ Len(q) \in Nat
      /\ Tail(q) \in Seq(S) /\ Len(Tail(q)) = Len(q) - 1
      /\ \A i \in 1 .. Len(Tail(q)) : Tail(q)[i] = q[i + 1]
  BY HeadTailProperties
<1>2. Once(Tail(q))
  BY <1>1 DEF Once
<1>3. ASSUME NEW i \in 1 .. Len(Tail(q)) PROVE Tail(q)[i] \in Listed(q) \ {Head(q)}
  BY <1>1 DEF Listed, Once
<1>4. ASSUME NEW i \in 1 .. Len(q), q[i] # Head(q)
      PROVE  \E j \in 1 .. Len(Tail(q)) : Tail(q)[j] = q[i]
  <2>1. i - 1 \in 1 .. Len(Tail(q)) /\ i - 1 + 1 = i
    BY <1>1, <1>4
  <2> QED BY <1>1, <2>1
<1>5. Listed(Tail(q)) = Listed(q) \ {Head(q)}
  BY <1>3, <1>4 DEF Listed
<1> QED BY <1>1, <1>2, <1>5 DEF Listed

\* Present is the sessions that are not NoSession: what a registration, an
\* eviction and a departure make of it.
LEMMA PresentAfterEviction ==
    ASSUME RendezvousInv, RecentInv, NEW s \in Sids
    PROVE  LET k == AfterEviction(s)
               here == {r \in Sids : k.table[r] # NoSession} IN
           /\ k.recent \in Seq(Sids) /\ Once(k.recent) /\ Listed(k.recent) = here
           /\ IsFiniteSet(here) /\ Cardinality(here \cup {s}) <= MaxSessions
<1> DEFINE k == AfterEviction(s)
           here == {r \in Sids : k.table[r] # NoSession}
<1>1. recent \in Seq(Sids) /\ Once(recent) /\ Listed(recent) = Present
      /\ IsFiniteSet(Present) /\ Cardinality(Present) <= MaxSessions
      /\ Cardinality(Present) \in Nat
  BY FS_CardinalityType DEF RecentInv, Once, Listed
<1>2. table \in [Sids -> Sessions] /\ MaxSessions \in Nat \ {0}
  BY RendezvousAssumption DEF RendezvousInv, TableTypes
<1>3. CASE s \notin Present /\ Cardinality(Present) >= MaxSessions
  <2>1. k.table = [table EXCEPT ![Head(recent)] = NoSession] /\ k.recent = Tail(recent)
    BY <1>3 DEF AfterEviction
  <2>2. recent # <<>>
    <3>1. Present # {}
      BY <1>1, <1>2, <1>3, FS_EmptySet
    <3> QED BY <1>1, <3>1 DEF Listed
  <2>3. /\ Head(recent) \in Present /\ Tail(recent) \in Seq(Sids) /\ Once(Tail(recent))
        /\ Listed(Tail(recent)) = Present \ {Head(recent)}
    BY <1>1, <2>2, TailFacts
  <2>4. here = Present \ {Head(recent)}
    BY <1>2, <2>1, <2>3 DEF Present
  <2>5. IsFiniteSet(here) /\ Cardinality(here) = Cardinality(Present) - 1
    BY <1>1, <2>3, <2>4, FS_RemoveElement
  <2>6. Cardinality(here \cup {s}) <= MaxSessions
    <3>1. s \notin here
      BY <1>3, <2>4
    <3> HIDE DEF here, k
    <3>2. Cardinality(here \cup {s}) = Cardinality(here) + 1
      BY <2>5, <3>1, FS_AddElement
    <3> QED BY <1>1, <1>2, <2>5, <3>2
  <2> QED BY <2>1, <2>3, <2>4, <2>5, <2>6
<1>4. CASE ~(s \notin Present /\ Cardinality(Present) >= MaxSessions)
  <2>1. k.table = table /\ k.recent = recent
    BY <1>4 DEF AfterEviction
  <2>2. here = Present
    BY <2>1 DEF Present
  <2>3. Cardinality(Present \cup {s}) <= MaxSessions
    <3>1. CASE s \in Present
      <4>1. Present \cup {s} = Present
        BY <3>1
      <4> QED BY <1>1, <4>1
    <3>2. CASE s \notin Present
      <4>1. Cardinality(Present \cup {s}) = Cardinality(Present) + 1
        BY <1>1, <3>2, FS_AddElement
      <4> QED BY <1>1, <1>2, <1>4, <3>2, <4>1
    <3> QED BY <3>1, <3>2
  <2> QED BY <1>1, <2>1, <2>2, <2>3
<1> QED BY <1>3, <1>4

\* The list goes with the table in every step.
LEMMA RecentStep ==
    RendezvousInv /\ RecentInv /\ [Next]_vars => RecentInv'
<1> DEFINE Good(q, present) == /\ q \in Seq(Sids) /\ Once(q) /\ Listed(q) = present
                               /\ IsFiniteSet(present)
                               /\ Cardinality(present) <= MaxSessions
           Routes == /\ route \in [Conns -> Sids \cup {None, "closed"}]
                     /\ leaving \in [Conns -> Sids \cup {None}]
<1> SUFFICES ASSUME RendezvousInv, RecentInv, [Next]_vars
             PROVE  Good(recent, Present)' /\ Routes'
  BY DEF RecentInv, Once, Listed
<1>1. /\ recent \in Seq(Sids) /\ Once(recent) /\ Listed(recent) = Present
      /\ IsFiniteSet(Present) /\ Cardinality(Present) <= MaxSessions
      /\ Routes
  BY DEF RecentInv, Once, Listed
<1>2. table \in [Sids -> Sessions]
  BY DEF RendezvousInv, TableTypes
<1>3. (Present)' = {r \in Sids : table'[r] # NoSession}
  BY DEF Present
<1>4. ASSUME NEW c \in Conns, NEW s \in Sids, Register(c, s)
      PROVE  Good(recent, Present)' /\ Routes'
  <2> DEFINE k == AfterEviction(s)
             here == {r \in Sids : k.table[r] # NoSession}
  <2>1. /\ k.recent \in Seq(Sids) /\ Once(k.recent) /\ Listed(k.recent) = here
        /\ IsFiniteSet(here) /\ Cardinality(here \cup {s}) <= MaxSessions
    BY PresentAfterEviction
  <2>2. recent' = Append(Without(k.recent, s), s)
    BY <1>4 DEF Register
  <2>3. /\ recent' \in Seq(Sids) /\ Once(recent') /\ Listed(recent') = here \cup {s}
    <3>1. /\ Without(k.recent, s) \in Seq(Sids) /\ Once(Without(k.recent, s))
          /\ Listed(Without(k.recent, s)) = here \ {s}
      BY <2>1, WithoutFacts
    <3> QED BY <2>2, <3>1, AppendFacts
  <2>4. \A r \in Sids \ {s} : table'[r] = k.table[r]
    <3>1. k.table \in [Sids -> Sessions]
      BY EvictionFacts DEF RendezvousInv
    <3> QED BY <1>4, <3>1 DEF Register
  <2>5. table'[s] # NoSession
    <3>1. CASE SeatOf(table[s], c) = "none"
      <4>1. table[s] # NoSession
        BY <3>1, NoSessionFacts DEF SeatOf
      <4>2. k.table[s] = table[s]
        BY EvictionFacts DEF RendezvousInv
      <4> QED BY <1>4, <3>1, <4>1, <4>2 DEF Register
    <3>2. CASE SeatOf(table[s], c) # "none"
      <4>1. regs[c] < MaxRegs
        BY <1>4 DEF Register
      <4>2. Taken(Seated(table[s], c))
        BY <1>2, <3>2, <4>1, SeatedFacts DEF Taken, RendezvousInv
      <4>3. Seated(table[s], c) \in Sessions
        BY <1>2, <3>2, <4>1, SeatedFacts DEF RendezvousInv
      <4>4. /\ k.table[s] = table[s] /\ k.table \in [Sids -> Sessions]
        BY EvictionFacts DEF RendezvousInv
      <4>5. table'[s] = IF BothFresh(Seated(table[s], c)) THEN Forwarded(Seated(table[s], c))
                                                       ELSE Seated(table[s], c)
        BY <1>4, <3>2, <4>4 DEF Register
      <4>6. Taken(table'[s])
        BY <4>2, <4>3, <4>5, ForwardedFacts DEF Taken
      <4> QED BY <4>6, NoSessionFacts DEF Taken
    <3> QED BY <3>1, <3>2
  <2>6. {r \in Sids : table'[r] # NoSession} = here \cup {s}
    BY <2>4, <2>5
  <2>7. IsFiniteSet(here \cup {s})
    <3> HIDE DEF here
    <3> QED BY <2>1, FS_AddElement
  <2>8. Routes'
    BY <1>1, <1>4 DEF Register
  <2> HIDE DEF here
  <2> QED BY <1>3, <2>1, <2>3, <2>6, <2>7, <2>8
<1>5. ASSUME UNCHANGED table, recent' = recent PROVE Good(recent, Present)'
  BY <1>1, <1>5 DEF Present
<1>6. ASSUME NEW c \in Conns, Send(c) PROVE Good(recent, Present)' /\ Routes'
  BY <1>1, <1>5, <1>6 DEF Send
<1>7. ASSUME NEW c \in Conns, RemoveRoute(c) PROVE Good(recent, Present)' /\ Routes'
  <2>1. Routes'
    BY <1>1, <1>7 DEF RemoveRoute, Idle
  <2> QED BY <1>5, <1>7, <2>1 DEF RemoveRoute
<1>8. ASSUME NEW c \in Conns, ForwardToOther(c) PROVE Good(recent, Present)' /\ Routes'
  <2> DEFINE s == route[c]
  <2>1. s \in Present /\ recent' = Append(Without(recent, s), s) /\ UNCHANGED <<table, route, leaving>>
    BY <1>8 DEF ForwardToOther
  <2>2. /\ Without(recent, s) \in Seq(Sids) /\ Once(Without(recent, s))
        /\ Listed(Without(recent, s)) = Present \ {s}
    BY <1>1, WithoutFacts
  <2>3. s \in Sids
    BY <2>1 DEF Present
  <2> HIDE DEF s
  <2>4. /\ recent' \in Seq(Sids) /\ Once(recent') /\ Listed(recent') = Present
    <3>1. s \notin Listed(Without(recent, s)) /\ (Present \ {s}) \cup {s} = Present
      BY <2>1, <2>2
    <3> DEFINE q == Without(recent, s)
    <3> HIDE DEF q
    <3>2. q \in Seq(Sids) /\ Once(q) /\ s \notin Listed(q) /\ Listed(q) = Present \ {s}
      BY <2>2, <3>1 DEF q
    <3>3. recent' = Append(q, s)
      BY <2>1 DEF q
    <3>4. /\ Append(q, s) \in Seq(Sids) /\ Once(Append(q, s))
          /\ Listed(Append(q, s)) = Listed(q) \cup {s}
      BY <2>3, <3>2, AppendFacts
    <3> QED BY <3>1, <3>2, <3>3, <3>4
  <2>5. (Present)' = Present
    BY <2>1 DEF Present
  <2> QED BY <1>1, <2>1, <2>4, <2>5
<1>9. ASSUME NEW c \in Conns, RemoveSlot(c) PROVE Good(recent, Present)' /\ Routes'
  <2> DEFINE s == leaving[c]
             t == Vacated(table[s], c)
             empty == t.a = NoSlot /\ t.b = NoSlot
  <2>1. /\ s \in Sids
        /\ table' = [table EXCEPT ![s] = IF empty THEN NoSession ELSE t]
        /\ recent' = IF empty THEN Without(recent, s) ELSE recent
    BY <1>1, <1>9 DEF RemoveSlot
  <2>2. Routes'
    BY <1>1, <1>9 DEF RemoveSlot
  <2>3. CASE empty
    <3>1. (Present)' = Present \ {s}
      BY <1>2, <2>1, <2>3 DEF Present
    <3>2. /\ Without(recent, s) \in Seq(Sids) /\ Once(Without(recent, s))
          /\ Listed(Without(recent, s)) = Present \ {s}
      BY <1>1, WithoutFacts
    <3>3. IsFiniteSet(Present \ {s}) /\ Cardinality(Present \ {s}) <= MaxSessions
      <4>1. /\ IsFiniteSet(Present \ {s}) /\ Cardinality(Present \ {s}) <= Cardinality(Present)
            /\ Cardinality(Present \ {s}) \in Nat /\ Cardinality(Present) \in Nat
        BY <1>1, FS_Subset, FS_CardinalityType
      <4> QED BY <1>1, <4>1, RendezvousAssumption
    <3>4. recent' = Without(recent, s)
      BY <2>1, <2>3
    <3> HIDE DEF s, t, empty
    <3> QED BY <2>2, <3>1, <3>2, <3>3, <3>4
  <2>4. CASE ~empty
    <3>1. t # NoSession
      BY <2>4, NoSessionFacts
    <3>2. table[s] # NoSession
      BY <2>4, NoSessionFacts, RendezvousAssumption DEF Vacated
    <3>3. (Present)' = Present /\ recent' = recent
      BY <1>2, <2>1, <2>4, <3>1, <3>2 DEF Present
    <3> QED BY <1>1, <2>2, <3>3
  <2> QED BY <2>3, <2>4
<1>10. CASE UNCHANGED vars
  BY <1>1, <1>5, <1>10 DEF vars
<1> QED BY <1>4, <1>6, <1>7, <1>8, <1>9, <1>10 DEF Next

LEMMA RecentInit == Init => RecentInv
<1> SUFFICES ASSUME Init PROVE RecentInv
  OBVIOUS
<1>1. recent = <<>> /\ Len(recent) = 0 /\ Present = {}
  BY DEF Init, Present
<1>2. IsFiniteSet({}) /\ Cardinality({}) = 0
  BY FS_EmptySet
<1>3. recent \in Seq(Sids)
  BY <1>1
<1>4. {recent[i] : i \in 1 .. Len(recent)} = {}
  BY <1>1
<1>5. /\ route \in [Conns -> Sids \cup {None, "closed"}]
      /\ leaving \in [Conns -> Sids \cup {None}]
  BY DEF Init
<1> QED BY <1>1, <1>2, <1>3, <1>4, <1>5, RendezvousAssumption DEF RecentInv

\* The session table never outgrows MAX_RENDEZVOUS_SESSIONS and the list by
\* which the oldest session is found names each of its sessions once.
THEOREM RendezvousTypeCorrect == Spec => []TypeOK
<1>1. RendezvousInv /\ OrderInv /\ RecentInv => TypeOK
  <2> SUFFICES ASSUME RendezvousInv, OrderInv, RecentInv PROVE TypeOK
    OBVIOUS
  <2>1. table \in [Sids -> Sessions] /\ regs \in [Conns -> 0 .. MaxRegs]
    BY DEF RendezvousInv, TableTypes
  <2>2. \A c \in Conns : \A i \in 1 .. Len(outbox[c]) : outbox[c][i] \in Messages
    BY DEF OrderInv
  <2>3. got \in [Conns -> [sid : Sids, from : Conns, reg : 1 .. MaxRegs] \cup {NoCands}]
    <3>1. \A c \in Conns : got[c] \in [sid : Sids, from : Conns, reg : 1 .. MaxRegs] \cup {NoCands}
      BY DEF OrderInv, ReceivedIn
    <3>2. got = [c \in Conns |-> got[c]]
      BY DEF OrderInv
    <3> QED BY <3>1, <3>2
  <2> QED BY <2>1, <2>2, <2>3 DEF TypeOK, RecentInv, Sessions, Messages
<1>2. RendezvousInv /\ OrderInv /\ RecentInv /\ [Next]_vars
         => (RendezvousInv /\ OrderInv /\ RecentInv)'
  BY RendezvousStep, OrderStep, RecentStep
<1> QED BY RendezvousInit, OrderInit, RecentInit, <1>1, <1>2, PTL DEF Spec
=============================================================================
