------------------------ MODULE RelaySessionsProofs ------------------------
(***************************************************************************)
(* Proofs about RelaySessions for every set of connections, ids, keys and  *)
(* addresses, and for every limit and timeout.                             *)
(***************************************************************************)
EXTENDS RelaySessions, FiniteSetTheorems, TLAPS

\* The inductive invariant: what the runs check, in one piece.  NoGhostEntry
\* rests on the types (None is no id), PreauthExact on the finiteness of Conns.
SessionsInv ==
    /\ TypeOK
    /\ SessionsExact
    /\ NoGhostEntry
    /\ PreauthExact

-----------------------------------------------------------------------------
\* A heartbeat moves no entry and changes neither its key nor its channel.
LEMMA HeartbeatKeeps ==
    ASSUME TypeOK, NEW c \in Conns, Heartbeat(deviceOf[c])
    PROVE  /\ devices' \in [Ids -> Entries \cup {NoEntry}]
           /\ \A d \in Ids : /\ Online(d)' => Online(d)
                              /\ devices'[d].key = devices[d].key
                              /\ devices'[d].ctrl = devices[d].ctrl
<1> DEFINE d0 == deviceOf[c]
<1>1. CASE d0 # None /\ Online(d0)
  <2>1. d0 \in Ids /\ devices[d0] \in Entries
    BY <1>1 DEF TypeOK, Online
  <2>2. devices' = [devices EXCEPT ![d0] = [devices[d0] EXCEPT !.seen = 0]]
    BY <1>1 DEF Heartbeat
  <2> DEFINE e == [devices[d0] EXCEPT !.seen = 0]
  <2>3. e \in Entries /\ e.key = devices[d0].key /\ e.ctrl = devices[d0].ctrl
    BY <2>1, SessionsAssumption DEF Entries, Ages
  <2> HIDE DEF e
  <2>4. devices'[d0] = e /\ \A d \in Ids \ {d0} : devices'[d] = devices[d]
    <3> HIDE DEF d0
    <3> QED
      BY <2>1, <2>2 DEF TypeOK, e
  <2>5. devices' \in [Ids -> Entries \cup {NoEntry}]
    <3> HIDE DEF d0
    <3> QED
      BY <2>1, <2>2, <2>3 DEF TypeOK, e
  <2> QED
    BY <1>1, <2>3, <2>4, <2>5 DEF Online
<1>2. CASE ~(d0 # None /\ Online(d0))
  BY <1>2 DEF Heartbeat, TypeOK, Online
<1> QED
  BY <1>1, <1>2

\* Types.
LEMMA TypeStep == TypeOK /\ [Next]_vars => TypeOK'
<1> SUFFICES ASSUME TypeOK, [Next]_vars PROVE TypeOK'
  OBVIOUS
<1> USE SessionsAssumption DEF TypeOK, Serving, Entries, NoEntry, Ages, Online
<1>1. ASSUME NEW c \in Conns, Accept(c) PROVE TypeOK'
  BY <1>1 DEF Accept, Goto, clocks
<1>2. ASSUME NEW c \in Conns, FirstFrame(c) PROVE TypeOK'
  BY <1>2 DEF FirstFrame, Goto, tables, clocks
<1>3. ASSUME NEW c \in Conns, Release(c) PROVE TypeOK'
  BY <1>3 DEF Release, Goto, clocks
<1>4. ASSUME NEW c \in Conns, CheckSessionLimit(c) PROVE TypeOK'
  BY <1>4 DEF CheckSessionLimit, Goto, tables, clocks
<1>5. ASSUME NEW c \in Conns, InsertSession(c) PROVE TypeOK'
  BY <1>5 DEF InsertSession, Goto, clocks
<1>6. ASSUME NEW c \in Conns, ReadProof(c) PROVE TypeOK'
  BY <1>6 DEF ReadProof, Goto, tables, clocks
<1>7. ASSUME NEW c \in Conns, ProofMissing(c) PROVE TypeOK'
  BY <1>7 DEF ProofMissing, Goto, tables, clocks
<1>8. ASSUME NEW c \in Conns, VerifyProof(c) PROVE TypeOK'
  BY <1>8 DEF VerifyProof, Goto, tables, clocks
<1>9. ASSUME NEW c \in Conns, Register(c) PROVE TypeOK'
  <2>1. CASE SameKey(c)
    <3>1. [key |-> peer[c].key, ctrl |-> c, seen |-> 0] \in Entries
      OBVIOUS
    <3>2. devices' \in [Ids -> Entries \cup {NoEntry}]
      <4> DEFINE e == [key |-> peer[c].key, ctrl |-> c, seen |-> 0]
      <4>1. devices' = [devices EXCEPT ![peer[c].id] = e]
        BY <1>9, <2>1 DEF Register
      <4>2. e \in Entries
        BY <3>1
      <4>3. devices \in [Ids -> Entries \cup {NoEntry}]
        OBVIOUS
      <4> HIDE DEF Entries, NoEntry, e, TypeOK
      <4> QED
        BY <4>1, <4>2, <4>3
    <3>3. deviceOf' \in [Conns -> Ids \cup {None}]
      BY <1>9, <2>1 DEF Register
    <3>4. cpc' \in [Conns -> Serving \cup {"new", "dropped", "closed"}]
      BY <1>9, <2>1 DEF Register, Goto
    <3>5. UNCHANGED <<peer, link, sessions, preauth, idle, checked>>
      BY <1>9 DEF Register, clocks
    <3> HIDE DEF Entries, NoEntry, Serving
    <3> QED
      BY <3>2, <3>3, <3>4, <3>5
  <2>2. CASE ~SameKey(c)
    BY <1>9, <2>2 DEF Register, Goto, clocks
  <2> QED
    BY <2>1, <2>2
<1>10. ASSUME NEW c \in Conns, RejectLogin(c) PROVE TypeOK'
  BY <1>10 DEF RejectLogin, Goto, clocks
<1>11. ASSUME NEW c \in Conns, SessionTick(c) PROVE TypeOK'
  BY <1>11, HeartbeatKeeps DEF SessionTick, Goto
<1>12. ASSUME NEW c \in Conns, LeaveMap(c) PROVE TypeOK'
  BY <1>12 DEF LeaveMap, Goto, clocks
<1>13. ASSUME NEW c \in Conns, Unregister(c) PROVE TypeOK'
  BY <1>13 DEF Unregister, Goto, clocks
<1>14. ASSUME NEW c \in Conns, DataEnds(c) PROVE TypeOK'
  BY <1>14 DEF DataEnds, Goto, tables, clocks
<1>15. ASSUME NEW c \in Conns, SessionEnds(c) PROVE TypeOK'
  BY <1>15 DEF SessionEnds, Goto, tables, clocks
<1>16. ASSUME NEW c \in Conns, LinkChanges(c) PROVE TypeOK'
  BY <1>16 DEF LinkChanges, tables, clocks
<1>17. CASE Sweep
  BY <1>17 DEF Sweep, Online, clocks
<1>18. CASE Tick
  <2>1. \A age \in Ages : Older(age) \in Ages
    BY DEF Older
  <2>2. \A d \in Ids : Online(d) =>
           [devices[d] EXCEPT !.seen = Older(devices[d].seen)] \in Entries
    BY <2>1
  <2>3. devices' \in [Ids -> Entries \cup {NoEntry}]
    <3> HIDE DEF Entries, NoEntry, Online
    <3> QED
      BY <1>18, <2>2 DEF Tick
  <2>4. idle' \in [Conns -> Ages]
    BY <1>18, <2>1 DEF Tick
  <2> QED
    BY <1>18, <2>3, <2>4 DEF Tick
<1>19. CASE UNCHANGED vars
  BY <1>19 DEF vars
<1> QED
  BY <1>1, <1>2, <1>3, <1>4, <1>5, <1>6, <1>7, <1>8, <1>9, <1>10,
       <1>11, <1>12, <1>13, <1>14, <1>15, <1>16, <1>17, <1>18, <1>19 DEF Next, Serve

\* Every step moves a connection in and out of the map and of InMap alike.
LEMMA SessionsStep == TypeOK /\ SessionsExact /\ [Next]_vars => SessionsExact'
<1> SUFFICES ASSUME TypeOK, SessionsExact, [Next]_vars PROVE SessionsExact'
  OBVIOUS
<1> USE SessionsAssumption DEF TypeOK, SessionsExact, InMap
<1>1. ASSUME NEW c \in Conns, Accept(c) PROVE SessionsExact'
  BY <1>1 DEF Accept, Goto, clocks
<1>2. ASSUME NEW c \in Conns, FirstFrame(c) PROVE SessionsExact'
  BY <1>2 DEF FirstFrame, Goto, tables, clocks
<1>3. ASSUME NEW c \in Conns, Release(c) PROVE SessionsExact'
  BY <1>3 DEF Release, Goto, clocks
<1>4. ASSUME NEW c \in Conns, CheckSessionLimit(c) PROVE SessionsExact'
  BY <1>4 DEF CheckSessionLimit, Goto, tables, clocks
<1>5. ASSUME NEW c \in Conns, InsertSession(c) PROVE SessionsExact'
  BY <1>5 DEF InsertSession, Goto, clocks
<1>6. ASSUME NEW c \in Conns, ReadProof(c) PROVE SessionsExact'
  BY <1>6 DEF ReadProof, Goto, tables, clocks
<1>7. ASSUME NEW c \in Conns, ProofMissing(c) PROVE SessionsExact'
  BY <1>7 DEF ProofMissing, Goto, tables, clocks
<1>8. ASSUME NEW c \in Conns, VerifyProof(c) PROVE SessionsExact'
  BY <1>8 DEF VerifyProof, Goto, tables, clocks
<1>9. ASSUME NEW c \in Conns, Register(c) PROVE SessionsExact'
  BY <1>9 DEF Register, Goto, clocks
<1>10. ASSUME NEW c \in Conns, RejectLogin(c) PROVE SessionsExact'
  BY <1>10 DEF RejectLogin, Goto, clocks
<1>11. ASSUME NEW c \in Conns, SessionTick(c) PROVE SessionsExact'
  BY <1>11 DEF SessionTick, Heartbeat, Goto
<1>12. ASSUME NEW c \in Conns, LeaveMap(c) PROVE SessionsExact'
  BY <1>12 DEF LeaveMap, Goto, clocks
<1>13. ASSUME NEW c \in Conns, Unregister(c) PROVE SessionsExact'
  BY <1>13 DEF Unregister, Goto, clocks
<1>14. ASSUME NEW c \in Conns, DataEnds(c) PROVE SessionsExact'
  BY <1>14 DEF DataEnds, Goto, tables, clocks
<1>15. ASSUME NEW c \in Conns, SessionEnds(c) PROVE SessionsExact'
  BY <1>15 DEF SessionEnds, Goto, tables, clocks
<1>16. ASSUME NEW c \in Conns, LinkChanges(c) PROVE SessionsExact'
  BY <1>16 DEF LinkChanges, tables, clocks
<1>17. CASE Sweep
  BY <1>17 DEF Sweep, Online, clocks
<1>18. CASE Tick
  BY <1>18 DEF Tick, Online, Older
<1>19. CASE UNCHANGED vars
  BY <1>19 DEF vars
<1> QED
  BY <1>1, <1>2, <1>3, <1>4, <1>5, <1>6, <1>7, <1>8, <1>9, <1>10,
       <1>11, <1>12, <1>13, <1>14, <1>15, <1>16, <1>17, <1>18, <1>19 DEF Next, Serve

\* The owner of an entry keeps it until its own unregister, or until another
\* session of the same key takes it over.
LEMMA GhostStep == TypeOK /\ NoGhostEntry /\ [Next]_vars => NoGhostEntry'
<1> SUFFICES ASSUME TypeOK, NoGhostEntry, [Next]_vars PROVE NoGhostEntry'
  OBVIOUS
<1> USE SessionsAssumption DEF TypeOK, NoGhostEntry, Online, Entries, NoEntry
<1>1. ASSUME NEW c \in Conns, Accept(c) PROVE NoGhostEntry'
  BY <1>1 DEF Accept, Goto, clocks
<1>2. ASSUME NEW c \in Conns, FirstFrame(c) PROVE NoGhostEntry'
  BY <1>2 DEF FirstFrame, Goto, tables, clocks
<1>3. ASSUME NEW c \in Conns, Release(c) PROVE NoGhostEntry'
  BY <1>3 DEF Release, Goto, clocks
<1>4. ASSUME NEW c \in Conns, CheckSessionLimit(c) PROVE NoGhostEntry'
  BY <1>4 DEF CheckSessionLimit, Goto, tables, clocks
<1>5. ASSUME NEW c \in Conns, InsertSession(c) PROVE NoGhostEntry'
  BY <1>5 DEF InsertSession, Goto, clocks
<1>6. ASSUME NEW c \in Conns, ReadProof(c) PROVE NoGhostEntry'
  BY <1>6 DEF ReadProof, Goto, tables, clocks
<1>7. ASSUME NEW c \in Conns, ProofMissing(c) PROVE NoGhostEntry'
  BY <1>7 DEF ProofMissing, Goto, tables, clocks
<1>8. ASSUME NEW c \in Conns, VerifyProof(c) PROVE NoGhostEntry'
  BY <1>8 DEF VerifyProof, Goto, tables, clocks
<1>9. ASSUME NEW c \in Conns, Register(c) PROVE NoGhostEntry'
  BY <1>9 DEF Register, Goto, clocks
<1>10. ASSUME NEW c \in Conns, RejectLogin(c) PROVE NoGhostEntry'
  BY <1>10 DEF RejectLogin, Goto, clocks
<1>11. ASSUME NEW c \in Conns, SessionTick(c) PROVE NoGhostEntry'
  BY <1>11, HeartbeatKeeps DEF SessionTick, Goto
<1>12. ASSUME NEW c \in Conns, LeaveMap(c) PROVE NoGhostEntry'
  BY <1>12 DEF LeaveMap, Goto, clocks
<1>13. ASSUME NEW c \in Conns, Unregister(c) PROVE NoGhostEntry'
  BY <1>13 DEF Unregister, Goto, clocks
<1>14. ASSUME NEW c \in Conns, DataEnds(c) PROVE NoGhostEntry'
  BY <1>14 DEF DataEnds, Goto, tables, clocks
<1>15. ASSUME NEW c \in Conns, SessionEnds(c) PROVE NoGhostEntry'
  BY <1>15 DEF SessionEnds, Goto, tables, clocks
<1>16. ASSUME NEW c \in Conns, LinkChanges(c) PROVE NoGhostEntry'
  BY <1>16 DEF LinkChanges, tables, clocks
<1>17. CASE Sweep
  BY <1>17 DEF Sweep, Online, clocks
<1>18. CASE Tick
  BY <1>18 DEF Tick, Online, Older
<1>19. CASE UNCHANGED vars
  BY <1>19 DEF vars
<1> QED
  BY <1>1, <1>2, <1>3, <1>4, <1>5, <1>6, <1>7, <1>8, <1>9, <1>10,
       <1>11, <1>12, <1>13, <1>14, <1>15, <1>16, <1>17, <1>18, <1>19 DEF Next, Serve

\* Entering and leaving a counted set changes its size by one.
LEMMA SizeOfChange ==
    ASSUME NEW S, IsFiniteSet(S), NEW x
    PROVE  /\ Cardinality(S) \in Nat
           /\ x \notin S => Cardinality(S \cup {x}) = Cardinality(S) + 1
           /\ x \in S => /\ Cardinality(S \ {x}) = Cardinality(S) - 1
                       /\ Cardinality(S) # 0
  BY FS_AddElement, FS_RemoveElement, FS_EmptySet, FS_CardinalityType

\* A step that moves no connection in or out of Serving, and no counter.
LEMMA PreauthUnmoved ==
    ASSUME PreauthExact, peer' = peer, preauth' = preauth,
           \A x \in Conns : (cpc'[x] \in Serving) <=> (cpc[x] \in Serving)
    PROVE  PreauthExact'
<1>1. \A i \in Ips : {x \in Conns : peer'[x].ip = i /\ cpc'[x] \in Serving}
                     = {x \in Conns : peer[x].ip = i /\ cpc[x] \in Serving}
  OBVIOUS
<1> QED
  BY <1>1 DEF PreauthExact

\* The slots stay exact: Accept takes one, Release gives one back.
LEMMA PreauthStep == TypeOK /\ PreauthExact /\ [Next]_vars => PreauthExact'
<1> SUFFICES ASSUME TypeOK, PreauthExact, [Next]_vars PROVE PreauthExact'
  OBVIOUS
<1> USE SessionsAssumption DEF TypeOK
<1> DEFINE H(i) == {x \in Conns : peer[x].ip = i /\ cpc[x] \in Serving}
           K(i) == {x \in Conns : peer'[x].ip = i /\ cpc'[x] \in Serving}
<1>f. \A i \in Ips : IsFiniteSet(H(i))
  BY FS_Subset
<1>h. \A i \in Ips : preauth[i] = Cardinality(H(i)) /\ preauth[i] <= PreauthPerIp
  BY DEF PreauthExact
<1>1. ASSUME NEW c \in Conns, Accept(c) PROVE PreauthExact'
  <2> DEFINE ip == peer[c].ip
  <2>a. CASE preauth[ip] >= PreauthPerIp
    BY <1>1, <2>a, PreauthUnmoved DEF Accept, Goto, Serving
  <2>b. CASE ~(preauth[ip] >= PreauthPerIp)
    <3>1. c \notin H(ip) /\ ip \in Ips
      BY <1>1, <2>b DEF Accept, Serving
    <3>2. K(ip) = H(ip) \cup {c}
      BY <1>1, <2>b DEF Accept, Goto, Serving
    <3>3. \A i \in Ips : i # ip => K(i) = H(i)
      BY <1>1, <2>b DEF Accept, Goto, Serving
    <3>4. /\ Cardinality(H(ip)) \in Nat
          /\ Cardinality(H(ip) \cup {c}) = Cardinality(H(ip)) + 1
      BY <1>f, <3>1, SizeOfChange
    <3>5. preauth[ip] = Cardinality(H(ip)) /\ preauth[ip] <= PreauthPerIp
      BY <1>h, <3>1
    <3>6. /\ preauth'[ip] = Cardinality(H(ip) \cup {c})
          /\ preauth'[ip] <= PreauthPerIp
      <4> HIDE DEF H
      <4> QED
        BY <1>1, <2>b, <3>1, <3>4, <3>5 DEF Accept
    <3>7. \A i \in Ips : i # ip => preauth'[i] = preauth[i]
      BY <1>1, <2>b DEF Accept
    <3>8. \A i \in Ips : preauth'[i] = Cardinality(K(i)) /\ preauth'[i] <= PreauthPerIp
      <4> HIDE DEF H, K
      <4> QED
        BY <1>h, <3>2, <3>3, <3>6, <3>7
    <3> QED
      BY <3>8 DEF PreauthExact
  <2> QED
    BY <2>a, <2>b
<1>2. ASSUME NEW c \in Conns, FirstFrame(c) PROVE PreauthExact'
  BY <1>2, PreauthUnmoved DEF FirstFrame, Goto, tables, clocks, Serving
<1>3. ASSUME NEW c \in Conns, Release(c) PROVE PreauthExact'
  <2> DEFINE ip == peer[c].ip
  <2>1. c \in H(ip) /\ ip \in Ips
    BY <1>3 DEF Release, Serving
  <2>2. K(ip) = H(ip) \ {c}
    BY <1>3 DEF Release, Goto, Serving
  <2>3. \A i \in Ips : i # ip => K(i) = H(i)
    BY <1>3 DEF Release, Goto, Serving
  <2>4. /\ Cardinality(H(ip)) \in Nat
        /\ Cardinality(H(ip) \ {c}) = Cardinality(H(ip)) - 1
        /\ Cardinality(H(ip)) # 0
    BY <1>f, <2>1, SizeOfChange
  <2>5. preauth[ip] = Cardinality(H(ip)) /\ preauth[ip] <= PreauthPerIp
    BY <1>h, <2>1
  <2>6. /\ preauth'[ip] = Cardinality(H(ip) \ {c})
        /\ preauth'[ip] <= PreauthPerIp
    <3> HIDE DEF H
    <3> QED
      BY <1>3, <2>1, <2>4, <2>5 DEF Release
  <2>7. \A i \in Ips : i # ip => preauth'[i] = preauth[i]
    BY <1>3 DEF Release
  <2>8. \A i \in Ips : preauth'[i] = Cardinality(K(i)) /\ preauth'[i] <= PreauthPerIp
    <3> HIDE DEF H, K
    <3> QED
      BY <1>h, <2>2, <2>3, <2>6, <2>7
  <2> QED
    BY <2>8 DEF PreauthExact
<1>4. ASSUME NEW c \in Conns, CheckSessionLimit(c) PROVE PreauthExact'
  BY <1>4, PreauthUnmoved DEF CheckSessionLimit, Goto, tables, clocks, Serving
<1>5. ASSUME NEW c \in Conns, InsertSession(c) PROVE PreauthExact'
  BY <1>5, PreauthUnmoved DEF InsertSession, Goto, clocks, Serving
<1>6. ASSUME NEW c \in Conns, ReadProof(c) PROVE PreauthExact'
  BY <1>6, PreauthUnmoved DEF ReadProof, Goto, tables, clocks, Serving
<1>7. ASSUME NEW c \in Conns, ProofMissing(c) PROVE PreauthExact'
  BY <1>7, PreauthUnmoved DEF ProofMissing, Goto, tables, clocks, Serving
<1>8. ASSUME NEW c \in Conns, VerifyProof(c) PROVE PreauthExact'
  BY <1>8, PreauthUnmoved DEF VerifyProof, Goto, tables, clocks, Serving
<1>9. ASSUME NEW c \in Conns, Register(c) PROVE PreauthExact'
  BY <1>9, PreauthUnmoved DEF Register, Goto, clocks, Serving
<1>10. ASSUME NEW c \in Conns, RejectLogin(c) PROVE PreauthExact'
  BY <1>10, PreauthUnmoved DEF RejectLogin, Goto, clocks, Serving
<1>11. ASSUME NEW c \in Conns, SessionTick(c) PROVE PreauthExact'
  BY <1>11, PreauthUnmoved DEF SessionTick, Heartbeat, Goto, Serving
<1>12. ASSUME NEW c \in Conns, LeaveMap(c) PROVE PreauthExact'
  BY <1>12, PreauthUnmoved DEF LeaveMap, Goto, clocks, Serving
<1>13. ASSUME NEW c \in Conns, Unregister(c) PROVE PreauthExact'
  BY <1>13, PreauthUnmoved DEF Unregister, Goto, clocks, Serving
<1>14. ASSUME NEW c \in Conns, DataEnds(c) PROVE PreauthExact'
  BY <1>14, PreauthUnmoved DEF DataEnds, Goto, tables, clocks, Serving
<1>15. ASSUME NEW c \in Conns, SessionEnds(c) PROVE PreauthExact'
  BY <1>15, PreauthUnmoved DEF SessionEnds, Goto, tables, clocks, Serving
<1>16. ASSUME NEW c \in Conns, LinkChanges(c) PROVE PreauthExact'
  BY <1>16, PreauthUnmoved DEF LinkChanges, tables, clocks, Serving
<1>17. CASE Sweep
  BY <1>17, PreauthUnmoved DEF Sweep, Online, clocks, Serving
<1>18. CASE Tick
  BY <1>18, PreauthUnmoved DEF Tick, Online, Older, Serving
<1>19. CASE UNCHANGED vars
  BY <1>19, PreauthUnmoved DEF vars, Serving
<1> QED
  BY <1>1, <1>2, <1>3, <1>4, <1>5, <1>6, <1>7, <1>8, <1>9, <1>10,
       <1>11, <1>12, <1>13, <1>14, <1>15, <1>16, <1>17, <1>18, <1>19 DEF Next, Serve

-----------------------------------------------------------------------------
LEMMA SessionsInit == Init => SessionsInv
<1> SUFFICES ASSUME Init PROVE SessionsInv
  OBVIOUS
<1> USE SessionsAssumption DEF Init
<1>1. TypeOK
  BY DEF TypeOK, Serving, Ages
<1>2. SessionsExact /\ NoGhostEntry
  BY DEF SessionsExact, InMap, NoGhostEntry, Online
<1>3. \A i \in Ips : {c \in Conns : peer[c].ip = i /\ cpc[c] \in Serving} = {}
  BY DEF Serving
<1>4. PreauthExact
  BY <1>3, FS_EmptySet DEF PreauthExact
<1> QED
  BY <1>1, <1>2, <1>4 DEF SessionsInv

\* The server's bookkeeping of control connections, for any number of clients:
\* pre-auth slots, session map and online table agree with the tasks.
THEOREM SessionsInvariant == Spec => []SessionsInv
<1>1. SessionsInv /\ [Next]_vars => SessionsInv'
  BY TypeStep, SessionsStep, GhostStep, PreauthStep DEF SessionsInv
<1> QED
  BY SessionsInit, <1>1, PTL DEF Spec

\* Every slot of PreAuthLimiter is given back exactly once.
THEOREM PreauthAlwaysExact == Spec => []PreauthExact
<1>1. SessionsInv => PreauthExact
  BY DEF SessionsInv
<1> QED
  BY SessionsInvariant, <1>1, PTL

\* No session outlives its task in the map, and no entry its session in the
\* online table.
THEOREM NothingLeftBehind == Spec => []TablesExact
<1>1. SessionsInv => TablesExact
  BY DEF SessionsInv, TablesExact
<1> QED
  BY SessionsInvariant, <1>1, PTL

\* The connections, the session map and the online table keep their types.
THEOREM SessionsTypeCorrect == Spec => []TypeOK
<1>1. SessionsInv => TypeOK
  BY DEF SessionsInv
<1> QED
  BY SessionsInvariant, <1>1, PTL

\* One step keeps the key of every entry it leaves in the table; only Register
\* writes keys, and it looks again under the write lock.
LEMMA KeyStep ==
    TypeOK /\ [Next]_vars =>
        \A d \in Ids : Online(d) /\ Online(d)' => devices'[d].key = devices[d].key
<1> DEFINE Kept == \A d \in Ids :
                      Online(d) /\ Online(d)' => devices'[d].key = devices[d].key
<1> SUFFICES ASSUME TypeOK, [Next]_vars PROVE Kept
  OBVIOUS
<1> USE SessionsAssumption DEF TypeOK, Online, Entries, NoEntry
<1>1. ASSUME NEW c \in Conns, Accept(c) PROVE Kept
  BY <1>1 DEF Accept, Goto, clocks
<1>2. ASSUME NEW c \in Conns, FirstFrame(c) PROVE Kept
  BY <1>2 DEF FirstFrame, Goto, tables, clocks
<1>3. ASSUME NEW c \in Conns, Release(c) PROVE Kept
  BY <1>3 DEF Release, Goto, clocks
<1>4. ASSUME NEW c \in Conns, CheckSessionLimit(c) PROVE Kept
  BY <1>4 DEF CheckSessionLimit, Goto, tables, clocks
<1>5. ASSUME NEW c \in Conns, InsertSession(c) PROVE Kept
  BY <1>5 DEF InsertSession, Goto, clocks
<1>6. ASSUME NEW c \in Conns, ReadProof(c) PROVE Kept
  BY <1>6 DEF ReadProof, Goto, tables, clocks
<1>7. ASSUME NEW c \in Conns, ProofMissing(c) PROVE Kept
  BY <1>7 DEF ProofMissing, Goto, tables, clocks
<1>8. ASSUME NEW c \in Conns, VerifyProof(c) PROVE Kept
  BY <1>8 DEF VerifyProof, Goto, tables, clocks
<1>9. ASSUME NEW c \in Conns, Register(c) PROVE Kept
  BY <1>9 DEF Register, Goto, clocks, SameKey
<1>10. ASSUME NEW c \in Conns, RejectLogin(c) PROVE Kept
  BY <1>10 DEF RejectLogin, Goto, clocks
<1>11. ASSUME NEW c \in Conns, SessionTick(c) PROVE Kept
  BY <1>11, HeartbeatKeeps DEF SessionTick, Goto
<1>12. ASSUME NEW c \in Conns, LeaveMap(c) PROVE Kept
  BY <1>12 DEF LeaveMap, Goto, clocks
<1>13. ASSUME NEW c \in Conns, Unregister(c) PROVE Kept
  BY <1>13 DEF Unregister, Goto, clocks
<1>14. ASSUME NEW c \in Conns, DataEnds(c) PROVE Kept
  BY <1>14 DEF DataEnds, Goto, tables, clocks
<1>15. ASSUME NEW c \in Conns, SessionEnds(c) PROVE Kept
  BY <1>15 DEF SessionEnds, Goto, tables, clocks
<1>16. ASSUME NEW c \in Conns, LinkChanges(c) PROVE Kept
  BY <1>16 DEF LinkChanges, tables, clocks
<1>17. CASE Sweep
  BY <1>17 DEF Sweep, Online, clocks
<1>18. CASE Tick
  BY <1>18 DEF Tick, Online, Older
<1>19. CASE UNCHANGED vars
  BY <1>19 DEF vars
<1> QED
  BY <1>1, <1>2, <1>3, <1>4, <1>5, <1>6, <1>7, <1>8, <1>9, <1>10,
       <1>11, <1>12, <1>13, <1>14, <1>15, <1>16, <1>17, <1>18, <1>19 DEF Next, Serve

\* ID-004: the key of an id in the table is never replaced.
THEOREM KeysAreKept == Spec => KeyNeverReplaced
<1>1. SessionsInv => TypeOK
  BY DEF SessionsInv
<1> QED
  BY SessionsInvariant, KeyStep, <1>1, PTL DEF Spec, KeyNeverReplaced
=============================================================================
