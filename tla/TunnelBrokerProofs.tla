------------------------- MODULE TunnelBrokerProofs -------------------------
(***************************************************************************)
(* Proofs about TunnelBroker for every set of connections, streams and     *)
(* devices and for every value of the two caps.                            *)
(***************************************************************************)
EXTENDS TunnelBroker, FiniteSetTheorems, TLAPS

\* The pair a handler holds came from its own entry, and stays with it.
PairKept ==
    \A c \in Conns :
       /\ pair[c] # None =>
             /\ hpc[c] \in {"removed", "uncounted", "answering", "piping", "done"}
             /\ strm[pair[c]].conn = c
             /\ strm[pair[c]].fate \in {"piped", "closed"}
       /\ hpc[c] \in {"answering", "piping"} => pair[c] # None
       /\ pair[c] # None /\ hpc[c] = "done" => strm[pair[c]].fate = "closed"

\* A stream in the table implies an entry, and an accepted or arriving stream
\* has named a conn_id.
SlotKept ==
    /\ \A c \in Conns : slot[c] # None => c \in tunnels
    /\ \A s \in Streams : strm[s].fate # "free" => strm[s].conn \in Conns
    /\ \A s \in Streams : strm[s].fate = "free" => strm[s].conn = None

\* The controller only ever reads what its handler wrote.
ResponseKept ==
    \A c \in Conns :
       /\ (ctl[c] = "idle") <=> (hpc[c] = "idle")
       /\ resp[c] = "ok" => hpc[c] \in {"piping", "done"} /\ pair[c] # None
       /\ ctl[c] = "open" => resp[c] = "ok"

\* How the table, the streams, the handlers and the controllers fit together.
BrokerShape ==
    /\ NoResidualEntry
    /\ StreamOwned
    /\ PairKept
    /\ SlotKept
    /\ ResponseKept

\* The inductive strengthening of the invariants the runs check.
BrokerInv ==
    /\ TypeOK
    /\ BrokerShape
    /\ CountersExact

-----------------------------------------------------------------------------
\* Both counters are sizes of sets of handlers, so a handler that is counted
\* may decrement them without leaving the naturals.
LEMMA CountedPositive ==
    ASSUME TypeOK, CountersExact, NEW c \in Conns
    PROVE  /\ hpc[c] \in CountedGlobal => pendingTunnels >= 1
           /\ hpc[c] \in CountedTarget => pendingByTarget[target[c]] >= 1
<1> DEFINE G == {x \in Conns : hpc[x] \in CountedGlobal}
           T == {x \in Conns : target[x] = target[c] /\ hpc[x] \in CountedTarget}
<1>1. IsFiniteSet(G) /\ IsFiniteSet(T)
  BY BrokerAssumption, FS_Subset
<1>2. Cardinality(G) \in Nat /\ Cardinality(T) \in Nat
  BY <1>1, FS_CardinalityType
<1>3. c \in G => Cardinality(G) # 0
  BY <1>1, FS_EmptySet
<1>4. c \in T => Cardinality(T) # 0
  BY <1>1, FS_EmptySet
<1>5. pendingTunnels = Cardinality(G)
  BY DEF CountersExact
<1>6. pendingByTarget[target[c]] = Cardinality(T)
  BY DEF CountersExact, TypeOK
<1> QED
  BY <1>2, <1>3, <1>4, <1>5, <1>6

\* Types are preserved; only the two decrements need the counters.
LEMMA TypeStep == BrokerInv /\ [Next]_vars => TypeOK'
<1> SUFFICES ASSUME BrokerInv, [Next]_vars PROVE TypeOK'
  OBVIOUS
<1> USE DEF BrokerInv, TypeOK, Goto, Refuse, Proceed, ClosePair, serverVars,
            clientVars, HandlerSteps, StreamFates, Pending
<1>u. CASE UNCHANGED vars
  BY <1>u DEF vars
<1>1. ASSUME NEW c \in Conns, OpenTunnel(c) PROVE TypeOK'
  BY <1>1 DEF OpenTunnel
<1>2. ASSUME NEW c \in Conns, ReadResponse(c) PROVE TypeOK'
  BY <1>2 DEF ReadResponse
<1>3. ASSUME NEW c \in Conns, GiveUp(c) PROVE TypeOK'
  BY <1>3 DEF GiveUp
<1>4. ASSUME NEW c \in Conns, CheckGlobalCap(c) PROVE TypeOK'
  BY <1>4 DEF CheckGlobalCap
<1>5. ASSUME NEW c \in Conns, CheckTargetCap(c) PROVE TypeOK'
  BY <1>5 DEF CheckTargetCap
<1>6. ASSUME NEW c \in Conns, LookupTarget(c) PROVE TypeOK'
  BY <1>6 DEF LookupTarget
<1>7. ASSUME NEW c \in Conns, SendTunnelRequest(c) PROVE TypeOK'
  BY <1>7 DEF SendTunnelRequest
<1>8. ASSUME NEW c \in Conns, InsertPending(c) PROVE TypeOK'
  BY <1>8 DEF InsertPending
<1>9. ASSUME NEW c \in Conns, CountPending(c) PROVE TypeOK'
  BY <1>9 DEF CountPending
<1>10. ASSUME NEW c \in Conns, CountTarget(c) PROVE TypeOK'
  BY <1>10 DEF CountTarget
<1>11. ASSUME NEW c \in Conns, DeadlinePasses(c) PROVE TypeOK'
  BY <1>11 DEF DeadlinePasses
<1>12. ASSUME NEW c \in Conns, PollPaired(c) PROVE TypeOK'
  BY <1>12 DEF PollPaired
<1>13. ASSUME NEW c \in Conns, PollExpired(c) PROVE TypeOK'
  BY <1>13 DEF PollExpired
<1>14. ASSUME NEW c \in Conns, CancelTunnel(c) PROVE TypeOK'
  BY <1>14 DEF CancelTunnel
<1>15. ASSUME NEW c \in Conns, UncountPending(c) PROVE TypeOK'
  <2>1. pendingTunnels >= 1
    BY <1>15, CountedPositive DEF UncountPending, CountedGlobal
  <2> QED
    BY <1>15, <2>1 DEF UncountPending
<1>16. ASSUME NEW c \in Conns, UncountTarget(c) PROVE TypeOK'
  <2>1. pendingByTarget[target[c]] >= 1
    BY <1>16, CountedPositive DEF UncountTarget, CountedTarget
  <2> QED
    BY <1>16, <2>1 DEF UncountTarget
<1>17. ASSUME NEW c \in Conns, Answer(c) PROVE TypeOK'
  BY <1>17, BrokerAssumption DEF Answer, BrokerShape, PairKept
<1>18. ASSUME NEW c \in Conns, PipeEnds(c) PROVE TypeOK'
  BY <1>18, BrokerAssumption DEF PipeEnds, BrokerShape, PairKept
<1>19. ASSUME NEW c \in Conns, BackConnectFails(c) PROVE TypeOK'
  BY <1>19 DEF BackConnectFails
<1>20. ASSUME NEW s \in Streams, PairTunnel(s) PROVE TypeOK'
  BY <1>20, SMTT(30) DEF PairTunnel, BrokerShape, SlotKept
<1>21. ASSUME NEW s \in Streams, NEW c \in Conns, BackConnect(s, c) PROVE TypeOK'
  BY <1>21 DEF BackConnect
<1>22. ASSUME NEW s \in Streams, NEW c \in Conns, RepeatHeader(s, c) PROVE TypeOK'
  BY <1>22 DEF RepeatHeader
<1>23. ASSUME NEW d \in Devices, DeviceComesOrGoes(d) PROVE TypeOK'
  BY <1>23 DEF DeviceComesOrGoes
<1> QED
  BY <1>u, <1>1, <1>2, <1>3, <1>4, <1>5, <1>6, <1>7, <1>8, <1>9, <1>10,
     <1>11, <1>12, <1>13, <1>14, <1>15, <1>16, <1>17, <1>18, <1>19, <1>20,
     <1>21, <1>22, <1>23
     DEF Next, Controller, Handler

\* Every action keeps streams, entries, pairs and answers in step.
LEMMA ShapeStep == BrokerInv /\ [Next]_vars => BrokerShape'
<1> SUFFICES ASSUME TypeOK, BrokerShape, [Next]_vars PROVE BrokerShape'
  BY DEF BrokerInv
<1> USE BrokerAssumption
    DEF TypeOK, BrokerShape, NoResidualEntry, StreamOwned, PairKept, SlotKept,
        ResponseKept, Goto, Refuse, Proceed, ClosePair, serverVars,
        clientVars, HandlerSteps, StreamFates, Pending
<1>u. CASE UNCHANGED vars
  BY <1>u DEF vars
<1>1. ASSUME NEW c \in Conns, OpenTunnel(c) PROVE BrokerShape'
  BY <1>1 DEF OpenTunnel
<1>2. ASSUME NEW c \in Conns, ReadResponse(c) PROVE BrokerShape'
  BY <1>2 DEF ReadResponse
<1>3. ASSUME NEW c \in Conns, GiveUp(c) PROVE BrokerShape'
  BY <1>3 DEF GiveUp
<1>4. ASSUME NEW c \in Conns, CheckGlobalCap(c) PROVE BrokerShape'
  BY <1>4 DEF CheckGlobalCap
<1>5. ASSUME NEW c \in Conns, CheckTargetCap(c) PROVE BrokerShape'
  BY <1>5 DEF CheckTargetCap
<1>6. ASSUME NEW c \in Conns, LookupTarget(c) PROVE BrokerShape'
  BY <1>6 DEF LookupTarget
<1>7. ASSUME NEW c \in Conns, SendTunnelRequest(c) PROVE BrokerShape'
  BY <1>7 DEF SendTunnelRequest
<1>8. ASSUME NEW c \in Conns, InsertPending(c) PROVE BrokerShape'
  <2>1. NoResidualEntry'
    BY <1>8, SMTT(20) DEF InsertPending
  <2>2. StreamOwned'
    BY <1>8, SMTT(20) DEF InsertPending
  <2>3. PairKept'
    BY <1>8, SMTT(20) DEF InsertPending
  <2>4. SlotKept'
    BY <1>8, SMTT(20) DEF InsertPending
  <2>5. ResponseKept'
    BY <1>8, SMTT(20) DEF InsertPending
  <2> QED
    BY <2>1, <2>2, <2>3, <2>4, <2>5
<1>9. ASSUME NEW c \in Conns, CountPending(c) PROVE BrokerShape'
  BY <1>9 DEF CountPending
<1>10. ASSUME NEW c \in Conns, CountTarget(c) PROVE BrokerShape'
  BY <1>10 DEF CountTarget
<1>11. ASSUME NEW c \in Conns, DeadlinePasses(c) PROVE BrokerShape'
  BY <1>11 DEF DeadlinePasses
<1>12. ASSUME NEW c \in Conns, PollPaired(c) PROVE BrokerShape'
  <2>1. NoResidualEntry'
    BY <1>12, SMTT(20) DEF PollPaired
  <2>2. StreamOwned'
    BY <1>12, SMTT(20) DEF PollPaired
  <2>3. PairKept'
    BY <1>12, SMTT(20) DEF PollPaired
  <2>4. SlotKept'
    BY <1>12, SMTT(20) DEF PollPaired
  <2>5. ResponseKept'
    BY <1>12, SMTT(20) DEF PollPaired
  <2> QED
    BY <2>1, <2>2, <2>3, <2>4, <2>5
<1>13. ASSUME NEW c \in Conns, PollExpired(c) PROVE BrokerShape'
  BY <1>13 DEF PollExpired
<1>14. ASSUME NEW c \in Conns, CancelTunnel(c) PROVE BrokerShape'
  <2>1. NoResidualEntry'
    BY <1>14, SMTT(20) DEF CancelTunnel
  <2>2. StreamOwned'
    BY <1>14, SMTT(20) DEF CancelTunnel
  <2>3. PairKept'
    BY <1>14, SMTT(20) DEF CancelTunnel
  <2>4. SlotKept'
    BY <1>14, SMTT(20) DEF CancelTunnel
  <2>5. ResponseKept'
    BY <1>14, SMTT(20) DEF CancelTunnel
  <2> QED
    BY <2>1, <2>2, <2>3, <2>4, <2>5
<1>15. ASSUME NEW c \in Conns, UncountPending(c) PROVE BrokerShape'
  BY <1>15 DEF UncountPending
<1>16. ASSUME NEW c \in Conns, UncountTarget(c) PROVE BrokerShape'
  BY <1>16 DEF UncountTarget
<1>17. ASSUME NEW c \in Conns, Answer(c) PROVE BrokerShape'
  <2>1. NoResidualEntry'
    BY <1>17, SMTT(20) DEF Answer
  <2>2. StreamOwned'
    BY <1>17, SMTT(20) DEF Answer
  <2>3. PairKept'
    BY <1>17, SMTT(20) DEF Answer
  <2>4. SlotKept'
    BY <1>17, SMTT(20) DEF Answer
  <2>5. ResponseKept'
    BY <1>17, SMTT(20) DEF Answer
  <2> QED
    BY <2>1, <2>2, <2>3, <2>4, <2>5
<1>18. ASSUME NEW c \in Conns, PipeEnds(c) PROVE BrokerShape'
  <2>1. NoResidualEntry'
    BY <1>18, SMTT(20) DEF PipeEnds
  <2>2. StreamOwned'
    BY <1>18, SMTT(20) DEF PipeEnds
  <2>3. PairKept'
    BY <1>18, SMTT(20) DEF PipeEnds
  <2>4. SlotKept'
    BY <1>18, SMTT(20) DEF PipeEnds
  <2>5. ResponseKept'
    BY <1>18, SMTT(20) DEF PipeEnds
  <2> QED
    BY <2>1, <2>2, <2>3, <2>4, <2>5
<1>19. ASSUME NEW c \in Conns, BackConnectFails(c) PROVE BrokerShape'
  BY <1>19 DEF BackConnectFails
<1>20. ASSUME NEW s \in Streams, PairTunnel(s) PROVE BrokerShape'
  <2>1. NoResidualEntry'
    BY <1>20, SMTT(20) DEF PairTunnel
  <2>2. StreamOwned'
    BY <1>20, SMTT(20) DEF PairTunnel
  <2>3. PairKept'
    BY <1>20, SMTT(20) DEF PairTunnel
  <2>4. SlotKept'
    BY <1>20, SMTT(20) DEF PairTunnel
  <2>5. ResponseKept'
    BY <1>20, SMTT(20) DEF PairTunnel
  <2> QED
    BY <2>1, <2>2, <2>3, <2>4, <2>5
<1>21. ASSUME NEW s \in Streams, NEW c \in Conns, BackConnect(s, c) PROVE BrokerShape'
  <2>1. NoResidualEntry'
    BY <1>21, SMTT(20) DEF BackConnect
  <2>2. StreamOwned'
    BY <1>21, SMTT(20) DEF BackConnect
  <2>3. PairKept'
    BY <1>21, SMTT(20) DEF BackConnect
  <2>4. SlotKept'
    BY <1>21, SMTT(20) DEF BackConnect
  <2>5. ResponseKept'
    BY <1>21, SMTT(20) DEF BackConnect
  <2> QED
    BY <2>1, <2>2, <2>3, <2>4, <2>5
<1>22. ASSUME NEW s \in Streams, NEW c \in Conns, RepeatHeader(s, c) PROVE BrokerShape'
  <2>1. NoResidualEntry'
    BY <1>22, SMTT(20) DEF RepeatHeader
  <2>2. StreamOwned'
    BY <1>22, SMTT(20) DEF RepeatHeader
  <2>3. PairKept'
    BY <1>22, SMTT(20) DEF RepeatHeader
  <2>4. SlotKept'
    BY <1>22, SMTT(20) DEF RepeatHeader
  <2>5. ResponseKept'
    BY <1>22, SMTT(20) DEF RepeatHeader
  <2> QED
    BY <2>1, <2>2, <2>3, <2>4, <2>5
<1>23. ASSUME NEW d \in Devices, DeviceComesOrGoes(d) PROVE BrokerShape'
  BY <1>23 DEF DeviceComesOrGoes
<1> QED
  BY <1>u, <1>1, <1>2, <1>3, <1>4, <1>5, <1>6, <1>7, <1>8, <1>9, <1>10,
     <1>11, <1>12, <1>13, <1>14, <1>15, <1>16, <1>17, <1>18, <1>19, <1>20,
     <1>21, <1>22, <1>23
     DEF Next, Controller, Handler

-----------------------------------------------------------------------------
\* A step that moves no handler into or out of the counted steps and leaves
\* the counters alone keeps them exact.
LEMMA CountersUnmoved ==
    ASSUME TypeOK, CountersExact, target' = target,
           pendingTunnels' = pendingTunnels,
           pendingByTarget' = pendingByTarget,
           \A x \in Conns : (hpc'[x] \in CountedGlobal) <=> (hpc[x] \in CountedGlobal),
           \A x \in Conns : (hpc'[x] \in CountedTarget) <=> (hpc[x] \in CountedTarget)
    PROVE  CountersExact'
<1>1. {x \in Conns : hpc'[x] \in CountedGlobal}
        = {x \in Conns : hpc[x] \in CountedGlobal}
  OBVIOUS
<1>2. ASSUME NEW d \in Devices
      PROVE  {x \in Conns : target'[x] = d /\ hpc'[x] \in CountedTarget}
               = {x \in Conns : target[x] = d /\ hpc[x] \in CountedTarget}
  OBVIOUS
<1> QED
  BY <1>1, <1>2 DEF CountersExact

\* Entering and leaving a counted set changes its size by one.
LEMMA SizeOfChange ==
    ASSUME NEW S, IsFiniteSet(S), NEW x
    PROVE  /\ x \notin S => Cardinality(S \cup {x}) = Cardinality(S) + 1
           /\ x \in S => Cardinality(S \ {x}) = Cardinality(S) - 1
  BY FS_AddElement, FS_RemoveElement

\* The counters stay exact: two actions add a handler to a counted set, two
\* remove one, and no other action moves a handler across their borders.
LEMMA CountersStep == BrokerInv /\ [Next]_vars => CountersExact'
<1> SUFFICES ASSUME TypeOK, ResponseKept, CountersExact, [Next]_vars
             PROVE  CountersExact'
  BY DEF BrokerInv, BrokerShape
<1> DEFINE G == {x \in Conns : hpc[x] \in CountedGlobal}
           T(d) == {x \in Conns : target[x] = d /\ hpc[x] \in CountedTarget}
<1>g. IsFiniteSet(G)
  BY BrokerAssumption, FS_Subset
<1>t. \A d \in Devices : IsFiniteSet(T(d))
  BY BrokerAssumption, FS_Subset
<1>c. /\ pendingTunnels = Cardinality(G)
      /\ \A d \in Devices : pendingByTarget[d] = Cardinality(T(d))
  BY DEF CountersExact
<1>u. CASE UNCHANGED vars
  BY <1>u, CountersUnmoved DEF vars
<1>1. ASSUME NEW c \in Conns, OpenTunnel(c) PROVE CountersExact'
  <2>1. hpc[c] = "idle"
    BY <1>1 DEF OpenTunnel, ResponseKept
  <2> QED
    BY <1>1, <2>1, CountersUnmoved
       DEF OpenTunnel, TypeOK, serverVars, CountedGlobal, CountedTarget
<1>2. ASSUME NEW c \in Conns, ReadResponse(c) PROVE CountersExact'
  BY <1>2, CountersUnmoved
     DEF ReadResponse, TypeOK, Goto, Refuse, Proceed, ClosePair, serverVars,
         CountedGlobal, CountedTarget
<1>3. ASSUME NEW c \in Conns, GiveUp(c) PROVE CountersExact'
  BY <1>3, CountersUnmoved
     DEF GiveUp, TypeOK, Goto, Refuse, Proceed, ClosePair, serverVars,
         CountedGlobal, CountedTarget
<1>4. ASSUME NEW c \in Conns, CheckGlobalCap(c) PROVE CountersExact'
  BY <1>4, CountersUnmoved
     DEF CheckGlobalCap, TypeOK, Goto, Refuse, Proceed, ClosePair, serverVars,
         CountedGlobal, CountedTarget
<1>5. ASSUME NEW c \in Conns, CheckTargetCap(c) PROVE CountersExact'
  BY <1>5, CountersUnmoved
     DEF CheckTargetCap, TypeOK, Goto, Refuse, Proceed, ClosePair, serverVars,
         CountedGlobal, CountedTarget
<1>6. ASSUME NEW c \in Conns, LookupTarget(c) PROVE CountersExact'
  BY <1>6, CountersUnmoved
     DEF LookupTarget, TypeOK, Goto, Refuse, Proceed, ClosePair, serverVars,
         CountedGlobal, CountedTarget
<1>7. ASSUME NEW c \in Conns, SendTunnelRequest(c) PROVE CountersExact'
  BY <1>7, CountersUnmoved
     DEF SendTunnelRequest, TypeOK, Goto, Refuse, Proceed, ClosePair, serverVars,
         CountedGlobal, CountedTarget
<1>8. ASSUME NEW c \in Conns, InsertPending(c) PROVE CountersExact'
  BY <1>8, CountersUnmoved
     DEF InsertPending, TypeOK, Goto, Refuse, Proceed, ClosePair, serverVars,
         CountedGlobal, CountedTarget
<1>9. ASSUME NEW c \in Conns, CountPending(c) PROVE CountersExact'
  <2>1. G' = G \cup {c}
    BY <1>9 DEF CountPending, TypeOK, Goto, CountedGlobal
  <2>2. \A d \in Devices : T(d)' = T(d)
    BY <1>9 DEF CountPending, TypeOK, Goto, CountedTarget
  <2>3. Cardinality(G') = pendingTunnels'
    <3>1. c \notin G
      BY <1>9 DEF CountPending, CountedGlobal
    <3>2. Cardinality(G \cup {c}) = Cardinality(G) + 1
      BY <1>g, <3>1, SizeOfChange
    <3> HIDE DEF G
    <3> QED
      BY <1>9, <1>c, <2>1, <3>2 DEF CountPending
  <2>4. pendingByTarget' = pendingByTarget
    BY <1>9 DEF CountPending
  <2> QED
    BY <1>c, <2>2, <2>3, <2>4 DEF CountersExact
<1>10. ASSUME NEW c \in Conns, CountTarget(c) PROVE CountersExact'
  <2>1. G' = G
    BY <1>10 DEF CountTarget, TypeOK, Goto, CountedGlobal
  <2>2. ASSUME NEW d \in Devices, d # target[c]
        PROVE  T(d)' = T(d) /\ pendingByTarget'[d] = pendingByTarget[d]
    BY <1>10, <2>2 DEF CountTarget, TypeOK, Goto, CountedTarget
  <2>3. T(target[c])' = T(target[c]) \cup {c}
    BY <1>10 DEF CountTarget, TypeOK, Goto, CountedTarget
  <2>4. target[c] \in Devices
    BY DEF TypeOK
  <2>5. pendingByTarget'[target[c]] = pendingByTarget[target[c]] + 1
    BY <1>10, <2>4 DEF CountTarget, TypeOK
  <2>6. c \notin T(target[c])
    BY <1>10 DEF CountTarget, CountedTarget
  <2>7. Cardinality(T(target[c]) \cup {c})
          = Cardinality(T(target[c])) + 1
    BY <1>t, <2>4, <2>6, SizeOfChange
  <2>8. pendingByTarget'[target[c]] = Cardinality(T(target[c])')
    <3> HIDE DEF T
    <3> QED
      BY <1>c, <2>3, <2>4, <2>5, <2>7
  <2>9. pendingTunnels' = pendingTunnels
    BY <1>10 DEF CountTarget
  <2>10. target'[c] = target[c]
    BY <1>10 DEF CountTarget
  <2>11. \A d \in Devices : pendingByTarget'[d] = Cardinality(T(d)')
    <3> TAKE d \in Devices
    <3> HIDE DEF T
    <3>1. CASE d = target[c]
      BY <2>8, <2>10, <3>1
    <3>2. CASE d # target[c]
      BY <1>c, <2>2, <3>2
    <3> QED
      BY <3>1, <3>2
  <2> QED
    BY <1>c, <2>1, <2>9, <2>11 DEF CountersExact
<1>11. ASSUME NEW c \in Conns, DeadlinePasses(c) PROVE CountersExact'
  BY <1>11, CountersUnmoved
     DEF DeadlinePasses, TypeOK, Goto, Refuse, Proceed, ClosePair, serverVars,
         CountedGlobal, CountedTarget
<1>12. ASSUME NEW c \in Conns, PollPaired(c) PROVE CountersExact'
  BY <1>12, CountersUnmoved
     DEF PollPaired, TypeOK, Goto, Refuse, Proceed, ClosePair, serverVars,
         CountedGlobal, CountedTarget
<1>13. ASSUME NEW c \in Conns, PollExpired(c) PROVE CountersExact'
  BY <1>13, CountersUnmoved
     DEF PollExpired, TypeOK, Goto, Refuse, Proceed, ClosePair, serverVars,
         CountedGlobal, CountedTarget
<1>14. ASSUME NEW c \in Conns, CancelTunnel(c) PROVE CountersExact'
  BY <1>14, CountersUnmoved
     DEF CancelTunnel, TypeOK, Goto, Refuse, Proceed, ClosePair, serverVars,
         CountedGlobal, CountedTarget
<1>15. ASSUME NEW c \in Conns, UncountPending(c) PROVE CountersExact'
  <2>1. G' = G \ {c}
    BY <1>15 DEF UncountPending, TypeOK, Goto, CountedGlobal
  <2>2. \A d \in Devices : T(d)' = T(d)
    BY <1>15 DEF UncountPending, TypeOK, Goto, CountedTarget
  <2>3. Cardinality(G') = pendingTunnels'
    <3>1. c \in G
      BY <1>15 DEF UncountPending, CountedGlobal
    <3>2. Cardinality(G \ {c}) = Cardinality(G) - 1
      BY <1>g, <3>1, SizeOfChange
    <3> HIDE DEF G
    <3> QED
      BY <1>15, <1>c, <2>1, <3>2 DEF UncountPending
  <2>4. pendingByTarget' = pendingByTarget
    BY <1>15 DEF UncountPending
  <2> QED
    BY <1>c, <2>2, <2>3, <2>4 DEF CountersExact
<1>16. ASSUME NEW c \in Conns, UncountTarget(c) PROVE CountersExact'
  <2>1. G' = G
    BY <1>16 DEF UncountTarget, TypeOK, Goto, CountedGlobal
  <2>2. ASSUME NEW d \in Devices, d # target[c]
        PROVE  T(d)' = T(d) /\ pendingByTarget'[d] = pendingByTarget[d]
    BY <1>16, <2>2 DEF UncountTarget, TypeOK, Goto, CountedTarget
  <2>3. T(target[c])' = T(target[c]) \ {c}
    BY <1>16 DEF UncountTarget, TypeOK, Goto, CountedTarget
  <2>4. target[c] \in Devices
    BY DEF TypeOK
  <2>5. pendingByTarget'[target[c]] = pendingByTarget[target[c]] - 1
    BY <1>16, <2>4 DEF UncountTarget, TypeOK
  <2>6. c \in T(target[c])
    BY <1>16 DEF UncountTarget, CountedTarget
  <2>7. Cardinality(T(target[c]) \ {c})
          = Cardinality(T(target[c])) - 1
    BY <1>t, <2>4, <2>6, SizeOfChange
  <2>8. pendingByTarget'[target[c]] = Cardinality(T(target[c])')
    <3> HIDE DEF T
    <3> QED
      BY <1>c, <2>3, <2>4, <2>5, <2>7
  <2>9. pendingTunnels' = pendingTunnels
    BY <1>16 DEF UncountTarget
  <2>10. target'[c] = target[c]
    BY <1>16 DEF UncountTarget
  <2>11. \A d \in Devices : pendingByTarget'[d] = Cardinality(T(d)')
    <3> TAKE d \in Devices
    <3> HIDE DEF T
    <3>1. CASE d = target[c]
      BY <2>8, <2>10, <3>1
    <3>2. CASE d # target[c]
      BY <1>c, <2>2, <3>2
    <3> QED
      BY <3>1, <3>2
  <2> QED
    BY <1>c, <2>1, <2>9, <2>11 DEF CountersExact
<1>17. ASSUME NEW c \in Conns, Answer(c) PROVE CountersExact'
  BY <1>17, CountersUnmoved
     DEF Answer, TypeOK, Goto, Refuse, Proceed, ClosePair, serverVars,
         CountedGlobal, CountedTarget
<1>18. ASSUME NEW c \in Conns, PipeEnds(c) PROVE CountersExact'
  BY <1>18, CountersUnmoved
     DEF PipeEnds, TypeOK, Goto, Refuse, Proceed, ClosePair, serverVars,
         CountedGlobal, CountedTarget
<1>19. ASSUME NEW c \in Conns, BackConnectFails(c) PROVE CountersExact'
  BY <1>19, CountersUnmoved
     DEF BackConnectFails, TypeOK, Goto, Refuse, Proceed, ClosePair, serverVars,
         CountedGlobal, CountedTarget
<1>20. ASSUME NEW s \in Streams, PairTunnel(s) PROVE CountersExact'
  BY <1>20, CountersUnmoved
     DEF PairTunnel, TypeOK, Goto, Refuse, Proceed, ClosePair, serverVars,
         CountedGlobal, CountedTarget
<1>21. ASSUME NEW s \in Streams, NEW c \in Conns, BackConnect(s, c) PROVE CountersExact'
  BY <1>21, CountersUnmoved
     DEF BackConnect, TypeOK, Goto, Refuse, Proceed, ClosePair, serverVars,
         CountedGlobal, CountedTarget
<1>22. ASSUME NEW s \in Streams, NEW c \in Conns, RepeatHeader(s, c) PROVE CountersExact'
  BY <1>22, CountersUnmoved
     DEF RepeatHeader, TypeOK, Goto, Refuse, Proceed, ClosePair, serverVars,
         CountedGlobal, CountedTarget
<1>23. ASSUME NEW d \in Devices, DeviceComesOrGoes(d) PROVE CountersExact'
  BY <1>23, CountersUnmoved
     DEF DeviceComesOrGoes, TypeOK, Goto, Refuse, Proceed, ClosePair, serverVars,
         CountedGlobal, CountedTarget
<1> QED
  BY <1>u, <1>1, <1>2, <1>3, <1>4, <1>5, <1>6, <1>7, <1>8, <1>9, <1>10,
     <1>11, <1>12, <1>13, <1>14, <1>15, <1>16, <1>17, <1>18, <1>19, <1>20,
     <1>21, <1>22, <1>23
     DEF Next, Controller, Handler



-----------------------------------------------------------------------------
\* Nothing is pending, counted or connected at the start.
LEMMA BrokerInit == Init => BrokerInv
<1> SUFFICES ASSUME Init PROVE BrokerInv
  OBVIOUS
<1> USE BrokerAssumption DEF Init
<1>1. TypeOK
  BY DEF TypeOK, HandlerSteps, StreamFates
<1>2. NoResidualEntry
  BY DEF NoResidualEntry, Pending
<1>3. StreamOwned
  BY DEF StreamOwned
<1>4. PairKept /\ SlotKept /\ ResponseKept
  BY DEF PairKept, SlotKept, ResponseKept
<1>5. CountersExact
  <2>1. {c \in Conns : hpc[c] \in CountedGlobal} = {}
    BY DEF CountedGlobal
  <2>2. \A d \in Devices :
           {c \in Conns : target[c] = d /\ hpc[c] \in CountedTarget} = {}
    BY DEF CountedTarget
  <2> QED
    BY <2>1, <2>2, FS_EmptySet DEF CountersExact
<1> QED
  BY <1>1, <1>2, <1>3, <1>4, <1>5 DEF BrokerInv, BrokerShape

\* BrokerInv is inductive.
THEOREM BrokerInvariant == Spec => []BrokerInv
<1>1. BrokerInv /\ [Next]_vars => BrokerInv'
  BY TypeStep, ShapeStep, CountersStep DEF BrokerInv
<1> QED
  BY BrokerInit, <1>1, PTL DEF Spec

\* Whatever the caps, the timeouts and the order of arrivals: the counters of
\* handle_tunnel_conn are exact and never underflow.
THEOREM CountersAlwaysExact == Spec => [](TypeOK /\ CountersExact)
<1>1. BrokerInv => TypeOK /\ CountersExact
  BY DEF BrokerInv
<1> QED
  BY BrokerInvariant, <1>1, PTL

\* wait_for_pair and cancel_tunnel leave no entry behind, and every accepted
\* stream has exactly one owner.
THEOREM TableAndStreams == Spec => []TableExact
<1>1. BrokerInv => TableExact
  BY DEF BrokerInv, BrokerShape, TableExact
<1> QED
  BY BrokerInvariant, <1>1, PTL

\* The handlers, the table and the streams keep their types; in particular
\* the two pending counters never go below zero.
THEOREM BrokerTypeCorrect == Spec => []TypeOK
<1>1. BrokerInv => TypeOK
  BY DEF BrokerInv
<1> QED
  BY BrokerInvariant, <1>1, PTL

\* A stream returned by open_tunnel is paired with its own conn_id.
THEOREM OpenIsPaired == Spec => []OpenMeansPaired
<1>1. BrokerInv => OpenMeansPaired
  BY DEF BrokerInv, BrokerShape, ResponseKept, PairKept, OpenMeansPaired
<1> QED
  BY BrokerInvariant, <1>1, PTL

-----------------------------------------------------------------------------
\* Nothing has been asked, paired or named at the start.
LEMMA PairingInitially == Init => Pairing!PairingInit
  BY DEF Init, Pairing!PairingInit, StageOf

\* One connection changes its stage and no header changes.
LEMMA StageMove ==
    ASSUME NEW c \in Conns, NEW from, NEW to,
           StageOf(c) = from, StageOf(c)' = to,
           \A x \in Conns \ {c} : StageOf(x)' = StageOf(x),
           \A s \in Streams : strm'[s].conn = strm[s].conn
    PROVE  Pairing!Move(c, from, to)
  BY DEF Pairing!Move

\* No stage, no pair and no header changes.
LEMMA StageStays ==
    ASSUME \A x \in Conns : StageOf(x)' = StageOf(x),
           \A s \in Streams : strm'[s].conn = strm[s].conn,
           pair' = pair
    PROVE  UNCHANGED Pairing!pairingVars
  BY DEF Pairing!pairingVars

\* Every step of the broker is one step of TunnelPairing, or none.
LEMMA PairingStep ==
    BrokerInv /\ [Next]_vars => [Pairing!PairingNext]_Pairing!pairingVars
<1> SUFFICES ASSUME TypeOK, BrokerShape, [Next]_vars
             PROVE  [Pairing!PairingNext]_Pairing!pairingVars
  BY DEF BrokerInv
<1>u. CASE UNCHANGED vars
  BY <1>u, StageStays DEF vars, StageOf
<1>1. ASSUME NEW c \in Conns, OpenTunnel(c)
      PROVE  [Pairing!PairingNext]_Pairing!pairingVars
  <2>2. StageOf(c) = "none" /\ StageOf(c)' = "asked"
    BY <1>1, BrokerAssumption
       DEF OpenTunnel, TypeOK, Goto, Refuse, Proceed, ClosePair,
           serverVars, clientVars,
           StageOf, BrokerShape, PairKept, ResponseKept
  <2>3. \A x \in Conns \ {c} : StageOf(x)' = StageOf(x)
    BY <1>1, BrokerAssumption
       DEF OpenTunnel, TypeOK, Goto, Refuse, Proceed, ClosePair,
           serverVars, clientVars, StageOf
  <2>4. /\ \A x \in Streams : strm'[x].conn = strm[x].conn
        /\ pair' = pair
    BY <1>1, BrokerAssumption
       DEF OpenTunnel, TypeOK, Goto, Refuse, Proceed, ClosePair,
           serverVars, clientVars
  <2>5. Pairing!Move(c, "none", "asked")
    BY <2>2, <2>3, <2>4, StageMove
  <2> QED
    BY <2>4, <2>5 DEF Pairing!PairingNext, Pairing!Ask
<1>2. ASSUME NEW c \in Conns, ReadResponse(c)
      PROVE  [Pairing!PairingNext]_Pairing!pairingVars
  <2>1. \A x \in Conns : StageOf(x)' = StageOf(x)
    BY <1>2, BrokerAssumption
       DEF ReadResponse, TypeOK, Goto, Refuse, Proceed, ClosePair,
           serverVars, clientVars,
           StageOf, BrokerShape, PairKept
  <2>2. /\ \A x \in Streams : strm'[x].conn = strm[x].conn
        /\ pair' = pair
    BY <1>2, BrokerAssumption
       DEF ReadResponse, TypeOK, Goto, Refuse, Proceed, ClosePair,
           serverVars, clientVars
  <2> QED
    BY <2>1, <2>2, StageStays
<1>3. ASSUME NEW c \in Conns, GiveUp(c)
      PROVE  [Pairing!PairingNext]_Pairing!pairingVars
  <2>1. \A x \in Conns : StageOf(x)' = StageOf(x)
    BY <1>3, BrokerAssumption
       DEF GiveUp, TypeOK, Goto, Refuse, Proceed, ClosePair,
           serverVars, clientVars,
           StageOf, BrokerShape, PairKept
  <2>2. /\ \A x \in Streams : strm'[x].conn = strm[x].conn
        /\ pair' = pair
    BY <1>3, BrokerAssumption
       DEF GiveUp, TypeOK, Goto, Refuse, Proceed, ClosePair,
           serverVars, clientVars
  <2> QED
    BY <2>1, <2>2, StageStays
<1>4. ASSUME NEW c \in Conns, CheckGlobalCap(c)
      PROVE  [Pairing!PairingNext]_Pairing!pairingVars
  <2>1. CASE hpc'[c] = "refused"
    <3>2. StageOf(c) = "asked" /\ StageOf(c)' = "refused"
      BY <1>4, <2>1, BrokerAssumption
         DEF CheckGlobalCap, TypeOK, Goto, Refuse, Proceed, ClosePair,
             serverVars, clientVars,
             StageOf, BrokerShape, PairKept
    <3>3. \A x \in Conns \ {c} : StageOf(x)' = StageOf(x)
      BY <1>4, <2>1, BrokerAssumption
         DEF CheckGlobalCap, TypeOK, Goto, Refuse, Proceed, ClosePair,
             serverVars, clientVars, StageOf
    <3>4. /\ \A x \in Streams : strm'[x].conn = strm[x].conn
          /\ pair' = pair
      BY <1>4, <2>1, BrokerAssumption
         DEF CheckGlobalCap, TypeOK, Goto, Refuse, Proceed, ClosePair,
             serverVars, clientVars
    <3>5. Pairing!Move(c, "asked", "refused")
      BY <3>2, <3>3, <3>4, StageMove
    <3> QED
      BY <3>4, <3>5 DEF Pairing!PairingNext, Pairing!Reject
  <2>2. CASE hpc'[c] # "refused"
    <3>1. \A x \in Conns : StageOf(x)' = StageOf(x)
      BY <1>4, <2>2, BrokerAssumption
         DEF CheckGlobalCap, TypeOK, Goto, Refuse, Proceed, ClosePair,
             serverVars, clientVars,
             StageOf, BrokerShape, PairKept
    <3>2. /\ \A x \in Streams : strm'[x].conn = strm[x].conn
          /\ pair' = pair
      BY <1>4, <2>2, BrokerAssumption
         DEF CheckGlobalCap, TypeOK, Goto, Refuse, Proceed, ClosePair,
             serverVars, clientVars
    <3> QED
      BY <3>1, <3>2, StageStays
  <2> QED
    BY <2>1, <2>2
<1>5. ASSUME NEW c \in Conns, CheckTargetCap(c)
      PROVE  [Pairing!PairingNext]_Pairing!pairingVars
  <2>1. CASE hpc'[c] = "refused"
    <3>2. StageOf(c) = "asked" /\ StageOf(c)' = "refused"
      BY <1>5, <2>1, BrokerAssumption
         DEF CheckTargetCap, TypeOK, Goto, Refuse, Proceed, ClosePair,
             serverVars, clientVars,
             StageOf, BrokerShape, PairKept
    <3>3. \A x \in Conns \ {c} : StageOf(x)' = StageOf(x)
      BY <1>5, <2>1, BrokerAssumption
         DEF CheckTargetCap, TypeOK, Goto, Refuse, Proceed, ClosePair,
             serverVars, clientVars, StageOf
    <3>4. /\ \A x \in Streams : strm'[x].conn = strm[x].conn
          /\ pair' = pair
      BY <1>5, <2>1, BrokerAssumption
         DEF CheckTargetCap, TypeOK, Goto, Refuse, Proceed, ClosePair,
             serverVars, clientVars
    <3>5. Pairing!Move(c, "asked", "refused")
      BY <3>2, <3>3, <3>4, StageMove
    <3> QED
      BY <3>4, <3>5 DEF Pairing!PairingNext, Pairing!Reject
  <2>2. CASE hpc'[c] # "refused"
    <3>1. \A x \in Conns : StageOf(x)' = StageOf(x)
      BY <1>5, <2>2, BrokerAssumption
         DEF CheckTargetCap, TypeOK, Goto, Refuse, Proceed, ClosePair,
             serverVars, clientVars,
             StageOf, BrokerShape, PairKept
    <3>2. /\ \A x \in Streams : strm'[x].conn = strm[x].conn
          /\ pair' = pair
      BY <1>5, <2>2, BrokerAssumption
         DEF CheckTargetCap, TypeOK, Goto, Refuse, Proceed, ClosePair,
             serverVars, clientVars
    <3> QED
      BY <3>1, <3>2, StageStays
  <2> QED
    BY <2>1, <2>2
<1>6. ASSUME NEW c \in Conns, LookupTarget(c)
      PROVE  [Pairing!PairingNext]_Pairing!pairingVars
  <2>1. CASE hpc'[c] = "refused"
    <3>2. StageOf(c) = "asked" /\ StageOf(c)' = "refused"
      BY <1>6, <2>1, BrokerAssumption
         DEF LookupTarget, TypeOK, Goto, Refuse, Proceed, ClosePair,
             serverVars, clientVars,
             StageOf, BrokerShape, PairKept
    <3>3. \A x \in Conns \ {c} : StageOf(x)' = StageOf(x)
      BY <1>6, <2>1, BrokerAssumption
         DEF LookupTarget, TypeOK, Goto, Refuse, Proceed, ClosePair,
             serverVars, clientVars, StageOf
    <3>4. /\ \A x \in Streams : strm'[x].conn = strm[x].conn
          /\ pair' = pair
      BY <1>6, <2>1, BrokerAssumption
         DEF LookupTarget, TypeOK, Goto, Refuse, Proceed, ClosePair,
             serverVars, clientVars
    <3>5. Pairing!Move(c, "asked", "refused")
      BY <3>2, <3>3, <3>4, StageMove
    <3> QED
      BY <3>4, <3>5 DEF Pairing!PairingNext, Pairing!Reject
  <2>2. CASE hpc'[c] # "refused"
    <3>1. \A x \in Conns : StageOf(x)' = StageOf(x)
      BY <1>6, <2>2, BrokerAssumption
         DEF LookupTarget, TypeOK, Goto, Refuse, Proceed, ClosePair,
             serverVars, clientVars,
             StageOf, BrokerShape, PairKept
    <3>2. /\ \A x \in Streams : strm'[x].conn = strm[x].conn
          /\ pair' = pair
      BY <1>6, <2>2, BrokerAssumption
         DEF LookupTarget, TypeOK, Goto, Refuse, Proceed, ClosePair,
             serverVars, clientVars
    <3> QED
      BY <3>1, <3>2, StageStays
  <2> QED
    BY <2>1, <2>2
<1>7. ASSUME NEW c \in Conns, SendTunnelRequest(c)
      PROVE  [Pairing!PairingNext]_Pairing!pairingVars
  <2>1. CASE hpc'[c] = "refused"
    <3>2. StageOf(c) = "asked" /\ StageOf(c)' = "refused"
      BY <1>7, <2>1, BrokerAssumption
         DEF SendTunnelRequest, TypeOK, Goto, Refuse, Proceed, ClosePair,
             serverVars, clientVars,
             StageOf, BrokerShape, PairKept
    <3>3. \A x \in Conns \ {c} : StageOf(x)' = StageOf(x)
      BY <1>7, <2>1, BrokerAssumption
         DEF SendTunnelRequest, TypeOK, Goto, Refuse, Proceed, ClosePair,
             serverVars, clientVars, StageOf
    <3>4. /\ \A x \in Streams : strm'[x].conn = strm[x].conn
          /\ pair' = pair
      BY <1>7, <2>1, BrokerAssumption
         DEF SendTunnelRequest, TypeOK, Goto, Refuse, Proceed, ClosePair,
             serverVars, clientVars
    <3>5. Pairing!Move(c, "asked", "refused")
      BY <3>2, <3>3, <3>4, StageMove
    <3> QED
      BY <3>4, <3>5 DEF Pairing!PairingNext, Pairing!Reject
  <2>2. CASE hpc'[c] # "refused"
    <3>1. \A x \in Conns : StageOf(x)' = StageOf(x)
      BY <1>7, <2>2, BrokerAssumption
         DEF SendTunnelRequest, TypeOK, Goto, Refuse, Proceed, ClosePair,
             serverVars, clientVars,
             StageOf, BrokerShape, PairKept
    <3>2. /\ \A x \in Streams : strm'[x].conn = strm[x].conn
          /\ pair' = pair
      BY <1>7, <2>2, BrokerAssumption
         DEF SendTunnelRequest, TypeOK, Goto, Refuse, Proceed, ClosePair,
             serverVars, clientVars
    <3> QED
      BY <3>1, <3>2, StageStays
  <2> QED
    BY <2>1, <2>2
<1>8. ASSUME NEW c \in Conns, InsertPending(c)
      PROVE  [Pairing!PairingNext]_Pairing!pairingVars
  <2>1. \A x \in Conns : StageOf(x)' = StageOf(x)
    BY <1>8, BrokerAssumption
       DEF InsertPending, TypeOK, Goto, Refuse, Proceed, ClosePair,
           serverVars, clientVars,
           StageOf, BrokerShape, PairKept
  <2>2. /\ \A x \in Streams : strm'[x].conn = strm[x].conn
        /\ pair' = pair
    BY <1>8, BrokerAssumption
       DEF InsertPending, TypeOK, Goto, Refuse, Proceed, ClosePair,
           serverVars, clientVars
  <2> QED
    BY <2>1, <2>2, StageStays
<1>9. ASSUME NEW c \in Conns, CountPending(c)
      PROVE  [Pairing!PairingNext]_Pairing!pairingVars
  <2>1. \A x \in Conns : StageOf(x)' = StageOf(x)
    BY <1>9, BrokerAssumption
       DEF CountPending, TypeOK, Goto, Refuse, Proceed, ClosePair,
           serverVars, clientVars,
           StageOf, BrokerShape, PairKept
  <2>2. /\ \A x \in Streams : strm'[x].conn = strm[x].conn
        /\ pair' = pair
    BY <1>9, BrokerAssumption
       DEF CountPending, TypeOK, Goto, Refuse, Proceed, ClosePair,
           serverVars, clientVars
  <2> QED
    BY <2>1, <2>2, StageStays
<1>10. ASSUME NEW c \in Conns, CountTarget(c)
      PROVE  [Pairing!PairingNext]_Pairing!pairingVars
  <2>1. \A x \in Conns : StageOf(x)' = StageOf(x)
    BY <1>10, BrokerAssumption
       DEF CountTarget, TypeOK, Goto, Refuse, Proceed, ClosePair,
           serverVars, clientVars,
           StageOf, BrokerShape, PairKept
  <2>2. /\ \A x \in Streams : strm'[x].conn = strm[x].conn
        /\ pair' = pair
    BY <1>10, BrokerAssumption
       DEF CountTarget, TypeOK, Goto, Refuse, Proceed, ClosePair,
           serverVars, clientVars
  <2> QED
    BY <2>1, <2>2, StageStays
<1>11. ASSUME NEW c \in Conns, DeadlinePasses(c)
      PROVE  [Pairing!PairingNext]_Pairing!pairingVars
  <2>1. \A x \in Conns : StageOf(x)' = StageOf(x)
    BY <1>11, BrokerAssumption
       DEF DeadlinePasses, TypeOK, Goto, Refuse, Proceed, ClosePair,
           serverVars, clientVars,
           StageOf, BrokerShape, PairKept
  <2>2. /\ \A x \in Streams : strm'[x].conn = strm[x].conn
        /\ pair' = pair
    BY <1>11, BrokerAssumption
       DEF DeadlinePasses, TypeOK, Goto, Refuse, Proceed, ClosePair,
           serverVars, clientVars
  <2> QED
    BY <2>1, <2>2, StageStays
<1>12. ASSUME NEW c \in Conns, PollPaired(c)
      PROVE  [Pairing!PairingNext]_Pairing!pairingVars
  <2>1. slot[c] \in Streams /\ strm[slot[c]].fate = "held" /\ strm[slot[c]].conn = c
    BY <1>12 DEF PollPaired, TypeOK, BrokerShape, StreamOwned
  <2>2. StageOf(c) = "asked" /\ StageOf(c)' = "paired"
    BY <1>12, <2>1, BrokerAssumption
       DEF PollPaired, TypeOK, Goto, Refuse, Proceed, ClosePair,
           serverVars, clientVars,
           StageOf, BrokerShape, PairKept
  <2>3. \A x \in Conns \ {c} : StageOf(x)' = StageOf(x)
    BY <1>12, <2>1, BrokerAssumption
       DEF PollPaired, TypeOK, Goto, Refuse, Proceed, ClosePair,
           serverVars, clientVars, StageOf
  <2>4. /\ \A x \in Streams : strm'[x].conn = strm[x].conn
        /\ pair' = [pair EXCEPT ![c] = slot[c]]
    BY <1>12, <2>1, BrokerAssumption
       DEF PollPaired, TypeOK, Goto, Refuse, Proceed, ClosePair,
           serverVars, clientVars
  <2>5. Pairing!Move(c, "asked", "paired")
    BY <2>2, <2>3, <2>4, StageMove
  <2>6. \A other \in Conns : pair[other] # slot[c]
    BY <2>1, BrokerAssumption DEF BrokerShape, PairKept
  <2> QED
    BY <2>1, <2>4, <2>5, <2>6 DEF Pairing!PairingNext, Pairing!Pair
<1>13. ASSUME NEW c \in Conns, PollExpired(c)
      PROVE  [Pairing!PairingNext]_Pairing!pairingVars
  <2>1. \A x \in Conns : StageOf(x)' = StageOf(x)
    BY <1>13, BrokerAssumption
       DEF PollExpired, TypeOK, Goto, Refuse, Proceed, ClosePair,
           serverVars, clientVars,
           StageOf, BrokerShape, PairKept
  <2>2. /\ \A x \in Streams : strm'[x].conn = strm[x].conn
        /\ pair' = pair
    BY <1>13, BrokerAssumption
       DEF PollExpired, TypeOK, Goto, Refuse, Proceed, ClosePair,
           serverVars, clientVars
  <2> QED
    BY <2>1, <2>2, StageStays
<1>14. ASSUME NEW c \in Conns, CancelTunnel(c)
      PROVE  [Pairing!PairingNext]_Pairing!pairingVars
  <2>2. StageOf(c) = "asked" /\ StageOf(c)' = "expired"
    BY <1>14, BrokerAssumption
       DEF CancelTunnel, TypeOK, Goto, Refuse, Proceed, ClosePair,
           serverVars, clientVars,
           StageOf, BrokerShape, PairKept
  <2>3. \A x \in Conns \ {c} : StageOf(x)' = StageOf(x)
    BY <1>14, BrokerAssumption
       DEF CancelTunnel, TypeOK, Goto, Refuse, Proceed, ClosePair,
           serverVars, clientVars, StageOf
  <2>4. /\ \A x \in Streams : strm'[x].conn = strm[x].conn
        /\ pair' = pair
    BY <1>14, BrokerAssumption
       DEF CancelTunnel, TypeOK, Goto, Refuse, Proceed, ClosePair,
           serverVars, clientVars
  <2>5. Pairing!Move(c, "asked", "expired")
    BY <2>2, <2>3, <2>4, StageMove
  <2> QED
    BY <2>4, <2>5 DEF Pairing!PairingNext, Pairing!Expire
<1>15. ASSUME NEW c \in Conns, UncountPending(c)
      PROVE  [Pairing!PairingNext]_Pairing!pairingVars
  <2>1. \A x \in Conns : StageOf(x)' = StageOf(x)
    BY <1>15, BrokerAssumption
       DEF UncountPending, TypeOK, Goto, Refuse, Proceed, ClosePair,
           serverVars, clientVars,
           StageOf, BrokerShape, PairKept
  <2>2. /\ \A x \in Streams : strm'[x].conn = strm[x].conn
        /\ pair' = pair
    BY <1>15, BrokerAssumption
       DEF UncountPending, TypeOK, Goto, Refuse, Proceed, ClosePair,
           serverVars, clientVars
  <2> QED
    BY <2>1, <2>2, StageStays
<1>16. ASSUME NEW c \in Conns, UncountTarget(c)
      PROVE  [Pairing!PairingNext]_Pairing!pairingVars
  <2>1. \A x \in Conns : StageOf(x)' = StageOf(x)
    BY <1>16, BrokerAssumption
       DEF UncountTarget, TypeOK, Goto, Refuse, Proceed, ClosePair,
           serverVars, clientVars,
           StageOf, BrokerShape, PairKept
  <2>2. /\ \A x \in Streams : strm'[x].conn = strm[x].conn
        /\ pair' = pair
    BY <1>16, BrokerAssumption
       DEF UncountTarget, TypeOK, Goto, Refuse, Proceed, ClosePair,
           serverVars, clientVars
  <2> QED
    BY <2>1, <2>2, StageStays
<1>17. ASSUME NEW c \in Conns, Answer(c)
      PROVE  [Pairing!PairingNext]_Pairing!pairingVars
  <2>1. CASE hpc'[c] = "done"
    <3>2. StageOf(c) = "paired" /\ StageOf(c)' = "closed"
      BY <1>17, <2>1, BrokerAssumption
         DEF Answer, TypeOK, Goto, Refuse, Proceed, ClosePair,
             serverVars, clientVars,
             StageOf, BrokerShape, PairKept
    <3>3. \A x \in Conns \ {c} : StageOf(x)' = StageOf(x)
      BY <1>17, <2>1, BrokerAssumption
         DEF Answer, TypeOK, Goto, Refuse, Proceed, ClosePair,
             serverVars, clientVars, StageOf
    <3>4. /\ \A x \in Streams : strm'[x].conn = strm[x].conn
          /\ pair' = pair
      BY <1>17, <2>1, BrokerAssumption
         DEF Answer, TypeOK, Goto, Refuse, Proceed, ClosePair,
             serverVars, clientVars
    <3>5. Pairing!Move(c, "paired", "closed")
      BY <3>2, <3>3, <3>4, StageMove
    <3> QED
      BY <3>4, <3>5 DEF Pairing!PairingNext, Pairing!Close
  <2>2. CASE hpc'[c] # "done"
    <3>1. \A x \in Conns : StageOf(x)' = StageOf(x)
      BY <1>17, <2>2, BrokerAssumption
         DEF Answer, TypeOK, Goto, Refuse, Proceed, ClosePair,
             serverVars, clientVars,
             StageOf, BrokerShape, PairKept
    <3>2. /\ \A x \in Streams : strm'[x].conn = strm[x].conn
          /\ pair' = pair
      BY <1>17, <2>2, BrokerAssumption
         DEF Answer, TypeOK, Goto, Refuse, Proceed, ClosePair,
             serverVars, clientVars
    <3> QED
      BY <3>1, <3>2, StageStays
  <2> QED
    BY <2>1, <2>2
<1>18. ASSUME NEW c \in Conns, PipeEnds(c)
      PROVE  [Pairing!PairingNext]_Pairing!pairingVars
  <2>2. StageOf(c) = "paired" /\ StageOf(c)' = "closed"
    BY <1>18, BrokerAssumption
       DEF PipeEnds, TypeOK, Goto, Refuse, Proceed, ClosePair,
           serverVars, clientVars,
           StageOf, BrokerShape, PairKept
  <2>3. \A x \in Conns \ {c} : StageOf(x)' = StageOf(x)
    BY <1>18, BrokerAssumption
       DEF PipeEnds, TypeOK, Goto, Refuse, Proceed, ClosePair,
           serverVars, clientVars, StageOf
  <2>4. /\ \A x \in Streams : strm'[x].conn = strm[x].conn
        /\ pair' = pair
    BY <1>18, BrokerAssumption
       DEF PipeEnds, TypeOK, Goto, Refuse, Proceed, ClosePair,
           serverVars, clientVars
  <2>5. Pairing!Move(c, "paired", "closed")
    BY <2>2, <2>3, <2>4, StageMove
  <2> QED
    BY <2>4, <2>5 DEF Pairing!PairingNext, Pairing!Close
<1>19. ASSUME NEW c \in Conns, BackConnectFails(c)
      PROVE  [Pairing!PairingNext]_Pairing!pairingVars
  <2>1. \A x \in Conns : StageOf(x)' = StageOf(x)
    BY <1>19, BrokerAssumption
       DEF BackConnectFails, TypeOK, Goto, Refuse, Proceed, ClosePair,
           serverVars, clientVars,
           StageOf, BrokerShape, PairKept
  <2>2. /\ \A x \in Streams : strm'[x].conn = strm[x].conn
        /\ pair' = pair
    BY <1>19, BrokerAssumption
       DEF BackConnectFails, TypeOK, Goto, Refuse, Proceed, ClosePair,
           serverVars, clientVars
  <2> QED
    BY <2>1, <2>2, StageStays
<1>20. ASSUME NEW s \in Streams, PairTunnel(s)
      PROVE  [Pairing!PairingNext]_Pairing!pairingVars
  <2>1. \A x \in Conns : StageOf(x)' = StageOf(x)
    BY <1>20, BrokerAssumption
       DEF PairTunnel, TypeOK, Goto, Refuse, Proceed, ClosePair,
           serverVars, clientVars,
           StageOf, BrokerShape, PairKept
  <2>2. /\ \A x \in Streams : strm'[x].conn = strm[x].conn
        /\ pair' = pair
    BY <1>20, BrokerAssumption
       DEF PairTunnel, TypeOK, Goto, Refuse, Proceed, ClosePair,
           serverVars, clientVars
  <2> QED
    BY <2>1, <2>2, StageStays
<1>21. ASSUME NEW s \in Streams, NEW c \in Conns, BackConnect(s, c)
      PROVE  [Pairing!PairingNext]_Pairing!pairingVars
  <2>1. \A x \in Conns : StageOf(x)' = StageOf(x)
    BY <1>21 DEF BackConnect, serverVars, StageOf
  <2>2. Pairing!Name(s, c)
    BY <1>21, <2>1 DEF BackConnect, TypeOK, BrokerShape, SlotKept, Pairing!Name, serverVars
  <2> QED
    BY <2>2 DEF Pairing!PairingNext
<1>22. ASSUME NEW s \in Streams, NEW c \in Conns, RepeatHeader(s, c)
      PROVE  [Pairing!PairingNext]_Pairing!pairingVars
  <2>1. \A x \in Conns : StageOf(x)' = StageOf(x)
    BY <1>22 DEF RepeatHeader, serverVars, StageOf
  <2>2. Pairing!Name(s, c)
    BY <1>22, <2>1 DEF RepeatHeader, TypeOK, BrokerShape, SlotKept, Pairing!Name, serverVars
  <2> QED
    BY <2>2 DEF Pairing!PairingNext
<1>23. ASSUME NEW d \in Devices, DeviceComesOrGoes(d)
      PROVE  [Pairing!PairingNext]_Pairing!pairingVars
  <2>1. \A x \in Conns : StageOf(x)' = StageOf(x)
    BY <1>23, BrokerAssumption
       DEF DeviceComesOrGoes, TypeOK, Goto, Refuse, Proceed, ClosePair,
           serverVars, clientVars,
           StageOf, BrokerShape, PairKept
  <2>2. /\ \A x \in Streams : strm'[x].conn = strm[x].conn
        /\ pair' = pair
    BY <1>23, BrokerAssumption
       DEF DeviceComesOrGoes, TypeOK, Goto, Refuse, Proceed, ClosePair,
           serverVars, clientVars
  <2> QED
    BY <2>1, <2>2, StageStays
<1> QED
  BY <1>u, <1>1, <1>2, <1>3, <1>4, <1>5, <1>6, <1>7, <1>8, <1>9, <1>10,
     <1>11, <1>12, <1>13, <1>14, <1>15, <1>16, <1>17, <1>18, <1>19, <1>20,
     <1>21, <1>22, <1>23
     DEF Next, Controller, Handler

\* The relay implements TunnelPairing for every number of connections: no
\* back-connection serves two controllers, and none serves another conn_id.
THEOREM BrokerImplementsPairing == Spec => ImplementsPairing
<1> QED
  BY BrokerInvariant, PairingInitially, PairingStep, PTL
     DEF Spec, ImplementsPairing, Pairing!PairingSpec
=============================================================================
