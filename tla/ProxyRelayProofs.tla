-------------------------- MODULE ProxyRelayProofs --------------------------
(***************************************************************************)
(* Proofs about ProxyRelay, for any number of proxies, public connections  *)
(* and limits.                                                             *)
(*                                                                         *)
(* The listener reads conn_count once, before it asks for a work           *)
(* connection, and the pump is counted many steps later.  What carries the *)
(* limit across those steps is that the listener is alone in raising the   *)
(* counter of its proxy and works on one connection at a time (Serving):   *)
(* the invariant remembers the room it saw until the pump is spawned.      *)
(***************************************************************************)
EXTENDS ProxyRelay, FiniteSetTheorems, TLAPS

\* Steps at which the listener holds a public connection.
Holding == {"insert", "index", "send", "wait", "spawn"}
Early   == {"loop", "remove", "abort"}

Pumps(e) == {u \in Users : user[u] = "piped" /\ via[u] = e}

\* What the listener of e may rely on.
Serving ==
    \A e \in Entries :
       /\ lpc[e] \in Holding \cup {"forget", "push"} =>
             /\ cur[e] \in Users
             /\ via[cur[e]] = e
             /\ user[cur[e]] # "new"
       /\ lpc[e] \in Holding => user[cur[e]] = "held"
       /\ lpc[e] = "forget" => user[cur[e]] \in {"held", "closed"}
       /\ lpc[e] \in Holding \cup {"forget"} => count[e] < MaxWork

\* Nobody is aborted before the cleanup of the session.
NotFlagged == session \in Early => \A e \in Entries : ~flagged[e]

\* A connection somebody accepted knows its proxy.
Accepted == \A u \in Users : user[u] # "new" => via[u] \in Entries

\* The counter is the number of pumps until abort drops some of them
\* uncounted, and never less.
Counted ==
    \A e \in Entries :
       /\ session \in Early => count[e] = Cardinality(Pumps(e))
       /\ Cardinality(Pumps(e)) =< count[e]
       /\ Cardinality(Pumps(e)) =< MaxWork

ProxyInv ==
    /\ TypeOK /\ Serving /\ NotFlagged /\ Accepted /\ Counted /\ IndexServed

-----------------------------------------------------------------------------
\* The pumps of a proxy are a finite set.
LEMMA PumpsFinite ==
    ASSUME NEW e
    PROVE  IsFiniteSet(Pumps(e)) /\ Cardinality(Pumps(e)) \in Nat
<1>1. Pumps(e) \in SUBSET Users
    BY DEF Pumps
<1> QED BY <1>1, FS_Subset, FS_CardinalityType, ProxyAssumption

\* drain_pending keeps the types of the two tables and of the channels.
LEMMA DrainedTyped ==
    ASSUME TypeOK, NEW e \in Entries, Drained(e)
    PROVE  /\ pending' \in [Entries -> SUBSET Users]
           /\ index' \in [Users -> Names \cup {None}]
           /\ chan' \in [Users -> {"none", "empty", "work", "err", "gone"}]
           /\ \A u \in Users : index'[u] # None => index'[u] = index[u]
BY DEF TypeOK, Drained

\* Each kind of step keeps the types.
LEMMA TypeStep == ProxyInv /\ [Next]_vars => TypeOK'
<1> SUFFICES ASSUME TypeOK, Serving, Accepted, Counted, [Next]_vars PROVE TypeOK'
    BY DEF ProxyInv
<1>1. ASSUME NEW n \in Names, NEW p \in Ports, NEW e \in Entries,
             RegisterProxy(n, p, e)
      PROVE  TypeOK'
    BY <1>1 DEF RegisterProxy, Goto, tableVars, TypeOK, Awaiting, Running
<1>2. ASSUME NEW n \in Names, CloseProxy(n) PROVE TypeOK'
    <2>1. proxies[n] \in Entries
        BY <1>2 DEF CloseProxy, Registered, TypeOK
    <2> QED BY <1>2, <2>1, DrainedTyped DEF CloseProxy, listenerVars, TypeOK
<1>3. CASE EndSession \/ RemoveSession
    BY <1>3 DEF EndSession, RemoveSession, listenerVars, tableVars, TypeOK
<1>4. CASE WriterFails \/ FinishCleanup
    BY <1>4 DEF WriterFails, FinishCleanup, listenerVars, tableVars, TypeOK
<1>5. CASE AbortTasks
    <2>1. left' \subseteq Entries
        BY <1>5 DEF AbortTasks, Registered, TypeOK
    <2>2. lpc' \in [Entries -> {"unborn", "dead"} \cup Awaiting \cup Running]
        BY <1>5 DEF AbortTasks, TypeOK
    <2>3. flagged' \in [Entries -> BOOLEAN]
        BY <1>5 DEF AbortTasks
    <2>4. /\ user' \in [Users -> {"new", "held", "piped", "closed"}]
          /\ chan' \in [Users -> {"none", "empty", "work", "err", "gone"}]
        BY <1>5 DEF AbortTasks, TypeOK
    <2> QED BY <1>5, <2>1, <2>2, <2>3, <2>4 DEF AbortTasks, tableVars, TypeOK
<1>6. ASSUME NEW e \in Entries, DrainProxy(e) PROVE TypeOK'
    BY <1>6, DrainedTyped DEF DrainProxy, listenerVars, TypeOK
<1>7. ASSUME NEW e \in Entries, NEW u \in Users, AcceptPublic(e, u) PROVE TypeOK'
    <2>1. lpc' \in [Entries -> {"unborn", "dead"} \cup Awaiting \cup Running]
        BY <1>7 DEF AcceptPublic, Goto, TypeOK, Running
    <2>2. /\ user' \in [Users -> {"new", "held", "piped", "closed"}]
          /\ chan' \in [Users -> {"none", "empty", "work", "err", "gone"}]
        BY <1>7 DEF AcceptPublic, TypeOK
    <2>3. cur' \in [Entries -> Users \cup {None}] /\ via' \in [Users -> Entries \cup {None}]
        BY <1>7 DEF AcceptPublic, TypeOK
    <2> QED BY <1>7, <2>1, <2>2, <2>3 DEF AcceptPublic, sessionVars, tableVars, TypeOK
<1>8. ASSUME NEW e \in Entries, InsertPending(e) PROVE TypeOK'
    <2>1. cur[e] \in Users
        BY <1>8 DEF InsertPending, Serving, Holding
    <2> QED BY <1>8, <2>1 DEF InsertPending, Goto, sessionVars, TypeOK, Running
<1>9. ASSUME NEW e \in Entries, InsertIndex(e) PROVE TypeOK'
    <2>1. entry[e].name \in Names \cup {None}
        BY DEF TypeOK, NoProxy
    <2>2. index' \in [Users -> Names \cup {None}]
        BY <1>9, <2>1 DEF InsertIndex, TypeOK
    <2>3. lpc' \in [Entries -> {"unborn", "dead"} \cup Awaiting \cup Running]
        BY <1>9 DEF InsertIndex, Goto, TypeOK, Running
    <2> QED BY <1>9, <2>2, <2>3 DEF InsertIndex, sessionVars, TypeOK
<1>10. ASSUME NEW e \in Entries, SendStart(e) PROVE TypeOK'
    <2>1. CASE writer
        BY <1>10, <2>1 DEF SendStart, Goto, sessionVars, tableVars, TypeOK, Awaiting
    <2>2. CASE ~writer
        BY <1>10, <2>2, DrainedTyped DEF SendStart, Goto, sessionVars, TypeOK
    <2> QED BY <2>1, <2>2
<1>11. ASSUME NEW e \in Entries, Answered(e) \/ WorkTimeout(e) PROVE TypeOK'
    BY <1>11 DEF Answered, WorkTimeout, Goto, sessionVars, tableVars, TypeOK, Running
<1>12. ASSUME NEW e \in Entries, Forget(e) PROVE TypeOK'
    BY <1>12 DEF Forget, Goto, sessionVars, TypeOK, Awaiting, Running
<1>13. ASSUME NEW e \in Entries, SpawnPump(e) PROVE TypeOK'
    <2>1. count' \in [Entries -> Nat]
        BY <1>13 DEF SpawnPump, TypeOK
    <2>2. user' \in [Users -> {"new", "held", "piped", "closed"}]
        BY <1>13 DEF SpawnPump, TypeOK
    <2>3. lpc' \in [Entries -> {"unborn", "dead"} \cup Awaiting \cup Running]
        BY <1>13 DEF SpawnPump, Goto, TypeOK, Running
    <2> QED BY <1>13, <2>1, <2>2, <2>3 DEF SpawnPump, sessionVars, tableVars, TypeOK
<1>14. ASSUME NEW e \in Entries, PushTask(e) PROVE TypeOK'
    <2>1. cur[e] \in Users
        BY <1>14 DEF PushTask, Serving
    <2> QED BY <1>14, <2>1 DEF PushTask, Goto, sessionVars, tableVars, TypeOK, Awaiting
<1>15. ASSUME NEW e \in Entries, ListenerDies(e) PROVE TypeOK'
    BY <1>15 DEF ListenerDies, sessionVars, tableVars, TypeOK
<1>16. ASSUME NEW u \in Users, PumpEnds(u) PROVE TypeOK'
    <2>1. via[u] \in Entries
        BY <1>16 DEF PumpEnds, Accepted
    <2>2. count[via[u]] - 1 \in Nat
        <3>1. u \in Pumps(via[u])
            BY <1>16 DEF PumpEnds, Pumps
        <3>2. Cardinality(Pumps(via[u])) # 0
            BY <3>1, PumpsFinite, FS_EmptySet
        <3>3. Cardinality(Pumps(via[u])) =< count[via[u]] /\ count[via[u]] \in Nat
            BY <2>1 DEF Counted, TypeOK
        <3> QED BY <3>2, <3>3, PumpsFinite
    <2> QED BY <1>16, <2>1, <2>2
            DEF PumpEnds, sessionVars, listenerVars, tableVars, TypeOK
<1>17. ASSUME NEW u \in Users, TakeIndex(u) PROVE TypeOK'
    BY <1>17 DEF TakeIndex, sessionVars, listenerVars, TypeOK
<1>18. ASSUME NEW u \in Users, Deliver(u) PROVE TypeOK'
    BY <1>18 DEF Deliver, sessionVars, listenerVars, TypeOK
<1>19. CASE UNCHANGED vars
    BY <1>19 DEF vars, sessionVars, listenerVars, tableVars, TypeOK
<1> QED
    BY <1>1, <1>2, <1>3, <1>4, <1>5, <1>6, <1>7, <1>8, <1>9, <1>10, <1>11,
       <1>12, <1>13, <1>14, <1>15, <1>16, <1>17, <1>18, <1>19
    DEF Next, SessionTask, ListenerTask

\* Nobody is flagged before the cleanup, and every accepted connection knows
\* the proxy that accepted it.
LEMMA SimpleStep == ProxyInv /\ [Next]_vars => NotFlagged' /\ Accepted'
<1> SUFFICES ASSUME TypeOK, Serving, NotFlagged, Accepted, [Next]_vars
             PROVE  NotFlagged' /\ Accepted'
    BY DEF ProxyInv
<1> USE DEF NotFlagged, Accepted
<1>1. ASSUME NEW n \in Names, NEW p \in Ports, NEW e \in Entries,
             RegisterProxy(n, p, e)
      PROVE  NotFlagged' /\ Accepted'
    BY <1>1 DEF RegisterProxy
<1>2. ASSUME NEW n \in Names, CloseProxy(n) PROVE NotFlagged' /\ Accepted'
    BY <1>2 DEF CloseProxy, listenerVars
<1>3. CASE EndSession \/ RemoveSession \/ WriterFails \/ FinishCleanup
    BY <1>3 DEF EndSession, RemoveSession, WriterFails, FinishCleanup,
                listenerVars, Early
<1>4. CASE AbortTasks
    <2>1. session' \notin Early /\ via' = via
        BY <1>4 DEF AbortTasks, Early
    <2>2. ASSUME NEW u \in Users, user'[u] # "new" PROVE user[u] # "new"
        <3>1. u \notin Dropped => user'[u] = user[u]
            BY <1>4 DEF AbortTasks
        <3>2. u \in Dropped => user[u] # "new"
            BY DEF Dropped, Serving, Holding, TypeOK
        <3> QED BY <2>2, <3>1, <3>2
    <2> QED BY <2>1, <2>2
<1>5. ASSUME NEW e \in Entries, DrainProxy(e) PROVE NotFlagged' /\ Accepted'
    BY <1>5 DEF DrainProxy, listenerVars
<1>6. ASSUME NEW e \in Entries, NEW u \in Users, AcceptPublic(e, u)
      PROVE  NotFlagged' /\ Accepted'
    BY <1>6 DEF AcceptPublic, sessionVars, TypeOK
<1>7. ASSUME NEW e \in Entries,
             \/ InsertPending(e) \/ InsertIndex(e) \/ Forget(e) \/ PushTask(e)
      PROVE  NotFlagged' /\ Accepted'
    BY <1>7 DEF InsertPending, InsertIndex, Forget, PushTask, sessionVars
<1>8. ASSUME NEW e \in Entries,
             \/ SendStart(e) \/ Answered(e) \/ WorkTimeout(e)
             \/ SpawnPump(e) \/ ListenerDies(e)
      PROVE  NotFlagged' /\ Accepted'
    <2>1. session' = session /\ flagged' = flagged /\ via' = via
        BY <1>8 DEF SendStart, Answered, WorkTimeout, SpawnPump, ListenerDies,
                    sessionVars
    <2>2. \/ user' = user
          \/ /\ lpc[e] \in Holding
             /\ \E x : user' = [user EXCEPT ![cur[e]] = x]
        BY <1>8 DEF SendStart, Answered, WorkTimeout, SpawnPump, ListenerDies,
                    Holding
    <2>3. ASSUME NEW u \in Users, user'[u] # "new" PROVE user[u] # "new"
        BY <2>2, <2>3 DEF Serving, TypeOK
    <2> QED BY <2>1, <2>3
<1>9. ASSUME NEW u \in Users, PumpEnds(u) PROVE NotFlagged' /\ Accepted'
    BY <1>9 DEF PumpEnds, sessionVars, listenerVars, TypeOK
<1>10. ASSUME NEW u \in Users, TakeIndex(u) \/ Deliver(u)
       PROVE  NotFlagged' /\ Accepted'
    BY <1>10 DEF TakeIndex, Deliver, sessionVars, listenerVars
<1>11. CASE UNCHANGED vars
    BY <1>11 DEF vars, sessionVars, listenerVars
<1> QED
    BY <1>1, <1>2, <1>3, <1>4, <1>5, <1>6, <1>7, <1>8, <1>9, <1>10, <1>11
    DEF Next, SessionTask, ListenerTask

\* An aborted task holds a connection that no other listener holds.
LEMMA DroppedFacts ==
    ASSUME TypeOK, Serving, NEW u \in Dropped
    PROVE  /\ user[u] # "new"
           /\ user[u] = "held" =>
                 \E e \in tasks \cap Entries : lpc[e] = "wait" /\ cur[e] = u
BY DEF Dropped, Serving, Holding, TypeOK

\* A step of the listener of e leaves the other listeners what they rely on.
LEMMA OthersServed ==
    ASSUME ProxyInv, NEW e \in Entries,
           lpc[e] \in Holding \cup {"forget", "push"},
           \A f \in Entries : f # e => lpc'[f] = lpc[f] /\ count'[f] = count[f],
           cur' = cur, via' = via,
           \A u \in Users : u # cur[e] => user'[u] = user[u],
           lpc'[e] \in Holding \cup {"forget", "push"} => user'[cur[e]] # "new",
           lpc'[e] \in Holding => user'[cur[e]] = "held",
           lpc'[e] = "forget" => user'[cur[e]] \in {"held", "closed"},
           lpc'[e] \in Holding \cup {"forget"} => count'[e] < MaxWork
    PROVE  Serving'
<1> SUFFICES ASSUME NEW f \in Entries
             PROVE  /\ lpc'[f] \in Holding \cup {"forget", "push"} =>
                          /\ cur'[f] \in Users
                          /\ via'[cur'[f]] = f
                          /\ user'[cur'[f]] # "new"
                    /\ lpc'[f] \in Holding => user'[cur'[f]] = "held"
                    /\ lpc'[f] = "forget" => user'[cur'[f]] \in {"held", "closed"}
                    /\ lpc'[f] \in Holding \cup {"forget"} => count'[f] < MaxWork
    BY DEF Serving
<1>0. cur[e] \in Users /\ via[cur[e]] = e
    BY DEF ProxyInv, Serving
<1>1. CASE f = e
    BY <1>0, <1>1
<1>2. CASE f # e
    <2>1. lpc[f] \in Holding \cup {"forget", "push"} => cur[f] # cur[e]
        BY <1>0, <1>2 DEF ProxyInv, Serving
    <2>2. lpc[f] \in Holding \cup {"forget", "push"} => cur[f] \in Users
        BY DEF ProxyInv, Serving
    <2> QED BY <1>2, <2>1, <2>2 DEF ProxyInv, Serving, Holding
<1> QED BY <1>1, <1>2

\* The listeners keep what they rely on.
LEMMA ServingStep == ProxyInv /\ [Next]_vars => Serving'
<1> SUFFICES ASSUME ProxyInv, TypeOK, Serving, [Next]_vars PROVE Serving'
    BY DEF ProxyInv
<1>1. ASSUME NEW n \in Names, NEW p \in Ports, NEW e \in Entries,
             RegisterProxy(n, p, e)
      PROVE  Serving'
    BY <1>1 DEF RegisterProxy, Goto, Serving, Holding, TypeOK
<1>2. CASE \/ \E n \in Names : CloseProxy(n)
           \/ EndSession \/ RemoveSession \/ WriterFails \/ FinishCleanup
           \/ \E e \in Entries : DrainProxy(e)
           \/ \E u \in Users : TakeIndex(u) \/ Deliver(u)
    BY <1>2 DEF CloseProxy, EndSession, RemoveSession, WriterFails, FinishCleanup,
                DrainProxy, TakeIndex, Deliver, listenerVars, Serving
<1>3. CASE AbortTasks
    <2> SUFFICES ASSUME NEW f \in Entries
                 PROVE  /\ lpc'[f] \in Holding \cup {"forget", "push"} =>
                              /\ cur'[f] \in Users
                              /\ via'[cur'[f]] = f
                              /\ user'[cur'[f]] # "new"
                        /\ lpc'[f] \in Holding => user'[cur'[f]] = "held"
                        /\ lpc'[f] = "forget" => user'[cur'[f]] \in {"held", "closed"}
                        /\ lpc'[f] \in Holding \cup {"forget"} => count'[f] < MaxWork
        BY DEF Serving
    <2>1. cur' = cur /\ via' = via /\ count' = count
        BY <1>3 DEF AbortTasks
    <2>2. lpc'[f] # "dead" => lpc'[f] = lpc[f]
        BY <1>3 DEF AbortTasks
    <2>3. \A u \in Users : user'[u] = IF u \in Dropped THEN "closed" ELSE user[u]
        BY <1>3 DEF AbortTasks
    <2>4. ASSUME lpc'[f] \in Holding PROVE cur[f] \notin Dropped
        <3>0. lpc'[f] = lpc[f] /\ lpc[f] \in Holding
            BY <2>2, <2>4 DEF Holding
        <3>1. user[cur[f]] = "held" /\ via[cur[f]] = f
            BY <3>0 DEF Serving
        <3>2. SUFFICES ASSUME cur[f] \in Dropped PROVE FALSE
            OBVIOUS
        <3>3. PICK e \in tasks \cap Entries : lpc[e] = "wait" /\ cur[e] = cur[f]
            BY <3>1, <3>2, DroppedFacts
        <3>4. e = f
            BY <3>1, <3>3 DEF Serving, Holding
        <3>5. lpc'[f] = "dead"
            BY <1>3, <3>3, <3>4 DEF AbortTasks, Awaiting
        <3> QED BY <2>4, <3>5 DEF Holding
    <2> QED BY <2>1, <2>2, <2>3, <2>4 DEF Serving, Holding
<1>4. ASSUME NEW e \in Entries, NEW u \in Users, AcceptPublic(e, u) PROVE Serving'
    <2>1. user[u] = "new" /\ lpc[e] = "accept"
        BY <1>4 DEF AcceptPublic
    <2>2. \A f \in Entries : lpc[f] \in Holding \cup {"forget", "push"} => cur[f] # u
        BY <2>1 DEF Serving
    <2>3. CASE count[e] >= MaxWork
        BY <1>4, <2>1, <2>2, <2>3 DEF AcceptPublic, Serving, Holding, TypeOK
    <2>4. CASE ~(count[e] >= MaxWork)
        <3>1. count[e] < MaxWork
            BY <2>4, ProxyAssumption DEF TypeOK
        <3> QED BY <1>4, <2>1, <2>2, <2>4, <3>1
                DEF AcceptPublic, Goto, Serving, Holding, TypeOK
    <2> QED BY <2>3, <2>4
<1>5. ASSUME NEW e \in Entries, InsertPending(e) \/ InsertIndex(e) PROVE Serving'
    BY <1>5 DEF InsertPending, InsertIndex, Goto, Serving, Holding, TypeOK
<1>6. ASSUME NEW e \in Entries, PushTask(e) PROVE Serving'
    BY <1>6 DEF PushTask, Goto, Serving, Holding, TypeOK
<1>7. ASSUME NEW e \in Entries, Forget(e) PROVE Serving'
    BY <1>7 DEF Forget, Goto, Serving, Holding, TypeOK
<1>8. ASSUME NEW e \in Entries,
             SendStart(e) \/ Answered(e) \/ WorkTimeout(e)
      PROVE  Serving'
    <2>1. lpc[e] \in {"send", "wait"} /\ cur[e] \in Users /\ user[cur[e]] = "held"
          /\ count[e] < MaxWork
        BY <1>8 DEF SendStart, Answered, WorkTimeout, Serving, Holding
    <2>2. /\ \A f \in Entries : f # e => lpc'[f] = lpc[f]
          /\ lpc'[e] \in {"wait", "dead", "forget"}
        BY <1>8 DEF SendStart, Answered, WorkTimeout, Goto, TypeOK
    <2>3. count' = count /\ cur' = cur /\ via' = via
        BY <1>8 DEF SendStart, Answered, WorkTimeout
    <2>4. /\ \A u \in Users : u # cur[e] => user'[u] = user[u]
          /\ user'[cur[e]] \in {"held", "closed"}
          /\ lpc'[e] = "wait" => user' = user
        BY <1>8, <2>1 DEF SendStart, Answered, WorkTimeout, Goto, TypeOK
    <2> QED BY <2>1, <2>2, <2>3, <2>4, OthersServed DEF Holding
<1>9. ASSUME NEW e \in Entries, SpawnPump(e) PROVE Serving'
    <2>1. lpc[e] = "spawn" /\ cur[e] \in Users
        BY <1>9 DEF SpawnPump, Serving, Holding
    <2>2. /\ \A f \in Entries : f # e => lpc'[f] = lpc[f] /\ count'[f] = count[f]
          /\ lpc'[e] = "push" /\ cur' = cur /\ via' = via
          /\ \A u \in Users : u # cur[e] => user'[u] = user[u]
          /\ user'[cur[e]] = "piped"
        BY <1>9, <2>1 DEF SpawnPump, Goto, TypeOK
    <2> QED BY <2>1, <2>2, OthersServed DEF Holding
<1>10. ASSUME NEW e \in Entries, ListenerDies(e) PROVE Serving'
    <2>1. CASE lpc[e] = "wait"
        <3>1. cur[e] \in Users
            BY <2>1 DEF Serving, Holding
        <3>2. /\ \A f \in Entries : f # e => lpc'[f] = lpc[f]
              /\ lpc'[e] = "dead" /\ cur' = cur /\ via' = via /\ count' = count
              /\ \A u \in Users : u # cur[e] => user'[u] = user[u]
            BY <1>10, <2>1 DEF ListenerDies, TypeOK
        <3> QED BY <2>1, <3>1, <3>2, OthersServed DEF Holding
    <2>2. CASE lpc[e] # "wait"
        BY <1>10, <2>2 DEF ListenerDies, Serving, Holding, TypeOK
    <2> QED BY <2>1, <2>2
<1>11. ASSUME NEW u \in Users, PumpEnds(u) PROVE Serving'
    <2>1. /\ via[u] \in Entries /\ user[u] = "piped"
          /\ lpc' = lpc /\ cur' = cur /\ via' = via
        BY <1>11 DEF PumpEnds, ProxyInv, Accepted, listenerVars
    <2>2. /\ \A v \in Users : user'[v] = IF v = u THEN "closed" ELSE user[v]
          /\ \A f \in Entries : count'[f] =< count[f] /\ count'[f] \in Int
          /\ \A f \in Entries : count[f] \in Nat
        BY <1>11, <2>1 DEF PumpEnds, TypeOK
    <2>3. \A f \in Entries : count[f] < MaxWork => count'[f] < MaxWork
        BY <2>2, ProxyAssumption
    <2> QED BY <2>1, <2>2, <2>3 DEF Serving, Holding
<1>12. CASE UNCHANGED vars
    BY <1>12 DEF vars, listenerVars, Serving
<1> QED
    BY <1>1, <1>2, <1>3, <1>4, <1>5, <1>6, <1>7, <1>8, <1>9, <1>10, <1>11, <1>12
    DEF Next, SessionTask, ListenerTask

\* A step that starts and ends no pump keeps the count.
LEMMA SamePumps ==
    ASSUME Counted, count' = count, session' \in Early => session \in Early,
           \A u \in Users : user'[u] = "piped" <=> user[u] = "piped",
           \A u \in Users : user[u] = "piped" => via'[u] = via[u]
    PROVE  Counted'
<1>1. \A e \in Entries : Pumps(e)' = Pumps(e)
    BY DEF Pumps
<1> QED BY <1>1 DEF Counted

\* The counter follows the pumps.
LEMMA CountedStep == ProxyInv /\ [Next]_vars => Counted'
<1> SUFFICES ASSUME ProxyInv, TypeOK, Serving, Counted, [Next]_vars PROVE Counted'
    BY DEF ProxyInv
<1>1. CASE \/ \E n \in Names, p \in Ports, e \in Entries : RegisterProxy(n, p, e)
           \/ \E n \in Names : CloseProxy(n)
           \/ EndSession \/ RemoveSession \/ WriterFails \/ FinishCleanup
           \/ \E e \in Entries : DrainProxy(e)
           \/ \E u \in Users : TakeIndex(u) \/ Deliver(u)
           \/ \E e \in Entries : \/ InsertPending(e) \/ InsertIndex(e)
                                  \/ Forget(e) \/ PushTask(e)
    <2>1. count' = count /\ user' = user /\ via' = via
          /\ (session' \in Early => session \in Early)
        BY <1>1 DEF RegisterProxy, CloseProxy, EndSession, RemoveSession, WriterFails,
                    FinishCleanup, DrainProxy, TakeIndex, Deliver, InsertPending,
                    InsertIndex, Forget, PushTask, sessionVars, Early
    <2> QED BY <2>1, SamePumps
<1>2. ASSUME NEW e \in Entries, NEW u \in Users, AcceptPublic(e, u) PROVE Counted'
    <2>1. count' = count /\ session' = session
        BY <1>2 DEF AcceptPublic, sessionVars
    <2>2. /\ user[u] = "new" /\ user'[u] \in {"held", "closed"}
          /\ \A v \in Users : v # u => user'[v] = user[v] /\ via'[v] = via[v]
        BY <1>2 DEF AcceptPublic, TypeOK
    <2> QED BY <2>1, <2>2, SamePumps
<1>3. ASSUME NEW e \in Entries,
             SendStart(e) \/ Answered(e) \/ WorkTimeout(e) \/ ListenerDies(e)
      PROVE  Counted'
    <2>1. count' = count /\ session' = session /\ via' = via
        BY <1>3 DEF SendStart, Answered, WorkTimeout, ListenerDies, sessionVars
    <2>2. \/ user' = user
          \/ lpc[e] \in Holding /\ user' = [user EXCEPT ![cur[e]] = "closed"]
        BY <1>3 DEF SendStart, Answered, WorkTimeout, ListenerDies, Holding
    <2>3. lpc[e] \in Holding => user[cur[e]] = "held"
        BY DEF Serving
    <2>4. \A u \in Users : user'[u] = "piped" <=> user[u] = "piped"
        BY <2>2, <2>3 DEF TypeOK
    <2> QED BY <2>1, <2>4, SamePumps
<1>4. CASE AbortTasks
    <2>1. count' = count /\ via' = via /\ session' \notin Early
        BY <1>4 DEF AbortTasks, Early
    <2>2. \A u \in Users : user'[u] = "piped" => user[u] = "piped"
        BY <1>4 DEF AbortTasks
    <2>3. ASSUME NEW e \in Entries
          PROVE  Cardinality(Pumps(e)') =< Cardinality(Pumps(e))
                 /\ Cardinality(Pumps(e)') \in Nat
        <3>1. Pumps(e)' \in SUBSET Pumps(e)
            BY <2>1, <2>2 DEF Pumps
        <3> QED BY <3>1, PumpsFinite, FS_Subset, FS_CardinalityType
    <2>4. ASSUME NEW e \in Entries
          PROVE  Cardinality(Pumps(e)') =< count[e] /\ Cardinality(Pumps(e)') =< MaxWork
        BY <2>3, PumpsFinite, ProxyAssumption DEF Counted, TypeOK
    <2> QED BY <2>1, <2>4 DEF Counted
<1>5. ASSUME NEW e \in Entries, SpawnPump(e) PROVE Counted'
    <2>1. /\ cur[e] \in Users /\ via[cur[e]] = e /\ user[cur[e]] = "held"
          /\ count[e] < MaxWork /\ count[e] \in Nat
        BY <1>5 DEF SpawnPump, Serving, Holding, TypeOK
    <2>2. /\ session' = session /\ via' = via
          /\ count'[e] = count[e] + 1
          /\ \A f \in Entries : f # e => count'[f] = count[f]
          /\ user' = [user EXCEPT ![cur[e]] = "piped"]
        BY <1>5 DEF SpawnPump, sessionVars, TypeOK
    <2>3. Pumps(e)' = Pumps(e) \cup {cur[e]} /\ cur[e] \notin Pumps(e)
        BY <2>1, <2>2 DEF Pumps, TypeOK
    <2>4. \A f \in Entries : f # e => Pumps(f)' = Pumps(f)
        BY <2>1, <2>2 DEF Pumps, TypeOK
    <2>5. Cardinality(Pumps(e)') = Cardinality(Pumps(e)) + 1
          /\ Cardinality(Pumps(e)) \in Nat
        BY <2>3, PumpsFinite, FS_AddElement
    <2>6. /\ session' \in Early => count'[e] = Cardinality(Pumps(e)')
          /\ Cardinality(Pumps(e)') =< count'[e]
          /\ Cardinality(Pumps(e)') =< MaxWork
        BY <2>1, <2>2, <2>5, ProxyAssumption DEF Counted
    <2>7. \A f \in Entries : f # e =>
             /\ session' \in Early => count'[f] = Cardinality(Pumps(f)')
             /\ Cardinality(Pumps(f)') =< count'[f]
             /\ Cardinality(Pumps(f)') =< MaxWork
        BY <2>2, <2>4 DEF Counted
    <2> QED BY <2>6, <2>7 DEF Counted
<1>6. ASSUME NEW u \in Users, PumpEnds(u) PROVE Counted'
    <2>0. PICK e \in Entries : e = via[u]
        BY <1>6 DEF PumpEnds, ProxyInv, Accepted
    <2>1. user[u] = "piped" /\ count[e] \in Nat
        BY <1>6 DEF PumpEnds, TypeOK
    <2>2. /\ session' = session /\ via' = via
          /\ count'[e] = count[e] - 1
          /\ \A f \in Entries : f # e => count'[f] = count[f]
          /\ user' = [user EXCEPT ![u] = "closed"]
        BY <1>6, <2>0, <2>1 DEF PumpEnds, sessionVars, TypeOK
    <2>3. Pumps(e)' = Pumps(e) \ {u} /\ u \in Pumps(e)
        BY <2>0, <2>1, <2>2 DEF Pumps, TypeOK
    <2>4. \A f \in Entries : f # e => Pumps(f)' = Pumps(f)
        BY <2>0, <2>1, <2>2 DEF Pumps, TypeOK
    <2>5. Cardinality(Pumps(e)') = Cardinality(Pumps(e)) - 1
          /\ Cardinality(Pumps(e)) \in Nat
        BY <2>3, PumpsFinite, FS_RemoveElement
    <2>6. /\ session' \in Early => count'[e] = Cardinality(Pumps(e)')
          /\ Cardinality(Pumps(e)') =< count'[e]
          /\ Cardinality(Pumps(e)') =< MaxWork
        BY <2>1, <2>2, <2>5, ProxyAssumption DEF Counted
    <2>7. \A f \in Entries : f # e =>
             /\ session' \in Early => count'[f] = Cardinality(Pumps(f)')
             /\ Cardinality(Pumps(f)') =< count'[f]
             /\ Cardinality(Pumps(f)') =< MaxWork
        BY <2>2, <2>4 DEF Counted
    <2> QED BY <2>6, <2>7 DEF Counted
<1>7. CASE UNCHANGED vars
    BY <1>7, SamePumps DEF vars, sessionVars
<1> QED
    BY <1>1, <1>2, <1>3, <1>4, <1>5, <1>6, <1>7 DEF Next, SessionTask, ListenerTask

\* An index entry is looked after by its listener as long as the session and
\* its writer run.
LEMMA IndexStep == ProxyInv /\ [Next]_vars => IndexServed'
<1> SUFFICES ASSUME ProxyInv, TypeOK, Serving, NotFlagged, IndexServed, [Next]_vars,
                    session' = "loop", writer',
                    NEW u \in Users, index'[u] # None
             PROVE  \E e \in Entries : cur'[e] = u /\ lpc'[e] \in {"send", "wait", "forget"}
    BY DEF ProxyInv, IndexServed
<1>0. ASSUME session = "loop", writer, index[u] # None
      PROVE  \E e \in Entries : cur[e] = u /\ lpc[e] \in {"send", "wait", "forget"}
    BY <1>0 DEF IndexServed
<1>1. ASSUME NEW n \in Names, NEW p \in Ports, NEW e \in Entries,
             RegisterProxy(n, p, e)
      PROVE  \E f \in Entries : cur'[f] = u /\ lpc'[f] \in {"send", "wait", "forget"}
    BY <1>0, <1>1 DEF RegisterProxy, Goto, tableVars, TypeOK
<1>2. CASE \/ \E n \in Names : CloseProxy(n)
           \/ \E e \in Entries : DrainProxy(e)
           \/ \E v \in Users : TakeIndex(v) \/ Deliver(v) \/ PumpEnds(v)
    <2>1. session = "loop" /\ writer /\ index[u] # None /\ lpc' = lpc /\ cur' = cur
        BY <1>2 DEF CloseProxy, DrainProxy, TakeIndex, Deliver, PumpEnds, Drained,
                    sessionVars, listenerVars, tableVars, TypeOK
    <2> QED BY <1>0, <2>1
<1>3. CASE EndSession \/ RemoveSession \/ WriterFails \/ FinishCleanup \/ AbortTasks
    BY <1>3 DEF EndSession, RemoveSession, WriterFails, FinishCleanup, AbortTasks
<1>4. ASSUME NEW e \in Entries, NEW v \in Users, AcceptPublic(e, v)
      PROVE  \E f \in Entries : cur'[f] = u /\ lpc'[f] \in {"send", "wait", "forget"}
    <2>1. session = "loop" /\ writer /\ index[u] # None /\ lpc[e] = "accept"
        BY <1>4 DEF AcceptPublic, sessionVars, tableVars
    <2>2. \A f \in Entries : f # e => lpc'[f] = lpc[f] /\ cur'[f] = cur[f]
        BY <1>4 DEF AcceptPublic, Goto, TypeOK
    <2> QED BY <1>0, <2>1, <2>2
<1>5. ASSUME NEW e \in Entries,
             \/ InsertPending(e) \/ SendStart(e) \/ Answered(e) \/ WorkTimeout(e)
             \/ SpawnPump(e) \/ PushTask(e)
      PROVE  \E f \in Entries : cur'[f] = u /\ lpc'[f] \in {"send", "wait", "forget"}
    <2>1. session = "loop" /\ writer /\ cur' = cur
        BY <1>5 DEF InsertPending, SendStart, Answered, WorkTimeout, SpawnPump,
                    PushTask, sessionVars
    <2>2. index[u] # None
        BY <1>5, <2>1 DEF InsertPending, SendStart, Answered, WorkTimeout, SpawnPump,
                    PushTask, tableVars
    <2>3. /\ \A f \in Entries : f # e => lpc'[f] = lpc[f]
          /\ lpc[e] \in {"send", "wait", "forget"} =>
                lpc'[e] \in {"send", "wait", "forget"}
        BY <1>5, <2>1 DEF InsertPending, SendStart, Answered, WorkTimeout, SpawnPump,
                    PushTask, Goto, TypeOK
    <2> QED BY <1>0, <2>1, <2>2, <2>3
<1>6. ASSUME NEW e \in Entries, InsertIndex(e)
      PROVE  \E f \in Entries : cur'[f] = u /\ lpc'[f] \in {"send", "wait", "forget"}
    <2>1. /\ session = "loop" /\ writer /\ cur' = cur /\ lpc[e] = "index"
          /\ lpc' = [lpc EXCEPT ![e] = "send"]
          /\ u # cur[e] => index'[u] = index[u]
        BY <1>6 DEF InsertIndex, Goto, sessionVars, TypeOK
    <2>2. CASE u = cur[e]
        BY <2>1, <2>2 DEF TypeOK
    <2>3. CASE u # cur[e]
        BY <1>0, <2>1, <2>3 DEF TypeOK
    <2> QED BY <2>2, <2>3
<1>7. ASSUME NEW e \in Entries, Forget(e)
      PROVE  \E f \in Entries : cur'[f] = u /\ lpc'[f] \in {"send", "wait", "forget"}
    <2>1. /\ session = "loop" /\ writer /\ cur' = cur /\ lpc[e] = "forget"
          /\ \A f \in Entries : f # e => lpc'[f] = lpc[f]
          /\ index' = [index EXCEPT ![cur[e]] = None]
        BY <1>7 DEF Forget, Goto, sessionVars, TypeOK
    <2>2. u # cur[e] /\ index[u] # None
        BY <2>1 DEF TypeOK
    <2> QED BY <1>0, <2>1, <2>2
<1>8. ASSUME NEW e \in Entries, ListenerDies(e) PROVE FALSE
    BY <1>8 DEF ListenerDies, sessionVars, NotFlagged, Early
<1>9. CASE UNCHANGED vars
    BY <1>0, <1>9 DEF vars, sessionVars, listenerVars, tableVars
<1> QED
    BY <1>1, <1>2, <1>3, <1>4, <1>5, <1>6, <1>7, <1>8, <1>9
    DEF Next, SessionTask, ListenerTask

\* The invariant holds at the start.
LEMMA ProxyInit == Init => ProxyInv
<1> SUFFICES ASSUME Init PROVE ProxyInv
    OBVIOUS
<1>1. TypeOK
    BY DEF Init, TypeOK
<1>2. Serving /\ NotFlagged /\ Accepted /\ IndexServed
    BY DEF Init, Serving, Holding, NotFlagged, Accepted, IndexServed
<1>3. Counted
    <2>1. \A e \in Entries : Pumps(e) = {}
        BY DEF Init, Pumps
    <2>2. Cardinality({}) = 0
        BY FS_EmptySet
    <2>3. \A e \in Entries : count[e] = 0 /\ Cardinality(Pumps(e)) = 0
        BY <2>1, <2>2 DEF Init
    <2>4. 0 =< MaxWork
        BY ProxyAssumption
    <2> QED BY <2>3, <2>4 DEF Counted
<1> QED BY <1>1, <1>2, <1>3 DEF ProxyInv

\* Listeners, pumps and index entries of a session agree in every reachable
\* state.
THEOREM ProxyInvariant == Spec => []ProxyInv
<1>1. ProxyInv /\ [Next]_vars => ProxyInv'
    BY TypeStep, SimpleStep, ServingStep, CountedStep, IndexStep DEF ProxyInv
<1> QED BY ProxyInit, <1>1, PTL DEF Spec

\* The tables and tasks keep their types; conn_count never goes below zero.
THEOREM ProxyTypeCorrect == Spec => []TypeOK
<1>1. ProxyInv => TypeOK
    BY DEF ProxyInv
<1> QED BY ProxyInvariant, <1>1, PTL

\* No proxy ever runs more pumps than max_concurrent_work, although
\* proxy_listener reads conn_count many steps before it raises it.
THEOREM WorkIsLimited == Spec => []WorkWithinLimit
<1>1. ProxyInv => WorkWithinLimit
    BY DEF ProxyInv, Counted, WorkWithinLimit, Pumps, Early
<1> QED BY ProxyInvariant, <1>1, PTL

\* While the session and its writer run, whatever is in pending_index will be
\* taken out by a listener that still handles it.
THEOREM IndexIsServed == Spec => []IndexServed
<1>1. ProxyInv => IndexServed
    BY DEF ProxyInv
<1> QED BY ProxyInvariant, <1>1, PTL
=============================================================================
