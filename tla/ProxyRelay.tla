---------------------------- MODULE ProxyRelay ----------------------------
(***************************************************************************)
(* The reverse proxies of one control session: registration and closing,   *)
(* the listener task of each proxy, the pairing of a public connection     *)
(* with the work connection the client dials for it, the pump tasks and    *)
(* the cleanup of the session (relay/src/server.rs register_proxy,         *)
(* close_proxy, proxy_listener, pump_work, handle_work_arrival,            *)
(* cleanup_session, drain_pending).                                        *)
(*                                                                         *)
(* The tasks run on several threads: one action per lock section.  A task  *)
(* that is aborted while it waits is gone at once; one that is running     *)
(* goes on to its next await, and past it when what it awaits is ready.    *)
(* The conn_id of a public connection is fresh, so the connection itself   *)
(* stands for it.                                                          *)
(***************************************************************************)
EXTENDS Naturals, FiniteSets

CONSTANTS
    Names,      \* proxy names
    Ports,      \* public ports
    Entries,    \* ProxyEntry objects, each with its listener task
    Users,      \* public connections
    None,
    MaxProxies, \* cfg.max_proxies
    MaxWork     \* cfg.max_concurrent_work

ASSUME ProxyAssumption ==
    /\ IsFiniteSet(Users)
    /\ Entries \cap Users = {}
    /\ None \notin Names \cup Ports \cup Entries \cup Users
    /\ MaxProxies \in Nat
    /\ MaxWork \in Nat

VARIABLES
    session,    \* where the session task stands
    writer,     \* its writer task takes frames from control_tx
    left,       \* proxies its cleanup has still to drain
    proxies,    \* ClientSession.proxies: [Names -> Entries or None]
    tasks,      \* ClientSession.tasks: listeners and pumps
    entry,      \* name and port of a ProxyEntry
    lpc,        \* where the listener task stands
    flagged,    \* aborted while it was running
    cur,        \* the public connection the listener works on
    pending,    \* ProxyEntry.pending: set of conn_ids
    count,      \* ProxyEntry.conn_count
    index,      \* pending_index: [Users -> Names or None]
    chan,       \* the oneshot of a conn_id
    user,       \* the public connection
    via,        \* the proxy that accepted it
    asked,      \* StartWorkConn was queued for the connection
    arriving    \* conn_ids whose work connection is being handled

sessionVars  == <<session, writer, left, proxies>>
listenerVars == <<entry, lpc, flagged, cur>>
tableVars    == <<pending, index>>
vars == <<sessionVars, tasks, listenerVars, tableVars, count, chan, user, via,
          asked, arriving>>

Awaiting == {"accept", "wait"}
Running  == {"insert", "index", "send", "forget", "spawn", "push"}
Live(e)  == lpc[e] \in Awaiting \cup Running
NoProxy  == [name |-> None, port |-> None]

TypeOK ==
    /\ session \in {"loop", "remove", "abort", "drain", "over"}
    /\ writer \in BOOLEAN
    /\ left \subseteq Entries
    /\ proxies \in [Names -> Entries \cup {None}]
    /\ tasks \subseteq Entries \cup Users
    /\ entry \in [Entries -> [name : Names, port : Ports] \cup {NoProxy}]
    /\ lpc \in [Entries -> {"unborn", "dead"} \cup Awaiting \cup Running]
    /\ flagged \in [Entries -> BOOLEAN]
    /\ cur \in [Entries -> Users \cup {None}]
    /\ pending \in [Entries -> SUBSET Users]
    /\ count \in [Entries -> Nat]
    /\ index \in [Users -> Names \cup {None}]
    /\ chan \in [Users -> {"none", "empty", "work", "err", "gone"}]
    /\ user \in [Users -> {"new", "held", "piped", "closed"}]
    /\ via \in [Users -> Entries \cup {None}]
    /\ asked \in [Users -> BOOLEAN]
    /\ arriving \subseteq Users

Init ==
    /\ session = "loop" /\ writer = TRUE /\ left = {}
    /\ proxies = [n \in Names |-> None]
    /\ tasks = {}
    /\ entry = [e \in Entries |-> NoProxy]
    /\ lpc = [e \in Entries |-> "unborn"]
    /\ flagged = [e \in Entries |-> FALSE]
    /\ cur = [e \in Entries |-> None]
    /\ pending = [e \in Entries |-> {}]
    /\ count = [e \in Entries |-> 0]
    /\ index = [u \in Users |-> None]
    /\ chan = [u \in Users |-> "none"]
    /\ user = [u \in Users |-> "new"]
    /\ via = [u \in Users |-> None]
    /\ asked = [u \in Users |-> FALSE]
    /\ arriving = {}

Goto(e, step) == lpc' = [lpc EXCEPT ![e] = step]
Registered == {n \in Names : proxies[n] # None}

\* drain_pending: Err to every receiver that is still there.
Drained(e) ==
    /\ pending' = [pending EXCEPT ![e] = {}]
    /\ index' = [u \in Users |-> IF u \in pending[e] THEN None ELSE index[u]]
    /\ chan' = [u \in Users |-> IF u \in pending[e] /\ chan[u] = "empty"
                                   THEN "err" ELSE chan[u]]

-----------------------------------------------------------------------------
(* The session task.                                                       *)

\* Mutant of RegisterProxy: the listener is not recorded.
RegisterProxyDetached(n, p, e) ==
    /\ session = "loop"
    /\ lpc[e] = "unborn"
    /\ n \in Registered \/ Cardinality(Registered) < MaxProxies
    /\ ~\E f \in Entries : Live(f) /\ entry[f].port = p
    /\ proxies' = [proxies EXCEPT ![n] = e]
    /\ entry' = [entry EXCEPT ![e] = [name |-> n, port |-> p]]
    /\ Goto(e, "accept")
    /\ UNCHANGED <<session, writer, left, tasks, flagged, cur, tableVars, count, chan,
                   user, via, asked, arriving>>

\* A proxy above the limit, or a port that is still bound, is refused and
\* changes nothing.  The port is bound before the entry of the same name is
\* taken out of the table; close_proxy then looks that name up and finds
\* nothing, so the old entry is neither drained nor its listener stopped.
RegisterProxy(n, p, e) ==
    /\ session = "loop"
    /\ lpc[e] = "unborn"
    /\ n \in Registered \/ Cardinality(Registered) < MaxProxies
    /\ ~\E f \in Entries : Live(f) /\ entry[f].port = p
    /\ proxies' = [proxies EXCEPT ![n] = e]
    /\ entry' = [entry EXCEPT ![e] = [name |-> n, port |-> p]]
    /\ Goto(e, "accept")
    /\ tasks' = tasks \cup {e}
    /\ UNCHANGED <<session, writer, left, flagged, cur, tableVars, count, chan, user,
                   via, asked, arriving>>

\* CloseProxy: the listener task is left alone.
CloseProxy(n) ==
    /\ session = "loop"
    /\ n \in Registered
    /\ proxies' = [proxies EXCEPT ![n] = None]
    /\ Drained(proxies[n])
    /\ UNCHANGED <<session, writer, left, tasks, listenerVars, count, user, via, asked, arriving>>

\* EOF, Logout, heartbeat timeout or shutdown.
EndSession ==
    /\ session = "loop"
    /\ session' = "remove"
    /\ UNCHANGED <<writer, left, proxies, tasks, listenerVars, tableVars, count, chan, user,
                   via, asked, arriving>>

\* Out of the session map.
RemoveSession ==
    /\ session = "remove"
    /\ session' = "abort"
    /\ UNCHANGED <<writer, left, proxies, tasks, listenerVars, tableVars, count, chan, user,
                   via, asked, arriving>>

\* The connections of the tasks that abort stops at once.
Dropped == {u \in Users : \/ u \in tasks /\ user[u] = "piped"
                          \/ \E e \in tasks \cap Entries : lpc[e] = "wait" /\ cur[e] = u}

AbortTasks ==
    /\ session = "abort"
    /\ session' = "drain"
    /\ left' = {proxies[n] : n \in Registered}
    /\ tasks' = {}
    /\ lpc' = [e \in Entries |-> IF e \in tasks /\ lpc[e] \in Awaiting
                                    THEN "dead" ELSE lpc[e]]
    /\ flagged' = [e \in Entries |-> e \in tasks /\ lpc[e] \in Running]
    /\ user' = [u \in Users |-> IF u \in Dropped THEN "closed" ELSE user[u]]
    /\ chan' = [u \in Users |-> IF u \in Dropped THEN "gone" ELSE chan[u]]
    /\ UNCHANGED <<writer, proxies, entry, cur, tableVars, count, via, asked, arriving>>

DrainProxy(e) ==
    /\ session = "drain"
    /\ e \in left
    /\ left' = left \ {e}
    /\ Drained(e)
    /\ UNCHANGED <<session, writer, proxies, tasks, listenerVars, count, user, via, asked, arriving>>

\* The writer task is aborted: the control channel is closed.
FinishCleanup ==
    /\ session = "drain" /\ left = {}
    /\ session' = "over"
    /\ writer' = FALSE
    /\ UNCHANGED <<left, proxies, tasks, listenerVars, tableVars, count, chan,
                   user, via, asked, arriving>>

\* A write to the client fails before the session ends.
WriterFails ==
    /\ writer
    /\ writer' = FALSE
    /\ UNCHANGED <<session, left, proxies, tasks, listenerVars, tableVars,
                   count, chan, user, via, asked, arriving>>

-----------------------------------------------------------------------------
(* The listener task of a proxy.                                           *)

\* Mutant of AcceptPublic: off by one.
AcceptPublicOneMore(e, u) ==
    /\ lpc[e] = "accept"
    /\ user[u] = "new"
    /\ IF count[e] > MaxWork
          THEN user' = [user EXCEPT ![u] = "closed"] /\ UNCHANGED <<lpc, cur, chan>>
          ELSE /\ user' = [user EXCEPT ![u] = "held"]
               /\ cur' = [cur EXCEPT ![e] = u]
               /\ chan' = [chan EXCEPT ![u] = "empty"]
               /\ Goto(e, "insert")
    /\ via' = [via EXCEPT ![u] = e]
    /\ UNCHANGED <<sessionVars, tasks, entry, flagged, tableVars, count, asked, arriving>>

AcceptPublic(e, u) ==
    /\ lpc[e] = "accept"
    /\ user[u] = "new"
    /\ IF count[e] >= MaxWork
          THEN user' = [user EXCEPT ![u] = "closed"] /\ UNCHANGED <<lpc, cur, chan>>
          ELSE /\ user' = [user EXCEPT ![u] = "held"]
               /\ cur' = [cur EXCEPT ![e] = u]
               /\ chan' = [chan EXCEPT ![u] = "empty"]
               /\ Goto(e, "insert")
    /\ via' = [via EXCEPT ![u] = e]
    /\ UNCHANGED <<sessionVars, tasks, entry, flagged, tableVars, count, asked, arriving>>

InsertPending(e) ==
    /\ lpc[e] = "insert"
    /\ pending' = [pending EXCEPT ![e] = @ \cup {cur[e]}]
    /\ Goto(e, "index")
    /\ UNCHANGED <<sessionVars, tasks, entry, flagged, cur, index, count, chan, user,
                   via, asked, arriving>>

InsertIndex(e) ==
    /\ lpc[e] = "index"
    /\ index' = [index EXCEPT ![cur[e]] = entry[e].name]
    /\ Goto(e, "send")
    /\ UNCHANGED <<sessionVars, tasks, entry, flagged, cur, pending, count, chan, user,
                   via, asked, arriving>>

\* StartWorkConn is queued; once the writer is gone the listener gives up.
SendStart(e) ==
    /\ lpc[e] = "send"
    /\ \/ /\ writer
          /\ asked' = [asked EXCEPT ![cur[e]] = TRUE]
          /\ Goto(e, "wait")
          /\ UNCHANGED <<tableVars, chan, user>>
       \/ /\ ~writer
          /\ Drained(e)
          /\ user' = [user EXCEPT ![cur[e]] = "closed"]
          /\ Goto(e, "dead")
          /\ UNCHANGED asked
    /\ UNCHANGED <<sessionVars, tasks, entry, flagged, cur, count, via, arriving>>

\* Mutant of Answered: the Err of a drained proxy is not taken.
AnsweredByWork(e) ==
    /\ lpc[e] = "wait"
    /\ chan[cur[e]] = "work"
    /\ chan' = [chan EXCEPT ![cur[e]] = "gone"]
    /\ Goto(e, "forget")
    /\ UNCHANGED <<sessionVars, tasks, entry, flagged, cur, tableVars, count, user, via, asked,
                   arriving>>

\* The oneshot is ready, and its receiver consumed.
Answered(e) ==
    /\ lpc[e] = "wait"
    /\ \/ chan[cur[e]] = "work" /\ UNCHANGED user
       \/ chan[cur[e]] = "err" /\ user' = [user EXCEPT ![cur[e]] = "closed"]
    /\ chan' = [chan EXCEPT ![cur[e]] = "gone"]
    /\ Goto(e, "forget")
    /\ UNCHANGED <<sessionVars, tasks, entry, flagged, cur, tableVars, count, via, asked, arriving>>

\* work_conn_timeout.
WorkTimeout(e) ==
    /\ lpc[e] = "wait"
    /\ chan[cur[e]] = "empty"
    /\ ~flagged[e]
    /\ chan' = [chan EXCEPT ![cur[e]] = "gone"]
    /\ user' = [user EXCEPT ![cur[e]] = "closed"]
    /\ Goto(e, "forget")
    /\ UNCHANGED <<sessionVars, tasks, entry, flagged, cur, tableVars, count, via, asked, arriving>>

\* Mutant of Forget: the entry stays in the index.
ForgetPending(e) ==
    /\ lpc[e] = "forget"
    /\ pending' = [pending EXCEPT ![e] = @ \ {cur[e]}]
    /\ Goto(e, IF user[cur[e]] = "held" THEN "spawn" ELSE "accept")
    /\ UNCHANGED <<sessionVars, tasks, entry, flagged, cur, index, count, chan, user,
                   via, asked, arriving>>

\* The conn_id is removed from both tables, whatever the outcome.
Forget(e) ==
    /\ lpc[e] = "forget"
    /\ pending' = [pending EXCEPT ![e] = @ \ {cur[e]}]
    /\ index' = [index EXCEPT ![cur[e]] = None]
    /\ Goto(e, IF user[cur[e]] = "held" THEN "spawn" ELSE "accept")
    /\ UNCHANGED <<sessionVars, tasks, entry, flagged, cur, count, chan, user,
                   via, asked, arriving>>

SpawnPump(e) ==
    /\ lpc[e] = "spawn"
    /\ count' = [count EXCEPT ![e] = @ + 1]
    /\ user' = [user EXCEPT ![cur[e]] = "piped"]
    /\ Goto(e, "push")
    /\ UNCHANGED <<sessionVars, tasks, entry, flagged, cur, tableVars, chan, via, asked, arriving>>

PushTask(e) ==
    /\ lpc[e] = "push"
    /\ tasks' = {t \in tasks : IF t \in Users THEN user[t] = "piped" ELSE Live(t)}
                 \cup {cur[e]}
    /\ Goto(e, "accept")
    /\ UNCHANGED <<sessionVars, entry, flagged, cur, tableVars, count, chan, user,
                   via, asked, arriving>>

\* A listener that was aborted while running reaches an await.
ListenerDies(e) ==
    /\ flagged[e]
    /\ lpc[e] \in Awaiting
    /\ lpc' = [lpc EXCEPT ![e] = "dead"]
    /\ IF lpc[e] = "wait"
          THEN /\ user' = [user EXCEPT ![cur[e]] = "closed"]
               /\ chan' = [chan EXCEPT ![cur[e]] = "gone"]
          ELSE UNCHANGED <<user, chan>>
    /\ UNCHANGED <<sessionVars, tasks, entry, flagged, cur, tableVars, count, via, asked, arriving>>

\* pump_work: either side closes.
PumpEnds(u) ==
    /\ user[u] = "piped"
    /\ user' = [user EXCEPT ![u] = "closed"]
    /\ count' = [count EXCEPT ![via[u]] = @ - 1]
    /\ UNCHANGED <<sessionVars, tasks, listenerVars, tableVars, chan, via, asked, arriving>>

-----------------------------------------------------------------------------
(* handle_work_arrival: a work connection of the client names a conn_id.   *)

\* A conn_id the server has sent, with the proxy name of that request or any
\* other; the entry is taken out of the index before the name is compared.
TakeIndex(u) ==
    /\ asked[u]
    /\ u \notin arriving
    /\ index[u] # None
    /\ index' = [index EXCEPT ![u] = None]
    /\ arriving' \in {arriving \cup {u}, arriving}
    /\ UNCHANGED <<sessionVars, tasks, listenerVars, pending, count, chan, user, via, asked>>

\* The session must be in the map, the name in its table, and the conn_id
\* pending in the proxy that has the name now; a receiver that is gone drops
\* the stream.
Deliver(u) ==
    LET e == proxies[entry[via[u]].name] IN
    /\ u \in arriving
    /\ arriving' = arriving \ {u}
    /\ IF session \in {"loop", "remove"} /\ e # None /\ u \in pending[e]
          THEN /\ pending' = [pending EXCEPT ![e] = @ \ {u}]
               /\ chan' = [chan EXCEPT ![u] = IF @ = "empty" THEN "work" ELSE @]
          ELSE UNCHANGED <<pending, chan>>
    /\ UNCHANGED <<sessionVars, tasks, listenerVars, index, count, user, via, asked>>

-----------------------------------------------------------------------------
SessionTask ==
    \/ RemoveSession \/ AbortTasks \/ FinishCleanup
    \/ \E e \in Entries : DrainProxy(e)

ListenerTask(e) ==
    \/ InsertPending(e) \/ InsertIndex(e) \/ SendStart(e) \/ Answered(e)
    \/ WorkTimeout(e) \/ Forget(e)
    \/ SpawnPump(e) \/ PushTask(e) \/ ListenerDies(e)

Next ==
    \/ \E n \in Names, p \in Ports, e \in Entries : RegisterProxy(n, p, e)
    \/ \E n \in Names : CloseProxy(n)
    \/ EndSession \/ WriterFails \/ SessionTask
    \/ \E e \in Entries : ListenerTask(e) \/ \E u \in Users : AcceptPublic(e, u)
    \/ \E u \in Users : PumpEnds(u) \/ TakeIndex(u) \/ Deliver(u)

\* Every ready task runs, and the deadline of a work connection passes.
Fairness ==
    /\ WF_vars(SessionTask)
    /\ \A e \in Entries : WF_vars(ListenerTask(e))
    /\ \A u \in Users : WF_vars(Deliver(u))

Spec == Init /\ [][Next]_vars /\ Fairness

-----------------------------------------------------------------------------
(* Properties.                                                             *)

\* conn_count is the number of pumps of the proxy, up to the end of the
\* session, and the check before StartWorkConn keeps it within
\* max_concurrent_work although it is raised many steps later.
WorkWithinLimit ==
    \A e \in Entries :
       LET pumps == {u \in Users : user[u] = "piped" /\ via[u] = e} IN
       /\ session \in {"loop", "remove", "abort"} => count[e] = Cardinality(pumps)
       /\ Cardinality(pumps) <= MaxWork

\* While the session and its writer run, a conn_id is in the index only as long as the
\* listener that queued it still handles its connection, and will remove it.
IndexServed ==
    \A u \in Users :
       session = "loop" /\ writer /\ index[u] # None
          => \E e \in Entries : cur[e] = u /\ lpc[e] \in {"send", "wait", "forget"}

\* A public connection is never left hanging: it is piped or closed,
\* whatever the client, a CloseProxy or the end of the session does.
HeldUserSettles ==
    \A u \in Users : user[u] = "held" ~> user[u] \in {"piped", "closed"}

\* After the cleanup of the session no listener keeps a public port.
SessionEndFreesPorts ==
    session = "over" ~> \A e \in Entries : ~Live(e)
=============================================================================
