---------------------------- MODULE TunnelBroker ----------------------------
(***************************************************************************)
(* Device-level relay of the tunnel server (relay/src/server.rs            *)
(* handle_tunnel_conn / handle_tunnel_arrival, relay/src/registry.rs       *)
(* register_tunnel / pair_tunnel / wait_for_pair / cancel_tunnel), with    *)
(* the two clients that meet there: the controller (id_client.rs           *)
(* open_tunnel) and the device (id_client.rs control_loop and              *)
(* handle_tunnel_request).                                                 *)
(*                                                                         *)
(* Every lock section and every await of the handler is a step of its own, *)
(* so handlers of different connections, device arrivals and timeouts      *)
(* interleave as they do on tokio's worker threads.                        *)
(***************************************************************************)
EXTENDS Naturals, FiniteSets

CONSTANTS
    Conns,               \* controller data connections; each stands for the
                         \* conn_id that random_conn_id() draws for it
    Streams,             \* back-connections that reach the server
    Devices,             \* device ids
    None,                \* no stream, no connection
    MaxPendingTunnels,   \* cfg.max_pending_tunnels
    MaxPendingPerTarget  \* cfg.max_pending_per_target

ASSUME BrokerAssumption ==
    /\ None \notin Streams \cup Conns
    /\ IsFiniteSet(Conns)
    /\ MaxPendingTunnels \in Nat
    /\ MaxPendingPerTarget \in Nat

VARIABLES
    online,           \* device ids in Registry.devices
    target,           \* [Conns -> Devices]: TunnelConn.target_peer_id
    hpc,              \* where handle_tunnel_conn of a connection stands
    tunnels,          \* conn ids with an entry in Registry.tunnels
    slot,             \* PendingTunnel.device of such an entry
    due,              \* the pairing deadline of wait_for_pair has passed
    pair,             \* device stream wait_for_pair returned
    pendingTunnels,   \* ServerShared.pending_tunnels
    pendingByTarget,  \* ServerShared.pending_by_target
    requests,         \* TunnelRequest frames that reached their device
    strm,             \* back-connections: conn_id of the header, and fate
    ctl,              \* where open_tunnel of the controller stands
    resp              \* what the server wrote (or closed) towards it

vars == <<online, target, hpc, tunnels, slot, due, pair, pendingTunnels,
          pendingByTarget, requests, strm, ctl, resp>>

serverVars == <<tunnels, slot, pair, pendingTunnels, pendingByTarget>>
clientVars == <<requests, strm, ctl>>

-----------------------------------------------------------------------------
\* Handler steps in which the connection is in the two counters.
CountedGlobal == {"counted", "waiting", "expiring", "removed"}
CountedTarget == {"waiting", "expiring", "removed", "uncounted"}
\* Handler steps in which Registry.tunnels holds the connection.
Pending == {"inserted", "counted", "waiting", "expiring"}

HandlerSteps ==
    {"idle", "arrived", "belowCap", "admitted", "resolved", "sent",
     "removed", "uncounted", "answering", "piping", "done", "refused"}
        \cup Pending

StreamFates ==
    {"free", "arriving", "held", "piped", "closed", "unknown", "duplicate"}

TypeOK ==
    /\ online \subseteq Devices
    /\ target \in [Conns -> Devices]
    /\ hpc \in [Conns -> HandlerSteps]
    /\ tunnels \subseteq Conns
    /\ slot \in [Conns -> Streams \cup {None}]
    /\ due \in [Conns -> BOOLEAN]
    /\ pair \in [Conns -> Streams \cup {None}]
    /\ pendingTunnels \in Nat
    /\ pendingByTarget \in [Devices -> Nat]
    /\ requests \subseteq Conns
    /\ strm \in [Streams -> [conn : Conns \cup {None}, fate : StreamFates]]
    /\ ctl \in [Conns -> {"idle", "waiting", "gaveUp", "open", "failed"}]
    /\ resp \in [Conns -> {"none", "ok", "refused", "eof"}]

Init ==
    /\ online \in SUBSET Devices
    /\ target \in [Conns -> Devices]
    /\ hpc = [c \in Conns |-> "idle"]
    /\ tunnels = {}
    /\ slot = [c \in Conns |-> None]
    /\ due = [c \in Conns |-> FALSE]
    /\ pair = [c \in Conns |-> None]
    /\ pendingTunnels = 0
    /\ pendingByTarget = [d \in Devices |-> 0]
    /\ requests = {}
    /\ strm = [s \in Streams |-> [conn |-> None, fate |-> "free"]]
    /\ ctl = [c \in Conns |-> "idle"]
    /\ resp = [c \in Conns |-> "none"]

-----------------------------------------------------------------------------
(* The controller: open_tunnel.                                            *)

\* Dials, writes TunnelConn; the server dispatches the frame to its handler.
OpenTunnel(c) ==
    /\ ctl[c] = "idle"
    /\ ctl' = [ctl EXCEPT ![c] = "waiting"]
    /\ hpc' = [hpc EXCEPT ![c] = "arrived"]
    /\ UNCHANGED <<online, target, due, serverVars, requests, strm, resp>>

\* The first frame (or the EOF) is read before connect_timeout runs out.
ReadResponse(c) ==
    /\ ctl[c] = "waiting"
    /\ resp[c] # "none"
    /\ ctl' = [ctl EXCEPT ![c] = IF resp[c] = "ok" THEN "open" ELSE "failed"]
    /\ UNCHANGED <<online, target, hpc, due, serverVars, requests, strm, resp>>

\* connect_timeout (5 s) is shorter than work_conn_timeout (8 s): the
\* controller may leave while the server still waits, or with the answer
\* already on the wire.
GiveUp(c) ==
    /\ ctl[c] = "waiting"
    /\ ctl' = [ctl EXCEPT ![c] = "gaveUp"]
    /\ UNCHANGED <<online, target, hpc, due, serverVars, requests, strm, resp>>

-----------------------------------------------------------------------------
(* The server: handle_tunnel_conn, one step per lock section.              *)

Goto(c, step) == hpc' = [hpc EXCEPT ![c] = step]

\* Every early return of the handler: TunnelResp{ok: false}, audit, return.
Refuse(c) ==
    /\ Goto(c, "refused")
    /\ resp' = [resp EXCEPT ![c] = "refused"]
    /\ UNCHANGED <<online, target, due, serverVars, clientVars>>

Proceed(c, step) ==
    /\ Goto(c, step)
    /\ UNCHANGED <<online, target, due, serverVars, clientVars, resp>>

\* (1) and (2): the per-IP limiter may refuse; then the global cap is read.
CheckGlobalCap(c) ==
    /\ hpc[c] = "arrived"
    /\ \/ Refuse(c)
       \/ /\ pendingTunnels < MaxPendingTunnels
          /\ Proceed(c, "belowCap")

\* (3): the per-target cap.
CheckTargetCap(c) ==
    /\ hpc[c] = "belowCap"
    /\ IF pendingByTarget[target[c]] >= MaxPendingPerTarget
          THEN Refuse(c)
          ELSE Proceed(c, "admitted")

\* register_tunnel, first lock: clone the entry of the target.
LookupTarget(c) ==
    /\ hpc[c] = "admitted"
    /\ IF target[c] \in online THEN Proceed(c, "resolved") ELSE Refuse(c)

\* register_tunnel: queue TunnelRequest on the cloned ctrl_tx.  The frame
\* reaches the device, is lost with its control connection, or the channel
\* is already closed.
SendTunnelRequest(c) ==
    /\ hpc[c] = "resolved"
    /\ \/ /\ requests' = requests \cup {c}
          /\ Goto(c, "sent")
          /\ UNCHANGED <<online, target, due, serverVars, strm, ctl, resp>>
       \/ Proceed(c, "sent")
       \/ Refuse(c)

\* register_tunnel, second lock: the entry is inserted after the send.
InsertPending(c) ==
    /\ hpc[c] = "sent"
    /\ tunnels' = tunnels \cup {c}
    /\ slot' = [slot EXCEPT ![c] = None]
    /\ Goto(c, "inserted")
    /\ UNCHANGED <<online, target, due, pair, pendingTunnels, pendingByTarget,
                   clientVars, resp>>

CountPending(c) ==
    /\ hpc[c] = "inserted"
    /\ pendingTunnels' = pendingTunnels + 1
    /\ Goto(c, "counted")
    /\ UNCHANGED <<online, target, due, tunnels, slot, pair, pendingByTarget,
                   clientVars, resp>>

\* pending_by_target, then wait_for_pair sets its deadline.
CountTarget(c) ==
    /\ hpc[c] = "counted"
    /\ pendingByTarget' = [pendingByTarget EXCEPT ![target[c]] = @ + 1]
    /\ Goto(c, "waiting")
    /\ UNCHANGED <<online, target, due, tunnels, slot, pair, pendingTunnels,
                   clientVars, resp>>

\* work_conn_timeout elapses.
DeadlinePasses(c) ==
    /\ hpc[c] = "waiting"
    /\ ~due[c]
    /\ due' = [due EXCEPT ![c] = TRUE]
    /\ UNCHANGED <<online, target, hpc, serverVars, clientVars, resp>>

PollPairedByTarget(c) ==           \* mutant: entry matched by its device
    /\ hpc[c] = "waiting"
    /\ \E x \in tunnels :
          /\ target[x] = target[c]
          /\ slot[x] # None
          /\ pair' = [pair EXCEPT ![c] = slot[x]]
          /\ strm' = [strm EXCEPT ![slot[x]].fate = "piped"]
          /\ tunnels' = tunnels \ {x}
          /\ slot' = [slot EXCEPT ![x] = None]
    /\ Goto(c, "removed")
    /\ UNCHANGED <<online, target, due, pendingTunnels, pendingByTarget,
                   requests, ctl, resp>>

\* wait_for_pair, a poll that finds both ends (even after the deadline).
PollPaired(c) ==
    /\ hpc[c] = "waiting"
    /\ c \in tunnels
    /\ slot[c] # None
    /\ pair' = [pair EXCEPT ![c] = slot[c]]
    /\ strm' = [strm EXCEPT ![slot[c]].fate = "piped"]
    /\ tunnels' = tunnels \ {c}
    /\ slot' = [slot EXCEPT ![c] = None]
    /\ Goto(c, "removed")
    /\ UNCHANGED <<online, target, due, pendingTunnels, pendingByTarget,
                   requests, ctl, resp>>

PollExpiredIfGone(c) ==            \* mutant: deadline tested on a gone entry
    /\ hpc[c] = "waiting"
    /\ c \notin tunnels
    /\ due[c]
    /\ Proceed(c, "expiring")

\* wait_for_pair, a poll that finds no device after the deadline; the lock is
\* released before cancel_tunnel takes it again.
PollExpired(c) ==
    /\ hpc[c] = "waiting"
    /\ slot[c] = None
    /\ due[c]
    /\ Proceed(c, "expiring")

CancelTunnelKeepsEntry(c) ==       \* mutant: return None without cleaning
    /\ hpc[c] = "expiring"
    /\ resp' = [resp EXCEPT ![c] = "eof"]
    /\ Goto(c, "removed")
    /\ UNCHANGED <<online, target, due, serverVars, clientVars>>

\* cancel_tunnel: the entry goes, and every stream in it is dropped (closed).
CancelTunnel(c) ==
    /\ hpc[c] = "expiring"
    /\ tunnels' = tunnels \ {c}
    /\ slot' = [slot EXCEPT ![c] = None]
    /\ strm' = IF slot[c] = None THEN strm
               ELSE [strm EXCEPT ![slot[c]].fate = "closed"]
    /\ resp' = [resp EXCEPT ![c] = "eof"]
    /\ Goto(c, "removed")
    /\ UNCHANGED <<online, target, due, pair, pendingTunnels, pendingByTarget,
                   requests, ctl>>

UncountPendingIfPaired(c) ==       \* mutant: the timeout path skips it
    /\ hpc[c] = "removed"
    /\ pendingTunnels' = IF pair[c] = None THEN pendingTunnels
                         ELSE pendingTunnels - 1
    /\ Goto(c, "uncounted")
    /\ UNCHANGED <<online, target, due, tunnels, slot, pair, pendingByTarget,
                   clientVars, resp>>

UncountPending(c) ==
    /\ hpc[c] = "removed"
    /\ pendingTunnels' = pendingTunnels - 1
    /\ Goto(c, "uncounted")
    /\ UNCHANGED <<online, target, due, tunnels, slot, pair, pendingByTarget,
                   clientVars, resp>>

UncountTargetAnswers(c) ==         \* mutant: answers ok without a pair
    /\ hpc[c] = "uncounted"
    /\ pendingByTarget' = [pendingByTarget EXCEPT ![target[c]] = @ - 1]
    /\ Goto(c, "answering")
    /\ UNCHANGED <<online, target, due, tunnels, slot, pair, pendingTunnels,
                   clientVars, resp>>

UncountTarget(c) ==
    /\ hpc[c] = "uncounted"
    /\ pendingByTarget' = [pendingByTarget EXCEPT ![target[c]] = @ - 1]
    /\ Goto(c, IF pair[c] = None THEN "done" ELSE "answering")
    /\ UNCHANGED <<online, target, due, tunnels, slot, pair, pendingTunnels,
                   clientVars, resp>>

ClosePair(c) ==
    /\ strm' = [strm EXCEPT ![pair[c]].fate = "closed"]
    /\ Goto(c, "done")

\* TunnelResp{ok: true}; a controller that left may make the write fail, and
\* then both streams are dropped.
Answer(c) ==
    /\ hpc[c] = "answering"
    /\ \/ /\ resp' = [resp EXCEPT ![c] = "ok"]
          /\ Goto(c, "piping")
          /\ UNCHANGED strm
       \/ /\ ctl[c] = "gaveUp"
          /\ resp' = [resp EXCEPT ![c] = "eof"]
          /\ ClosePair(c)
    /\ UNCHANGED <<online, target, due, serverVars, requests, ctl>>

\* copy_bidirectional ends: either end closed or failed.
PipeEnds(c) ==
    /\ hpc[c] = "piping"
    /\ ClosePair(c)
    /\ UNCHANGED <<online, target, due, serverVars, requests, ctl, resp>>

Handler(c) ==
    \/ CheckGlobalCap(c) \/ CheckTargetCap(c) \/ LookupTarget(c)
    \/ SendTunnelRequest(c) \/ InsertPending(c)
    \/ CountPending(c) \/ CountTarget(c)
    \/ PollPaired(c) \/ PollExpired(c) \/ CancelTunnel(c)
    \/ UncountPending(c) \/ UncountTarget(c) \/ Answer(c)

-----------------------------------------------------------------------------
(* The device, and connections that present a TunnelHeader.                *)

\* handle_tunnel_request: dial back and write TunnelHeader{conn_id}.
BackConnect(s, c) ==
    /\ c \in requests
    /\ strm[s].fate = "free"
    /\ requests' = requests \ {c}
    /\ strm' = [strm EXCEPT ![s] = [conn |-> c, fate |-> "arriving"]]
    /\ UNCHANGED <<online, target, hpc, due, serverVars, ctl, resp>>

\* The dial times out or is refused, or the device crashes: no retry.
BackConnectFails(c) ==
    /\ c \in requests
    /\ requests' = requests \ {c}
    /\ UNCHANGED <<online, target, hpc, due, serverVars, strm, ctl, resp>>

\* Headers are not authenticated: one more connection may name the same
\* conn_id (the "duplicate conn_id" branch and its test).
RepeatHeader(s, c) ==
    /\ strm[s].fate = "free"
    /\ hpc[c] \in {"counted", "waiting", "expiring", "piping", "done"}
    /\ strm' = [strm EXCEPT ![s] = [conn |-> c, fate |-> "arriving"]]
    /\ UNCHANGED <<online, target, hpc, due, serverVars, requests, ctl, resp>>

\* handle_tunnel_arrival / pair_tunnel.
PairTunnel(s) ==
    LET c == strm[s].conn IN
    /\ strm[s].fate = "arriving"
    /\ IF c \notin tunnels
          THEN /\ strm' = [strm EXCEPT ![s].fate = "unknown"]
               /\ UNCHANGED slot
          ELSE IF slot[c] # None
          THEN /\ strm' = [strm EXCEPT ![s].fate = "duplicate"]
               /\ UNCHANGED slot
          ELSE /\ slot' = [slot EXCEPT ![c] = s]
               /\ strm' = [strm EXCEPT ![s].fate = "held"]
    /\ UNCHANGED <<online, target, hpc, due, tunnels, pair, pendingTunnels,
                   pendingByTarget, requests, ctl, resp>>

\* Registration and disconnection of devices (module RelaySessions).
DeviceComesOrGoes(d) ==
    /\ online' = IF d \in online THEN online \ {d} ELSE online \cup {d}
    /\ UNCHANGED <<target, hpc, due, serverVars, clientVars, resp>>

-----------------------------------------------------------------------------
Controller(c) == OpenTunnel(c) \/ ReadResponse(c) \/ GiveUp(c)

Next ==
    \/ \E c \in Conns :
          \/ Controller(c)
          \/ Handler(c)
          \/ DeadlinePasses(c)
          \/ PipeEnds(c)
          \/ BackConnectFails(c)
    \/ \E s \in Streams : \/ PairTunnel(s)
                          \/ \E c \in Conns : BackConnect(s, c) \/ RepeatHeader(s, c)
    \/ \E d \in Devices : DeviceComesOrGoes(d)

\* tokio runs every ready task, and time passes.
Fairness ==
    /\ \A c \in Conns : WF_vars(Handler(c)) /\ WF_vars(DeadlinePasses(c))
    /\ \A s \in Streams : WF_vars(PairTunnel(s))

Spec == Init /\ [][Next]_vars /\ Fairness

-----------------------------------------------------------------------------
(* Properties.                                                             *)

\* pending_tunnels and pending_by_target count exactly the handlers between
\* their increment and their decrement: no path loses a decrement, none
\* decrements twice, and the unsigned subtractions never underflow.
CountersExact ==
    /\ pendingTunnels = Cardinality({c \in Conns : hpc[c] \in CountedGlobal})
    /\ \A d \in Devices :
          pendingByTarget[d] =
             Cardinality({c \in Conns : target[c] = d /\ hpc[c] \in CountedTarget})

\* registry.tunnels holds a connection exactly while its handler is between
\* insertion and the poll or the cancel that removes it: wait_for_pair leaves
\* no residual entry, and no handler polls an entry that is gone.
NoResidualEntry == tunnels = {c \in Conns : hpc[c] \in Pending}

\* A device stream the server accepted is in exactly one place: the entry of
\* the conn_id its header named, or the pair its handler took from there.  So
\* no stream is piped to two controllers or to another conn_id's controller,
\* and none is forgotten open.
StreamOwned ==
    \A s \in Streams, c \in Conns :
       /\ (slot[c] = s) <=> (strm[s].fate = "held" /\ strm[s].conn = c)
       /\ (pair[c] = s /\ hpc[c] # "done")
             <=> (strm[s].fate = "piped" /\ strm[s].conn = c)

\* No path of wait_for_pair, cancel_tunnel or pair_tunnel leaves a table entry
\* without its handler, or an accepted stream without its one owner.
TableExact == NoResidualEntry /\ StreamOwned

\* A controller for which open_tunnel returned a stream was paired with a
\* back-connection of its own conn_id, whatever timed out in between.
OpenMeansPaired ==
    \A c \in Conns : ctl[c] = "open" =>
        /\ pair[c] # None
        /\ strm[pair[c]].conn = c
        /\ hpc[c] \in {"piping", "done"}

\* handle_tunnel_conn always comes to an end or to piping: no handler waits
\* for ever for a device that never calls back.
HandlerEnds ==
    \A c \in Conns :
        hpc[c] = "arrived" ~> hpc[c] \in {"refused", "piping", "done"}

-----------------------------------------------------------------------------
(* Refinement of TunnelPairing.                                            *)

StageOf(c) ==
    CASE hpc[c] = "idle" -> "none"
      [] hpc[c] = "refused" -> "refused"
      [] hpc[c] \in {"removed", "uncounted", "answering", "piping", "done"} ->
            IF pair[c] = None THEN "expired"
            ELSE IF hpc[c] = "done" THEN "closed" ELSE "paired"
      [] OTHER -> "asked"

Pairing == INSTANCE TunnelPairing
    WITH stage <- [c \in Conns |-> StageOf(c)],
         peer <- pair,
         names <- [s \in Streams |-> strm[s].conn]

\* Behind its polls, its two locks per timeout and its early answers, the
\* broker keeps the promise of TunnelPairing.
ImplementsPairing == Pairing!PairingSpec
=============================================================================
