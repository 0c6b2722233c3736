--------------------------- MODULE RelaySessions ---------------------------
(***************************************************************************)
(* Control connections of the tunnel server: the accept loop and its       *)
(* pre-auth slots, login, device registration with the challenge round,    *)
(* the session loop with its heartbeat, cleanup, and the sweep of the      *)
(* online table (relay/src/server.rs run, handle_incoming, start_session,  *)
(* run_session, cleanup_session; relay/src/registry.rs).                   *)
(*                                                                         *)
(* One action per lock section or await of the task that serves a          *)
(* connection; the network may fall silent without an EOF, and a device    *)
(* may connect again before the server has noticed that it left.           *)
(***************************************************************************)
EXTENDS Naturals, FiniteSets

CONSTANTS
    Conns,          \* TCP connections from clients, in no order
    Ids,            \* device ids
    Keys,           \* device public keys
    Ips,            \* source addresses
    None,           \* no device
    MaxSessions,    \* cfg.max_sessions
    PreauthPerIp,   \* cfg.preauth_per_ip
    Timeout         \* cfg.heartbeat_timeout, in ticks of the clock

ASSUME SessionsAssumption ==
    /\ IsFiniteSet(Conns)
    /\ None \notin Ids
    /\ MaxSessions \in Nat
    /\ PreauthPerIp \in Nat \ {0}    \* 0 is refused at start-up
    /\ Timeout \in Nat \ {0}

VARIABLES
    peer,       \* [Conns -> [ip, id, key]]: what the client presents
    link,       \* "up"; "silent": peer gone or cut off, no EOF; "eof"
    cpc,        \* where the server task of the connection stands
    sessions,   \* ServerShared.sessions
    deviceOf,   \* ClientSession.device_id
    devices,    \* Registry.devices: [Ids -> entry or NoEntry]
    preauth,    \* PreAuthLimiter.counts
    idle,       \* elapsed last_activity of a session
    checked     \* the session has run a heartbeat tick since the clock moved

vars == <<peer, link, cpc, sessions, deviceOf, devices, preauth, idle, checked>>

Ages == 0 .. Timeout + 1
Older(age) == IF age > Timeout THEN age ELSE age + 1
NoEntry == [key |-> None, ctrl |-> None, seen |-> 0]
Entries == [key : Keys, ctrl : Conns, seen : Ages]
Online(d) == devices[d] # NoEntry

\* The task of the connection runs handle_incoming.
Serving == {"first", "data", "start", "admitted", "challenged", "proved",
            "verified", "rejecting", "running", "cleanup", "unregister", "leaving"}
\* ... and its session is in the session map.
InMap == {"challenged", "proved", "verified", "rejecting", "running", "cleanup"}

TypeOK ==
    /\ peer \in [Conns -> [ip : Ips, id : Ids \cup {None}, key : Keys]]
    /\ link \in [Conns -> {"up", "silent", "eof"}]
    /\ cpc \in [Conns -> Serving \cup {"new", "dropped", "closed"}]
    /\ sessions \subseteq Conns
    /\ deviceOf \in [Conns -> Ids \cup {None}]
    /\ devices \in [Ids -> Entries \cup {NoEntry}]
    /\ preauth \in [Ips -> Nat]
    /\ idle \in [Conns -> Ages]
    /\ checked \in [Conns -> BOOLEAN]

Init ==
    /\ peer \in [Conns -> [ip : Ips, id : Ids \cup {None}, key : Keys]]
    /\ link = [c \in Conns |-> "up"]
    /\ cpc = [c \in Conns |-> "new"]
    /\ sessions = {}
    /\ deviceOf = [c \in Conns |-> None]
    /\ devices = [d \in Ids |-> NoEntry]
    /\ preauth = [i \in Ips |-> 0]
    /\ idle = [c \in Conns |-> 0]
    /\ checked = [c \in Conns |-> FALSE]

Goto(c, step) == cpc' = [cpc EXCEPT ![c] = step]
tables == <<sessions, deviceOf, devices, preauth>>
clocks == <<idle, checked>>

-----------------------------------------------------------------------------
(* Accept loop and first frame.                                            *)

\* acquire a pre-auth slot, or drop the connection before any answer.
Accept(c) ==
    LET ip == peer[c].ip IN
    /\ cpc[c] = "new"
    /\ IF preauth[ip] >= PreauthPerIp
          THEN Goto(c, "dropped") /\ UNCHANGED preauth
          ELSE Goto(c, "first") /\ preauth' = [preauth EXCEPT ![ip] = @ + 1]
    /\ UNCHANGED <<peer, link, sessions, deviceOf, devices, clocks>>

\* Mutant of FirstFrame: the task returns early and keeps its slot.
FirstFrameKeepsSlot(c) ==
    /\ cpc[c] = "first"
    /\ \/ link[c] = "up" /\ \E step \in {"start", "data"} : Goto(c, step)
       \/ Goto(c, "closed")
    /\ UNCHANGED <<peer, link, tables, clocks>>

\* The first frame: a login that passes rate limit, version and token; a data
\* frame (work connection or tunnel), whose handler runs until its pipe ends;
\* or a bad frame, a refused login, an EOF or FIRST_FRAME_TIMEOUT.
FirstFrame(c) ==
    /\ cpc[c] = "first"
    /\ \/ link[c] = "up" /\ \E step \in {"start", "data"} : Goto(c, step)
       \/ Goto(c, "leaving")
    /\ UNCHANGED <<peer, link, tables, clocks>>

\* The pipe ends: the peer closed it, or TCP gave it up.
DataEnds(c) ==
    /\ cpc[c] = "data"
    /\ Goto(c, "leaving")
    /\ UNCHANGED <<peer, link, tables, clocks>>

\* handle_incoming has returned: release the slot of the address.
Release(c) ==
    LET ip == peer[c].ip IN
    /\ cpc[c] = "leaving"
    /\ preauth' = [preauth EXCEPT ![ip] = IF @ = 0 THEN 0 ELSE @ - 1]
    /\ Goto(c, "closed")
    /\ UNCHANGED <<peer, link, sessions, deviceOf, devices, clocks>>

-----------------------------------------------------------------------------
(* start_session.                                                          *)

CheckSessionLimit(c) ==
    /\ cpc[c] = "start"
    /\ Goto(c, IF Cardinality(sessions) >= MaxSessions THEN "leaving" ELSE "admitted")
    /\ UNCHANGED <<peer, link, tables, clocks>>

\* Insert the session; without a device id LoginResp follows, otherwise
\* RegChallenge.
InsertSession(c) ==
    /\ cpc[c] = "admitted"
    /\ sessions' = sessions \cup {c}
    /\ Goto(c, IF peer[c].id = None THEN "running" ELSE "challenged")
    /\ idle' = [idle EXCEPT ![c] = 0]
    /\ UNCHANGED <<peer, link, deviceOf, devices, preauth, checked>>

\* RegProof arrives in time and names the id and the key of the login.
ReadProof(c) ==
    /\ cpc[c] = "challenged"
    /\ link[c] = "up"
    /\ Goto(c, "proved")
    /\ UNCHANGED <<peer, link, tables, clocks>>

\* No proof in FIRST_FRAME_TIMEOUT, a mismatched one, or the peer is gone.
ProofMissing(c) ==
    /\ cpc[c] = "challenged"
    /\ Goto(c, "rejecting")
    /\ UNCHANGED <<peer, link, tables, clocks>>

SameKey(c) == LET d == peer[c].id IN Online(d) => devices[d].key = peer[c].key

\* register_with_proof: conflict check under the read lock, then the
\* signature, which may be bad.
VerifyProof(c) ==
    /\ cpc[c] = "proved"
    /\ \/ SameKey(c) /\ Goto(c, "verified")
       \/ Goto(c, "rejecting")
    /\ UNCHANGED <<peer, link, tables, clocks>>

\* Mutant of Register: the conflict is not checked again under the write lock.
RegisterUnchecked(c) ==
    /\ cpc[c] = "verified"
    /\ devices' = [devices EXCEPT ![peer[c].id] =
                     [key |-> peer[c].key, ctrl |-> c, seen |-> 0]]
    /\ deviceOf' = [deviceOf EXCEPT ![c] = peer[c].id]
    /\ Goto(c, "running")
    /\ UNCHANGED <<peer, link, sessions, preauth, clocks>>

\* register, under the write lock: the conflict is checked again; the same key
\* re-registers and takes the entry over.
Register(c) ==
    /\ cpc[c] = "verified"
    /\ IF SameKey(c)
          THEN /\ devices' = [devices EXCEPT ![peer[c].id] =
                                [key |-> peer[c].key, ctrl |-> c, seen |-> 0]]
               /\ deviceOf' = [deviceOf EXCEPT ![c] = peer[c].id]
               /\ Goto(c, "running")
          ELSE /\ Goto(c, "rejecting")
               /\ UNCHANGED <<devices, deviceOf>>
    /\ UNCHANGED <<peer, link, sessions, preauth, clocks>>

\* LoginResp{ok: false} is written, then the session is taken out of the map.
RejectLogin(c) ==
    /\ cpc[c] = "rejecting"
    /\ sessions' = sessions \ {c}
    /\ Goto(c, "leaving")
    /\ UNCHANGED <<peer, link, deviceOf, devices, preauth, clocks>>

-----------------------------------------------------------------------------
(* run_session.                                                            *)

\* EOF or a bad frame, Logout, or a protocol violation.
SessionEnds(c) ==
    /\ cpc[c] = "running"
    /\ link[c] \in {"up", "eof"}
    /\ Goto(c, "cleanup")
    /\ UNCHANGED <<peer, link, tables, clocks>>

Heartbeat(d) ==
    IF d # None /\ Online(d)
       THEN devices' = [devices EXCEPT ![d].seen = 0]
       ELSE UNCHANGED devices

\* Mutant of SessionTick: no idle check.
SessionTickOnlyBeats(c) ==
    /\ cpc[c] = "running"
    /\ ~checked[c]
    /\ Heartbeat(deviceOf[c])
    /\ checked' = [checked EXCEPT ![c] = TRUE]
    /\ UNCHANGED <<peer, link, cpc, sessions, deviceOf, preauth, idle>>

\* The heartbeat branch: refresh last_seen, whatever the peer does, and leave
\* the loop when the peer has been idle for too long.
SessionTick(c) ==
    /\ cpc[c] = "running"
    /\ ~checked[c]
    /\ Heartbeat(deviceOf[c])
    /\ checked' = [checked EXCEPT ![c] = TRUE]
    /\ IF idle[c] > Timeout THEN Goto(c, "cleanup") ELSE UNCHANGED cpc
    /\ UNCHANGED <<peer, link, sessions, deviceOf, preauth, idle>>

\* Mutant of LeaveMap: the device is never taken out of the online table.
LeaveMapOnly(c) ==
    /\ cpc[c] = "cleanup"
    /\ sessions' = sessions \ {c}
    /\ Goto(c, "leaving")
    /\ UNCHANGED <<peer, link, deviceOf, devices, preauth, clocks>>

\* cleanup_session: out of the map, device_id taken ...
LeaveMap(c) ==
    /\ cpc[c] = "cleanup"
    /\ sessions' = sessions \ {c}
    /\ Goto(c, IF deviceOf[c] = None THEN "leaving" ELSE "unregister")
    /\ UNCHANGED <<peer, link, deviceOf, devices, preauth, clocks>>

\* ... and, one await later, the entry of that id is removed, whoever owns it.
Unregister(c) ==
    /\ cpc[c] = "unregister"
    /\ devices' = [devices EXCEPT ![deviceOf[c]] = NoEntry]
    /\ deviceOf' = [deviceOf EXCEPT ![c] = None]
    /\ Goto(c, "leaving")
    /\ UNCHANGED <<peer, link, sessions, preauth, clocks>>

\* sweep_idle of the global ticker.
Sweep ==
    /\ \E d \in Ids : devices[d].seen > Timeout
    /\ devices' = [d \in Ids |-> IF devices[d].seen > Timeout THEN NoEntry
                                 ELSE devices[d]]
    /\ UNCHANGED <<peer, link, cpc, sessions, deviceOf, preauth, clocks>>

-----------------------------------------------------------------------------
(* Time and network.                                                       *)

\* One unit of the clock.  check_interval is at most 125 ms, so every running
\* session ticks between two units; a peer that is up sends Ping meanwhile.
Tick ==
    /\ \A c \in Conns : cpc[c] = "running" => checked[c]
    /\ idle' = [c \in Conns |-> IF cpc[c] # "running" \/ link[c] = "up" THEN 0
                                ELSE Older(idle[c])]
    /\ checked' = [c \in Conns |-> FALSE]
    /\ devices' = [d \in Ids |-> IF Online(d)
                                    THEN [devices[d] EXCEPT !.seen = Older(@)]
                                    ELSE NoEntry]
    /\ UNCHANGED <<peer, link, cpc, sessions, deviceOf, preauth>>

\* The peer crashes or the path breaks; it may recover, or the EOF arrives.
LinkChanges(c) ==
    /\ cpc[c] \in Serving
    /\ \E l \in {"up", "silent", "eof"} :
          /\ link[c] # "eof" /\ l # link[c]
          /\ link' = [link EXCEPT ![c] = l]
    /\ UNCHANGED <<peer, cpc, tables, clocks>>

-----------------------------------------------------------------------------
Serve(c) ==
    \/ FirstFrame(c) \/ Release(c)
    \/ CheckSessionLimit(c) \/ InsertSession(c) \/ ReadProof(c)
    \/ ProofMissing(c) \/ VerifyProof(c) \/ Register(c) \/ RejectLogin(c)
    \/ SessionTick(c) \/ LeaveMap(c) \/ Unregister(c)

Next ==
    \/ \E c \in Conns : \/ Accept(c) \/ Serve(c) \/ DataEnds(c)
                        \/ SessionEnds(c) \/ LinkChanges(c)
    \/ Sweep
    \/ Tick

\* tokio runs every ready task, the timers fire, and a socket whose EOF has
\* arrived is read.
Fairness ==
    /\ \A c \in Conns : /\ WF_vars(Serve(c))
                        /\ WF_vars(DataEnds(c) /\ link[c] = "eof")
                        /\ WF_vars(SessionEnds(c) /\ link[c] = "eof")
    /\ WF_vars(Tick)
    /\ WF_vars(Sweep)

Spec == Init /\ [][Next]_vars /\ Fairness

-----------------------------------------------------------------------------
(* Properties.                                                             *)

\* PreAuthLimiter counts, per address, exactly the connections whose task has
\* not returned: every path of handle_incoming gives its slot back once, so
\* the saturating subtraction never hides a double release.
PreauthExact ==
    \A i \in Ips :
       /\ preauth[i] =
             Cardinality({c \in Conns : peer[c].ip = i /\ cpc[c] \in Serving})
       /\ preauth[i] <= PreauthPerIp

\* The session map holds exactly the sessions whose task will take them out:
\* no failed login and no ended session stays in the map and uses up
\* max_sessions.
SessionsExact == sessions = {c \in Conns : cpc[c] \in InMap}

\* Every entry of the online table belongs to a session that registered it
\* with this key and has its unregister still ahead: a tunnel request is never
\* queued for a control connection that is already cleaned up.
NoGhostEntry ==
    \A d \in Ids : Online(d) =>
        LET c == devices[d].ctrl IN
        /\ cpc[c] \in {"running", "cleanup", "unregister"}
        /\ deviceOf[c] = d
        /\ peer[c].key = devices[d].key

\* However a login or a session ends, the map and the online table hold only
\* what a task still running will take out of them.
TablesExact == SessionsExact /\ NoGhostEntry

\* ID-004, across the two lock sections of register_with_proof: while an id is
\* in the table, no registration changes its key.
KeyNeverReplaced ==
    [][\A d \in Ids :
          Online(d) /\ Online(d)' => devices'[d].key = devices[d].key]_vars

\* A connection whose peer is gone is closed in the end, at whatever step the
\* peer went, and whether or not an EOF ever arrives.
DeadPeerIsClosed ==
    \A c \in Conns :
        cpc[c] \in Serving \ {"data"} /\ link[c] # "up"
           ~> cpc[c] = "closed" \/ link[c] = "up"
=============================================================================
