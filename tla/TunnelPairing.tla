--------------------------- MODULE TunnelPairing ---------------------------
(***************************************************************************)
(* What the relay promises about device tunnels, without its tables,       *)
(* counters, polls and locks: a controller connection that asks for a      *)
(* device is refused, expires, or is paired once with a back-connection    *)
(* that named its conn_id and that no other connection was ever paired     *)
(* with; a pair is closed as a whole.                                      *)
(***************************************************************************)
CONSTANTS Conns, Streams, None

VARIABLES
    stage,   \* [Conns -> Stages]
    peer,    \* [Conns -> Streams \cup {None}]
    names    \* [Streams -> Conns \cup {None}]: conn_id in the stream's header

pairingVars == <<stage, peer, names>>

Stages == {"none", "asked", "refused", "expired", "paired", "closed"}

PairingInit ==
    /\ stage = [c \in Conns |-> "none"]
    /\ peer = [c \in Conns |-> None]
    /\ names = [s \in Streams |-> None]

Move(c, from, to) ==
    /\ stage[c] = from
    /\ stage' = [stage EXCEPT ![c] = to]
    /\ UNCHANGED names

Ask(c)    == Move(c, "none", "asked") /\ UNCHANGED peer
Reject(c) == Move(c, "asked", "refused") /\ UNCHANGED peer
Expire(c) == Move(c, "asked", "expired") /\ UNCHANGED peer
Close(c)  == Move(c, "paired", "closed") /\ UNCHANGED peer

Pair(c, s) ==
    /\ names[s] = c
    /\ \A other \in Conns : peer[other] # s
    /\ Move(c, "asked", "paired")
    /\ peer' = [peer EXCEPT ![c] = s]

Name(s, c) ==
    /\ names[s] = None
    /\ names' = [names EXCEPT ![s] = c]
    /\ UNCHANGED <<stage, peer>>

PairingNext ==
    \/ \E c \in Conns : Ask(c) \/ Reject(c) \/ Expire(c) \/ Close(c)
    \/ \E c \in Conns, s \in Streams : Pair(c, s) \/ Name(s, c)

PairingSpec == PairingInit /\ [][PairingNext]_pairingVars
=============================================================================
