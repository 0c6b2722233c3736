---------------------------- MODULE Rendezvous ----------------------------
(***************************************************************************)
(* The rendezvous service: both ends of a hole-punching session register   *)
(* their candidates under its id, and each is sent the candidates of the   *)
(* other once both are fresh (relay/src/rendezvous.rs).                    *)
(*                                                                         *)
(* A connection is served by one task, which handles its frames one after  *)
(* the other; tasks run in parallel and meet at the locks of the session   *)
(* table and of the routes.  A candidate list is named by the connection   *)
(* that registered it and the number of that registration.                 *)
(***************************************************************************)
EXTENDS Naturals, Sequences, FiniteSets, SequencesExt

CONSTANTS
    Conns,          \* connection ids, never used again
    Sids,           \* session ids
    None,
    MaxSessions,    \* MAX_RENDEZVOUS_SESSIONS
    MaxRegs         \* registrations per connection (model bound)

ASSUME RendezvousAssumption ==
    /\ None \notin Conns \cup Sids
    /\ MaxSessions \in Nat \ {0}
    /\ MaxRegs \in Nat

VARIABLES
    table,      \* sessions: [Sids -> session or NoSession]
    recent,     \* the sessions of the table by last_activity, oldest first
    route,      \* conn_session
    regs,       \* registrations of a connection so far
    outbox,     \* PeerCandidates the task of a connection has still to send
    got,        \* the last PeerCandidates a connection was sent
    leaving     \* a closed connection whose session slot is still to be freed

vars == <<table, recent, route, regs, outbox, got, leaving>>

NoSlot    == [conn |-> None, reg |-> 0, given |-> FALSE]
NoSession == [a |-> NoSlot, b |-> NoSlot, av |-> 0, bv |-> 0, fwd |-> 0]
NoCands   == [sid |-> None, from |-> None, reg |-> 0]

\* given: these candidates have been sent to the other end.
Slots   == [conn : Conns, reg : 1 .. MaxRegs, given : BOOLEAN] \cup {NoSlot}
Present == {s \in Sids : table[s] # NoSession}
Seats   == {"a", "b"}

TypeOK ==
    /\ table \in [Sids -> [a : Slots, b : Slots, av : Nat, bv : Nat, fwd : Nat]]
    /\ \A i, j \in 1 .. Len(recent) : recent[i] = recent[j] => i = j
    /\ {recent[i] : i \in 1 .. Len(recent)} = Present
    /\ Cardinality(Present) <= MaxSessions
    /\ route \in [Conns -> Sids \cup {None, "closed"}]
    /\ regs \in [Conns -> 0 .. MaxRegs]
    /\ \A c \in Conns : \A i \in 1 .. Len(outbox[c]) :
          outbox[c][i] \in [to : Conns, sid : Sids, from : Conns, reg : 1 .. MaxRegs]
    /\ got \in [Conns -> [sid : Sids, from : Conns, reg : 1 .. MaxRegs] \cup {NoCands}]
    /\ leaving \in [Conns -> Sids \cup {None}]

Init ==
    /\ table = [s \in Sids |-> NoSession]
    /\ recent = <<>>
    /\ route = [c \in Conns |-> None]
    /\ regs = [c \in Conns |-> 0]
    /\ outbox = [c \in Conns |-> <<>>]
    /\ got = [c \in Conns |-> NoCands]
    /\ leaving = [c \in Conns |-> None]

\* a session is listed once
Without(seq, s) == RemoveFirst(seq, s)

\* Mutant of Idle: the sends are left to another task.
IdleAtOnce(c) == route[c] # "closed"

\* The task of c is between two frames.
Idle(c) == route[c] # "closed" /\ outbox[c] = <<>>

-----------------------------------------------------------------------------
(* CandidateRegister with a session id (on_candidate_register).            *)

\* Mutant of AfterEviction: off by one.
AfterLateEviction(s) ==
    IF s \notin Present /\ Cardinality(Present) > MaxSessions
       THEN [table |-> [table EXCEPT ![Head(recent)] = NoSession],
             recent |-> Tail(recent)]
       ELSE [table |-> table, recent |-> recent]

\* A new id in a full table evicts the session that was idle longest.
AfterEviction(s) ==
    IF s \notin Present /\ Cardinality(Present) >= MaxSessions
       THEN [table |-> [table EXCEPT ![Head(recent)] = NoSession],
             recent |-> Tail(recent)]
       ELSE [table |-> table, recent |-> recent]

\* Mutant of SeatOf: a third end takes the second seat.
SeatOfAnyone(t, c) ==
    IF t.a.conn = c THEN "a"
    ELSE IF t.b.conn = c THEN "b"
    ELSE IF t.a = NoSlot THEN "a" ELSE "b"

\* The seat of c: its own when it refreshes, the first free one otherwise.
SeatOf(t, c) ==
    IF t.a.conn = c THEN "a"
    ELSE IF t.b.conn = c THEN "b"
    ELSE IF t.a = NoSlot THEN "a"
    ELSE IF t.b = NoSlot THEN "b"
    ELSE "none"

\* The session after c took its seat, its version raised.
Seated(t, c) ==
    LET slot == [conn |-> c, reg |-> regs[c] + 1, given |-> FALSE] IN
    IF SeatOf(t, c) = "a" THEN [t EXCEPT !.a = slot, !.av = @ + 1]
                          ELSE [t EXCEPT !.b = slot, !.bv = @ + 1]

\* Mutant of BothFresh: one end has registered anew.
EitherFresh(t) ==
    /\ t.a # NoSlot /\ t.b # NoSlot
    /\ t.av > t.fwd \/ t.bv > t.fwd

BothFresh(t) ==
    /\ t.a # NoSlot /\ t.b # NoSlot
    /\ t.av > t.fwd /\ t.bv > t.fwd

Forwarded(t) ==
    [t EXCEPT !.fwd = IF t.av > t.bv THEN t.av ELSE t.bv,
              !.a.given = TRUE, !.b.given = TRUE]

Message(to, s, from) == [to |-> to.conn, sid |-> s, from |-> from.conn, reg |-> from.reg]

\* One lock section; the candidates are copied under the lock and sent after it.
Register(c, s) ==
    LET kept == AfterEviction(s)
        t    == kept.table[s]
        seat == Seated(t, c)
    IN
    /\ Idle(c)
    /\ regs[c] < MaxRegs
    /\ regs' = [regs EXCEPT ![c] = @ + 1]
    /\ recent' = Append(Without(kept.recent, s), s)
    /\ IF SeatOf(t, c) = "none"          \* a third end: dropped
          THEN /\ table' = kept.table
               /\ UNCHANGED <<route, outbox>>
          ELSE /\ route' = [route EXCEPT ![c] = s]
               /\ table' = [kept.table EXCEPT ![s] =
                               IF BothFresh(seat) THEN Forwarded(seat) ELSE seat]
               /\ outbox' = [outbox EXCEPT ![c] =
                    IF BothFresh(seat)
                       THEN @ \o <<Message(seat.a, s, seat.b), Message(seat.b, s, seat.a)>>
                       ELSE @]
    /\ UNCHANGED <<got, leaving>>

\* The next of the two sends; a channel whose connection is gone drops it.
Send(c) ==
    /\ outbox[c] # <<>>
    /\ LET m == Head(outbox[c]) IN
       got' = [got EXCEPT ![m.to] = [sid |-> m.sid, from |-> m.from, reg |-> m.reg]]
    /\ outbox' = [outbox EXCEPT ![c] = Tail(@)]
    /\ UNCHANGED <<table, recent, route, regs, leaving>>

-----------------------------------------------------------------------------
(* PunchResult and PathProbe (forward_to_other), connection end.           *)

\* The frame goes to the other end of the session of the route; the session
\* counts as active, whether there is another end or not.
ForwardToOther(c) ==
    /\ Idle(c)
    /\ route[c] \in Present
    /\ recent' = Append(Without(recent, route[c]), route[c])
    /\ UNCHANGED <<table, route, regs, outbox, got, leaving>>

\* cleanup_conn: the route goes first ...
RemoveRoute(c) ==
    /\ Idle(c)
    /\ route' = [route EXCEPT ![c] = "closed"]
    /\ leaving' = [leaving EXCEPT ![c] = route[c]]
    /\ UNCHANGED <<table, recent, regs, outbox, got>>

Vacated(t, c) ==
    IF t.a.conn = c THEN [t EXCEPT !.a = NoSlot]
    ELSE IF t.b.conn = c THEN [t EXCEPT !.b = NoSlot] ELSE t

\* Mutant of RemoveSlot: an empty session stays.
RemoveSlotOnly(c) ==
    /\ leaving[c] # None
    /\ leaving' = [leaving EXCEPT ![c] = None]
    /\ table' = [table EXCEPT ![leaving[c]] = Vacated(@, c)]
    /\ UNCHANGED <<recent, route, regs, outbox, got>>

\* ... then the slot in that session, and an empty session with it.
RemoveSlot(c) ==
    LET s == leaving[c]
        t == Vacated(table[s], c)
        empty == t.a = NoSlot /\ t.b = NoSlot
    IN
    /\ s # None
    /\ leaving' = [leaving EXCEPT ![c] = None]
    /\ table' = [table EXCEPT ![s] = IF empty THEN NoSession ELSE t]
    /\ recent' = IF empty THEN Without(recent, s) ELSE recent
    /\ UNCHANGED <<route, regs, outbox, got>>

Next == \E c \in Conns :
    \/ \E s \in Sids : Register(c, s)
    \/ Send(c) \/ ForwardToOther(c) \/ RemoveRoute(c) \/ RemoveSlot(c)

Spec == Init /\ [][Next]_vars

-----------------------------------------------------------------------------
(* Properties.                                                             *)

\* PUNCH-004: candidates that were already handed over, and so may point to a
\* NAT mapping that has gone, are never handed over a second time: a pairing
\* happens only when both ends have registered since the last one, also when
\* a seat has changed hands in between.
NoStaleForward ==
    [][\A s \in Sids, x \in Seats :
          LET old == table[s][x]
              new == table'[s][x] IN
          old.given /\ new.conn = old.conn /\ new.reg = old.reg
             => table'[s].fwd = table[s].fwd]_vars

\* The copies made under the lock are sent outside it, by different tasks; an
\* end still never receives an older list of its peer after a newer one.
CandidatesInOrder ==
    [][\A c \in Conns :
          got[c].sid = got'[c].sid /\ got[c].from = got'[c].from
             => got'[c].reg >= got[c].reg]_vars

\* A seat passes to another connection only after it was freed or its whole
\* session evicted, so a third end never displaces one of a pair.
SeatIsKept ==
    [][\A s \in Sids, x \in Seats :
          LET old == table[s][x].conn
              new == table'[s][x].conn IN
          old # None /\ new # None => new = old]_vars

\* A session both ends have left is gone from the table.
EmptySessionFreed ==
    \A s \in Present : table[s].a # NoSlot \/ table[s].b # NoSlot
=============================================================================
