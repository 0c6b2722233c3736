---------------------------- MODULE ConnLimiter ----------------------------
(***************************************************************************)
(* The rate limiter that stands before the handshake of every incoming     *)
(* connection (core/src/network/rate_limit.rs), with the connection        *)
(* handlers of the desktop program that share it                           *)
(* (ui/src/lib.rs, handle_incoming_connection).                            *)
(*                                                                         *)
(* A handler asks check_connect once, is then busy with a handshake that   *)
(* may wait a minute for the user's approval, and only then reports        *)
(* failure or success.  Handlers run concurrently, so a report meets a     *)
(* bucket that other handlers have filled, banned, forgiven or evicted in  *)
(* the meantime.  Each call holds the mutex: it is one step.               *)
(*                                                                         *)
(* Time is a counter of ticks, the addresses are their aggregated keys     *)
(* (bucket_key), and `until = 0' is a bucket that is not banned.           *)
(***************************************************************************)
EXTENDS Integers, Sequences, FiniteSets, Functions

CONSTANTS
    Conns,         \* connections that may be in their handshake at once
    Keys,          \* aggregated addresses
    NoKey,         \* a handler that is not running
    MaxAttempts,   \* config.max_attempts
    Window,        \* config.attempt_window
    Threshold,     \* config.failure_threshold
    BanDuration,   \* config.ban_duration
    MaxBuckets,    \* config.max_buckets
    MaxTime        \* bound of the model: the last tick

ASSUME LimiterAssumption ==
    /\ IsFiniteSet(Conns) /\ IsFiniteSet(Keys) /\ NoKey \notin Keys
    /\ MaxAttempts \in Nat \ {0} /\ Threshold \in Nat \ {0}
    /\ Window \in Nat /\ BanDuration \in Nat \ {0}
    /\ MaxBuckets \in Nat /\ MaxTime \in Nat \ {0}

VARIABLES
    now,       \* the clock
    buckets,   \* the table: a function whose domain is the keys it holds
    peer,      \* the key of the connection a handler is shaking hands with
    granted,   \* history: admissions of a key the window still covers
    strikes,   \* history: failures of a key that nothing has forgiven
    due        \* history: when the last ban ordered for a key ends

vars == <<now, buckets, peer, granted, strikes, due>>

Time == 1 .. MaxTime
Bucket == [attempts : Seq(Time), failures : Nat, until : Nat,
           seen : Time, bans : 0 .. 3]

NewBucket == [attempts |-> <<>>, failures |-> 0, until |-> 0,
              seen |-> now, bans |-> 0]

\* The bucket of a key, made when the table has none, and marked as seen.
Entry(k) ==
    [(IF k \in DOMAIN buckets THEN buckets[k] ELSE NewBucket)
        EXCEPT !.seen = now]

\* What is left of attempts, oldest first, when those that the window before
\* t no longer covers have been taken from the front.
Recent(attempts, t) ==
    LET n     == Len(attempts)
        first == CHOOSE i \in 1 .. n + 1 :
                    /\ \A j \in 1 .. i - 1 : t - attempts[j] > Window
                    /\ i =< n => t - attempts[i] =< Window
    IN  SubSeq(attempts, first, n)

Banned(b) == b.until > now

\* Mutant of Lifted: the failures outlive the ban they led to.
LiftedOnly(b) == IF Banned(b) THEN b ELSE [b EXCEPT !.until = 0]

\* A ban that has run out is lifted by the next call that sees the bucket,
\* and the failures that led to it are forgotten.
Lifted(b) ==
    IF b.until = 0 \/ Banned(b) THEN b
    ELSE [b EXCEPT !.until = 0, !.failures = 0]

\* Mutant of Swept: an attempt leaves the window a tick early.
SweptEarly(b) == [b EXCEPT !.attempts = Recent(@, now + 1)]

\* The attempts that have left the window are dropped.
Swept(b) == [b EXCEPT !.attempts = Recent(@, now)]

\* Entering or replacing a bucket.
With(k, b) ==
    [j \in DOMAIN buckets \cup {k} |-> IF j = k THEN b ELSE buckets[j]]

(***************************************************************************)
(* maybe_prune: buckets with nothing to remember go first, then the least  *)
(* recently seen ones, whatever they hold, until the table is back at its  *)
(* limit.  Which of two buckets seen at the same instant goes is open.     *)
(***************************************************************************)
Remembered(b) ==
    \/ /\ b.attempts # <<>>
       /\ now - b.attempts[Len(b.attempts)] =< Window + BanDuration
    \/ b.failures > 0
    \/ b.until # 0

\* Mutant of Survivors: the table is swept but nothing is evicted.
SweepOnly(table) ==
    IF Cardinality(DOMAIN table) =< MaxBuckets THEN {DOMAIN table}
    ELSE {{k \in DOMAIN table : Remembered(table[k])}}

Survivors(table) ==
    LET kept == {k \in DOMAIN table : Remembered(table[k])}
    IN  IF Cardinality(DOMAIN table) =< MaxBuckets THEN {DOMAIN table}
        ELSE IF Cardinality(kept) =< MaxBuckets THEN {kept}
        ELSE {S \in SUBSET kept :
                 /\ Cardinality(S) = MaxBuckets
                 /\ \A out \in kept \ S, in \in S :
                       table[out].seen =< table[in].seen}

Init ==
    /\ now = 1
    /\ buckets = [k \in {} |-> NewBucket]
    /\ peer = [c \in Conns |-> NoKey]
    /\ granted = [k \in Keys |-> <<>>]
    /\ strikes = [k \in Keys |-> 0]
    /\ due = [k \in Keys |-> 0]

-----------------------------------------------------------------------------
(* check_connect, called by a handler that begins *)

\* The table forgets the keys in K, and the histories with it.
Forget(hist, K, zero) == [k \in Keys |-> IF k \in K THEN zero ELSE hist[k]]

Admit(c, k) ==
    LET b     == Lifted(Swept(Entry(k)))
        table == With(k, [b EXCEPT !.attempts = Append(@, now)])
    IN  /\ peer[c] = NoKey
        /\ ~Banned(b)
        /\ Len(b.attempts) < MaxAttempts
        /\ \E S \in Survivors(table) :
              LET gone == DOMAIN table \ S
              IN  /\ buckets' = Restrict(table, S)
                  /\ granted' = Forget([granted EXCEPT ![k] = Append(@, now)],
                                       gone, <<>>)
                  /\ strikes' = Forget(strikes, gone, 0)
                  /\ due' = Forget(due, gone, 0)
        /\ peer' = [peer EXCEPT ![c] = k]
        /\ UNCHANGED now

\* Refused: banned, or too many attempts.  Nothing is pruned on this way out.
Refuse(k) ==
    LET b == Lifted(Swept(Entry(k)))
    IN  /\ Banned(b) \/ Len(b.attempts) >= MaxAttempts
        /\ buckets' = With(k, b)
        /\ UNCHANGED <<now, peer, granted, strikes, due>>

-----------------------------------------------------------------------------
(* The ends of a handshake *)

\* escalate_ban_duration: one, two and then four times the base duration.
Escalated(bans) ==
    BanDuration * (IF bans = 0 THEN 1 ELSE IF bans = 1 THEN 2 ELSE 4)

\* One more failure; from the threshold on each one orders a ban.
Struck(b) ==
    LET f == b.failures + 1
    IN  IF f < Threshold THEN [b EXCEPT !.failures = f]
        ELSE [b EXCEPT !.failures = f, !.until = now + Escalated(b.bans),
                       !.bans = IF @ < 3 THEN @ + 1 ELSE 3]

\* record_handshake_failure.  The bucket may have been evicted meanwhile; it
\* is then entered again, and nothing is pruned.
Fail(c) ==
    LET k == peer[c]
        b == Struck(Lifted(Entry(k)))
    IN  /\ k # NoKey
        /\ buckets' = With(k, b)
        /\ strikes' = [strikes EXCEPT ![k] = @ + 1]
        /\ due' = [due EXCEPT ![k] = IF Banned(b) THEN b.until ELSE @]
        /\ peer' = [peer EXCEPT ![c] = NoKey]
        /\ UNCHANGED <<now, granted>>

\* Mutant of Cleared: success lifts the ban as well.
ClearedAll(b) ==
    [b EXCEPT !.attempts = <<>>, !.failures = 0, !.bans = 0, !.until = 0]

\* reset: attempts, failures and consecutive bans; the ban itself stays.
Cleared(b) ==
    [b EXCEPT !.attempts = <<>>, !.failures = 0, !.bans = 0]

Succeed(c) ==
    LET k == peer[c]
    IN  /\ k # NoKey
        /\ buckets' = IF k \in DOMAIN buckets
                      THEN With(k, Cleared(buckets[k])) ELSE buckets
        /\ granted' = [granted EXCEPT ![k] = <<>>]
        /\ strikes' = [strikes EXCEPT ![k] = 0]
        /\ peer' = [peer EXCEPT ![c] = NoKey]
        /\ UNCHANGED <<now, due>>

\* Two refusals after the check (no credentials configured, mutual control)
\* return without a report.
Leave(c) ==
    /\ peer[c] # NoKey
    /\ peer' = [peer EXCEPT ![c] = NoKey]
    /\ UNCHANGED <<now, buckets, granted, strikes, due>>

\* Time passes.  The histories follow the clock, not the calls: an admission
\* leaves the window and a ban takes its failures along when it is time.
Tick ==
    /\ now < MaxTime
    /\ now' = now + 1
    /\ granted' = [k \in Keys |-> Recent(granted[k], now + 1)]
    /\ strikes' = [k \in Keys |-> IF due[k] = now + 1 THEN 0 ELSE strikes[k]]
    /\ UNCHANGED <<buckets, peer, due>>

Next ==
    \/ \E c \in Conns, k \in Keys : Admit(c, k)
    \/ \E k \in Keys : Refuse(k)
    \/ \E c \in Conns : Fail(c)
    \/ \E c \in Conns : Succeed(c)
    \/ \E c \in Conns : Leave(c)
    \/ Tick

Spec == Init /\ [][Next]_vars

-----------------------------------------------------------------------------
(* Properties *)

\* The variables keep their types; in particular the table holds only keys,
\* and the count of consecutive bans stays within the steps of the
\* escalation (record_handshake_failure).
TypeOK ==
    /\ now \in Time
    /\ DOMAIN buckets \subseteq Keys
    /\ \A k \in DOMAIN buckets : buckets[k] \in Bucket
    /\ peer \in [Conns -> Keys \cup {NoKey}]
    /\ granted \in [Keys -> Seq(Time)]
    /\ strikes \in [Keys -> Nat]
    /\ due \in [Keys -> Nat]

\* In any window of time no address gets more admissions than max_attempts,
\* however its bucket was swept, banned and unbanned in between; only a
\* successful handshake or the loss of the bucket starts it afresh
\* (check_connect drops old attempts only when it is called).
RateKept == \A k \in Keys : Len(granted[k]) =< MaxAttempts

\* No handler is let through to a handshake while the last ban ordered for its
\* address lasts, whatever other handlers of the same address have reported
\* since; only eviction from the full table ends a ban early (check_connect
\* against reset, record_handshake_failure and maybe_prune).
BanHonoured ==
    [][\A c \in Conns :
          peer[c] = NoKey /\ peer'[c] # NoKey => due[peer'[c]] =< now]_vars

\* A ban is ordered only for failures that count: at least
\* failure_threshold of them since the address last succeeded, was evicted
\* or saw a ban run out, although a ban that has run out is noticed only at
\* the next call, which may be the report of a handshake begun before it.
BanEarned ==
    [][\A k \in Keys :
          due'[k] # due[k] /\ due'[k] # 0 => strikes'[k] >= Threshold]_vars

\* The table outgrows max_buckets by no more than one bucket for each
\* handler: record_handshake_failure enters a bucket without pruning, but
\* only for a handshake under way, and the next admission prunes.
TableBounded ==
    Cardinality(DOMAIN buckets) =< MaxBuckets + Cardinality(Conns)
=============================================================================
