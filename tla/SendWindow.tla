----------------------------- MODULE SendWindow ------------------------------
(***************************************************************************)
(* One sender under its driver, with time: FileSession of ui/src/lib.rs on *)
(* the desktop, Engine of mobile/src/file_transfer.rs on a phone.  The     *)
(* driver's periodic on_tick repeats blocks that were not acknowledged in  *)
(* time and gives up a transfer that makes no progress.  The other side    *)
(* may accept, acknowledge or ask again in any order a reliable stream     *)
(* allows, or stop answering.                                              *)
(***************************************************************************)
EXTENDS SlideWindow

CONSTANTS
    Resumes,        \* progress either side may bring from an earlier session
    BlockTimeout,   \* BLOCK_TIMEOUT, in ticks
    IdleTimeout,    \* IDLE_TIMEOUT
    OfferTimeout    \* OFFER_TIMEOUT

ASSUME SendWindowAssumption ==
    /\ Resumes \subseteq 0 .. Total
    /\ BlockTimeout \in Nat \ {0} /\ IdleTimeout \in Nat /\ OfferTimeout \in Nat
    /\ BlockTimeout < IdleTimeout

VARIABLES
    driver,     \* which driver runs the sender
    s,          \* the SlideWindowSender
    phase,      \* "queued", "offered", "accepted", then how the task ended
    paused,     \* the user's pause, a command of the desktop
    finish,     \* a Finish frame was sent
    early       \* history: blocks were sent before the Accept

windowVars == <<driver, s, phase, paused, finish, early>>

WindowInit ==
    /\ driver \in {"desktop", "mobile"}
    /\ \E r \in Resumes : s = NewSender(r)
    /\ phase = "queued" /\ paused = FALSE /\ finish = FALSE
    /\ early = FALSE

Live == phase \in {"queued", "offered", "accepted"}

\* next_unsent_seq offers nothing while the task is paused
FillUnlessPaused(t) == IF paused THEN t ELSE FillWindow(t)

-----------------------------------------------------------------------------
(* A slot is free: schedule_next_send offers the file.  Only the desktop    *)
(* notes the time of the offer.                                             *)
SendOffer ==
    /\ phase = "queued"
    /\ s' = IF driver = "desktop" THEN MarkOfferSent(s) ELSE s
    /\ phase' = "offered"
    /\ UNCHANGED <<driver, paused, finish, early>>

RecvAccept(remoteNext) ==
    /\ phase = "offered"
    /\ LET t == OnAccept(s, remoteNext) IN
         IF AllAcked(t) THEN s' = t /\ finish' = TRUE
                        ELSE s' = FillUnlessPaused(t) /\ UNCHANGED finish
    /\ phase' = "accepted"
    /\ UNCHANGED <<driver, paused, early>>

\* an Ack of some block that was sent; it may be an old one
RecvAck(seq) ==
    /\ phase = "accepted" /\ seq < s.next
    /\ LET t == OnAck(s, seq) IN
         /\ s' = FillUnlessPaused(t)
         /\ finish' = (finish \/ (AllAcked(t) /\ ~AllAcked(s)))
    /\ UNCHANGED <<driver, phase, paused, early>>

\* a Nack of a block not acknowledged yet
RecvNack(seq) ==
    /\ phase = "accepted" /\ seq \in s.start .. s.next - 1
    /\ s' = FillUnlessPaused(OnNack(s, seq))
    /\ UNCHANGED <<driver, phase, paused, finish, early>>

RecvFinishAck ==
    /\ phase = "accepted" /\ finish
    /\ phase' = "completed"
    /\ UNCHANGED <<driver, s, paused, finish, early>>

\* a Cancel from either side, or a Reject
Stop ==
    /\ Live
    /\ phase' = "cancelled"
    /\ UNCHANGED <<driver, s, paused, finish, early>>

Pause ==
    /\ driver = "desktop" /\ Live
    /\ paused' = TRUE
    /\ UNCHANGED <<driver, s, phase, finish, early>>

\* the blocks it held back go out with the next tick
Resume ==
    /\ driver = "desktop" /\ Live
    /\ paused' = FALSE
    /\ s' = [s EXCEPT !.idle = 0]
    /\ UNCHANGED <<driver, phase, finish, early>>

-----------------------------------------------------------------------------
Older(n, limit) == IF n < limit THEN n + 1 ELSE n

\* one tick later
Aged(t) ==
    [t EXCEPT !.age = [q \in DOMAIN t.age |-> Older(t.age[q], BlockTimeout)],
              !.idle = Older(@, IdleTimeout),
              !.offer = IF @ = NoOffer THEN @ ELSE Older(@, OfferTimeout)]

\* Mutant of Due: a block is due only after its timeout
DueTooLate(t) == {q \in DOMAIN t.age : t.age[q] > BlockTimeout}

Due(t) == {q \in DOMAIN t.age : t.age[q] >= BlockTimeout}

IdleTimedOut(t) ==
    \/ t.inFlight > 0 /\ t.idle >= IdleTimeout
    \/ t.offer # NoOffer /\ t.inFlight = 0 /\ t.offer >= OfferTimeout

(* What on_tick lets a sender send: the desktop leaves out the tasks that   *)
(* wait for an Accept, the phone takes those that have had one.             *)
MaySend == IF driver = "desktop" THEN s.offer = NoOffer ELSE phase = "accepted"

(* on_tick: what is due is unmarked first, then the deadline is judged, then  *)
(* the window is filled again.  A paused task is not looked at, and the phone *)
(* looks only at accepted ones.                                               *)
DriverTick ==
    /\ Live
    /\ LET t == Aged(s)
           u == RetransmitDue(t, Due(t))
       IN  IF paused \/ (driver = "mobile" /\ phase # "accepted")
             THEN s' = t /\ UNCHANGED <<phase, early>>
           ELSE IF IdleTimedOut(u)
             THEN s' = u /\ phase' = "dead" /\ UNCHANGED early
           ELSE /\ s' = IF MaySend THEN FillWindow(u) ELSE u
                /\ early' = (early \/ (MaySend /\ phase # "accepted"))
                /\ UNCHANGED phase
    /\ UNCHANGED <<driver, paused, finish>>

WindowNext ==
    \/ SendOffer \/ DriverTick \/ Pause \/ Resume \/ Stop \/ RecvFinishAck
    \/ \E r \in Resumes : RecvAccept(r)
    \/ \E q \in Seqs : RecvAck(q) \/ RecvNack(q)

\* the driver's timer runs and a slot comes free; nothing is owed by user or peer
WindowSpec == WindowInit /\ [][WindowNext]_windowVars /\ WF_windowVars(SendOffer) /\ WF_windowVars(DriverTick)

-----------------------------------------------------------------------------
Ages == UNION {[D -> 0 .. BlockTimeout] : D \in SUBSET Seqs}
Senders == [resume : 0 .. Total, start : 0 .. Total, next : 0 .. Total,
            sent : SUBSET Seqs, age : Ages, inFlight : Nat,
            idle : 0 .. IdleTimeout, offer : NoOffer .. OfferTimeout]
WindowTypeOK ==
    /\ driver \in {"desktop", "mobile"} /\ s \in Senders
    /\ phase \in {"queued", "offered", "accepted", "completed", "cancelled", "dead"}
    /\ paused \in BOOLEAN /\ finish \in BOOLEAN /\ early \in BOOLEAN

(* The counter the window is compared with is the number of blocks sent and  *)
(* not acknowledged, and it stays within WINDOW_SIZE, through late acks, nacks*)
(* and timeouts (on_ack, on_nack, retransmit_due), unless blocks were sent    *)
(* before the Accept.                                                         *)
InFlightExact ==
    ~early => /\ s.inFlight = Cardinality(DOMAIN s.age)
              /\ DOMAIN s.age = {q \in s.sent : q >= s.start}
              /\ s.inFlight <= Window

(* Every block in flight whose timeout has not passed was sent no later than  *)
(* the last activity, so that after retransmit_due, which on_tick calls first,*)
(* a sender with blocks in flight was active less than BLOCK_TIMEOUT ago.     *)
IdleFollowsAge ==
    \A q \in DOMAIN s.age : s.age[q] < BlockTimeout => s.idle <= s.age[q]

(* A Finish goes out only when every block is acknowledged and the whole file *)
(* is then acknowledged for good.                                             *)
FinishMeansAllAcked == finish <=> (phase # "queued" /\ AllAcked(s))

(* on_tick gives up a task only while its offer is unanswered: since it takes *)
(* what is due out of flight first, its IDLE_TIMEOUT is never met and a task  *)
(* that was accepted is not given up, however long its peer is silent.        *)
OnlyOffersExpire == [][phase = "accepted" => phase' # "dead"]_windowVars

(* An offer nobody answers is given up (OFFER_TIMEOUT), unless the user keeps *)
(* the task paused; only the desktop's driver does so.                        *)
OfferWatched ==
    (driver = "desktop" /\ phase = "offered") ~> (phase # "offered" \/ paused)

(* The window never jams: with a peer that accepts, acknowledges the newest   *)
(* block again and again and answers a Finish, and a user who does not pause  *)
(* for good, the transfer ends, whatever acks, nacks and timeouts come between.*)
AckNewest == \E q \in Seqs : q = s.next - 1 /\ RecvAck(q)
PeerAnswers ==
    /\ WF_windowVars(\E r \in Resumes : RecvAccept(r))
    /\ SF_windowVars(AckNewest)
    /\ WF_windowVars(RecvFinishAck)
WindowNeverJams == PeerAnswers /\ <>[](~paused) => <>(~Live)

=============================================================================
