----------------------------- MODULE SlideWindow -----------------------------
(***************************************************************************)
(* The sending half of a file transfer: SlideWindowSender of               *)
(* core/src/connection/file_transfer.rs and the fill_window loop of its    *)
(* two drivers.  A sender is a record; the operators are its methods.      *)
(*                                                                         *)
(*   resume    local_resume_seq, the progress of an earlier session        *)
(*   start     start_seq; every block below it is acknowledged, so that    *)
(*             acked_count = start and acked = 0 .. start-1                *)
(*   next      next_seq, the first block never sent                        *)
(*   sent      the blocks marked sent (a nack or a timeout unmarks one)    *)
(*   age       sent_at: how long ago each block in flight was sent         *)
(*   inFlight  in_flight, the counter the window is compared with          *)
(*   idle      time since last_activity                                    *)
(*   offer     time since offer_sent_at, NoOffer when it is None           *)
(*                                                                         *)
(* Times are ages, counted in ticks and stopped at the timeout they are    *)
(* compared with: a larger age is not told apart.                          *)
(***************************************************************************)
EXTENDS Integers, FiniteSets

CONSTANTS
    Total,      \* total_blocks of the file
    Window      \* WINDOW_SIZE

ASSUME SlideWindowAssumption ==
    /\ Total \in Nat \ {0}
    /\ Window \in Nat \ {0}

Seqs == 0 .. Total - 1
NoOffer == -1

Larger(a, b) == IF a > b THEN a ELSE b
Smaller(a, b) == IF a < b THEN a ELSE b

NewSender(resume) ==
    [resume |-> resume, start |-> 0, next |-> 0, sent |-> {},
     age |-> <<>>, inFlight |-> 0, idle |-> 0, offer |-> NoOffer]

\* Mutant of MarkOfferSent: the time of the offer is not noted
UnwatchedOffer(s) == s

MarkOfferSent(s) == [s EXCEPT !.offer = 0]

AllAcked(s) == s.start >= Total
ResumeSeq(s) == s.start

(* The negotiated start is the larger of both sides' progress; what lies   *)
(* below it counts as sent and acknowledged.                               *)
OnAccept(s, remoteNext) ==
    LET from == Smaller(Larger(s.resume, remoteNext), Total) IN
    [s EXCEPT !.offer = NoOffer, !.start = from, !.next = from,
              !.sent = @ \cup 0 .. from - 1, !.age = <<>>, !.inFlight = 0]

(* The blocks fill_window sends now, in ascending order: the unmarked ones *)
(* of what was sent before, then new ones, whose mark next_unsent_seq does *)
(* not look at.  It goes on while the window has room, and a block that is *)
(* marked already takes none.                                              *)
ToSend(s) == {q \in s.start .. Total - 1 : q \notin s.sent \/ q >= s.next}
Sendable(s) ==
    {q \in ToSend(s) : Cardinality({r \in ToSend(s) \ s.sent : r < q}) < Window - s.inFlight}

\* mark_sent of the blocks of a set
MarkSent(s, blocks) ==
    [s EXCEPT !.sent = @ \cup blocks,
              !.inFlight = @ + Cardinality(blocks \ s.sent),
              !.age = [q \in DOMAIN s.age \cup blocks |->
                         IF q \in blocks THEN 0 ELSE s.age[q]],
              !.next = @ + Cardinality({q \in blocks : q >= s.next}),
              !.idle = IF blocks = {} THEN @ ELSE 0]

FillWindow(s) == MarkSent(s, Sendable(s))

\* Mutant of OnAck: a late ack gives the place of a timed out block back again
PlaceGivenBackTwice(s, seq) ==
    LET upTo == Smaller(seq + 1, Total)
        newly == s.start .. upTo - 1
    IN  IF upTo <= s.start THEN s
        ELSE [s EXCEPT !.start = upTo,
                       !.inFlight = Larger(0, @ - Cardinality(newly)),
                       !.age = [q \in DOMAIN s.age \ newly |-> s.age[q]],
                       !.idle = 0]

(* Cumulative: everything from start to seq is acknowledged.  A block gives*)
(* its place in the window back only if it still has a send time: one that *)
(* a timeout or a nack unmarked has already given it back.                 *)
OnAck(s, seq) ==
    LET upTo == Smaller(seq + 1, Total)
        newly == s.start .. upTo - 1
    IN  IF upTo <= s.start THEN s
        ELSE [s EXCEPT !.start = upTo,
                       !.inFlight = Larger(0, @ - Cardinality(newly \cap DOMAIN s.age)),
                       !.age = [q \in DOMAIN s.age \ newly |-> s.age[q]],
                       !.idle = 0]

\* Mutant of OnNack: the block keeps its place in the window
NackLeaksPlace(s, seq) ==
    [s EXCEPT !.sent = @ \ {seq},
              !.age = [q \in DOMAIN s.age \ {seq} |-> s.age[q]],
              !.idle = 0]

OnNack(s, seq) ==
    [s EXCEPT !.sent = @ \ {seq},
              !.inFlight = IF seq \in s.sent THEN Larger(0, @ - 1) ELSE @,
              !.age = [q \in DOMAIN s.age \ {seq} |-> s.age[q]],
              !.idle = 0]

\* retransmit_due, given the blocks whose timeout has passed
RetransmitDue(s, due) ==
    [s EXCEPT !.sent = @ \ due,
              !.inFlight = Larger(0, @ - Cardinality(due \cap s.sent)),
              !.age = [q \in DOMAIN s.age \ due |-> s.age[q]]]

=============================================================================
