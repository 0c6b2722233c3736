---------------------------- MODULE FileTransfer -----------------------------
(***************************************************************************)
(* Files sent between the two ends of a session: Engine of                 *)
(* mobile/src/file_transfer.rs (FileSession of the desktop mirrors it) over*)
(* SlideWindowSender, ChunkReceiver, TransferScheduler and TransferStore of*)
(* core/src/connection/file_transfer.rs.                                   *)
(*                                                                         *)
(* A node is one end: what its engine holds for the session, and what      *)
(* outlives the session, the record of transfers.json, the .part files, the*)
(* files saved and its own source files.  A handler maps a node to a node  *)
(* whose "out" lists the frames it sent; the engine's task runs one handler*)
(* at a time.  Frames of a session arrive in order and are lost with it.   *)
(* A session ends for both ends at once; an end that crashes does not save *)
(* its progress, and its record is the one of its last tick.               *)
(*                                                                         *)
(* A transfer_id is the file: it is derived from name, size and a salt both*)
(* ends share.  The contents of a block is the version of the file it was  *)
(* read from.  A file has Total blocks.                                    *)
(***************************************************************************)
EXTENDS SlideWindow, Sequences, SequencesExt

CONSTANTS
    Peers,          \* the two ends
    Files,          \* transfer ids
    Plan,           \* the pairs <<end, file>> of files an end may send
    MaxConcurrent,  \* MAX_CONCURRENT
    MaxVersion,     \* bound: versions of a file
    MaxStarts,      \* bound: transfers asked for
    MaxDisturbances \* bound: cancels, refusals, failures, timeouts and lost sessions

ASSUME FileTransferAssumption ==
    /\ \E p, q \in Peers : p # q /\ Peers = {p, q}
    /\ Plan \subseteq Peers \X Files
    /\ MaxConcurrent \in Nat \ {0} /\ MaxVersion \in Nat \ {0}
    /\ MaxStarts \in Nat /\ MaxDisturbances \in Nat

VARIABLES
    up,         \* a session exists
    node,       \* node[p]
    chan,       \* chan[p]: frames on their way to p
    starts,     \* transfers asked for so far
    disturbed   \* disturbances so far

vars == <<up, node, chan, starts, disturbed>>

Other(p) == CHOOSE q \in Peers : q # p
Versions == 1 .. MaxVersion
None == <<>>                      \* the empty map

\* m without the entry of f
Without(m, f) == Restrict(m, DOMAIN m \ {f})
With(m, f, x) == [g \in DOMAIN m \cup {f} |-> IF g = f THEN x ELSE m[g]]

Frame(op, f, n, v) == [op |-> op, file |-> f, seq |-> n, version |-> v]
Send(n, frames) == [n EXCEPT !.out = @ \o frames]

(* What an engine holds when its session begins, with the node's stores.     *)
(*   senders     per file: the sender, and the version its hash is of        *)
(*   sendQueue   send_sched.queue; sendQueued mirrors it as a set            *)
(*   offers, recvQueued   file -> version of the hash in the Offer           *)
(*   receivers   file -> hash version and next_seq                           *)
(*   finished    file -> how its last task ended                             *)
FreshEngine(n) ==
    [n EXCEPT !.senders = None, !.sendQueue = <<>>, !.sendQueued = {}, !.sendActive = 0,
              !.offered = {}, !.accepted = {},
              !.offers = None, !.recvQueue = <<>>, !.recvQueued = None,
              !.receivers = None, !.recvActive = 0,
              !.cancelled = {}, !.finished = None, !.out = <<>>]

Blank ==
    FreshEngine([senders |-> 0, sendQueue |-> 0, sendQueued |-> 0, sendActive |-> 0,
                 offered |-> 0, accepted |-> 0, offers |-> 0, recvQueue |-> 0,
                 recvQueued |-> 0, receivers |-> 0, recvActive |-> 0, cancelled |-> 0,
                 finished |-> 0, out |-> 0,
                 store |-> None, part |-> None, saved |-> [f \in Files |-> {}],
                 source |-> [f \in Files |-> 1]])

Init ==
    /\ up = TRUE
    /\ node = [p \in Peers |-> Blank]
    /\ chan = [p \in Peers |-> <<>>]
    /\ starts = 0 /\ disturbed = 0

-----------------------------------------------------------------------------
(* Stores and files *)

Forget(n, f) == [n EXCEPT !.store = Without(@, f)]
Record(n, f, direction, next) ==
    [n EXCEPT !.store = With(@, f, [direction |-> direction, next |-> next])]
DropPart(n, f) == [n EXCEPT !.part = Without(@, f)]

\* prune_missing: a record of a .part file that is gone
Pruned(n) ==
    [n EXCEPT !.store = Restrict(@, {f \in DOMAIN @ :
        @[f].direction = "recv" => f \in DOMAIN n.part})]

(* The progress of every running task goes into the record of its file, if    *)
(* there is one.  Where a file is both sent and received, cleanup_on_exit     *)
(* writes the receiver last, on_tick the sender.                              *)
SaveProgress(n, receiverLast) ==
    LET OfSender(f) == f \in DOMAIN n.senders
                       /\ ~(receiverLast /\ f \in DOMAIN n.receivers)
    IN  [n EXCEPT !.store = [f \in DOMAIN @ |->
            IF OfSender(f) THEN [@[f] EXCEPT !.next = ResumeSeq(n.senders[f].window)]
            ELSE IF f \in DOMAIN n.receivers THEN [@[f] EXCEPT !.next = n.receivers[f].next]
            ELSE @[f]]]

-----------------------------------------------------------------------------
(* Tasks and slots *)

CleanupTask(n, f) ==
    [n EXCEPT !.senders = Without(@, f), !.sendQueued = @ \ {f},
              !.offered = @ \ {f}, !.accepted = @ \ {f},
              !.receivers = Without(@, f), !.recvQueued = Without(@, f),
              !.offers = Without(@, f)]

Ended(n, f, direction, how) == [n EXCEPT !.finished = With(@, f, <<direction, how>>)]

Less1(k) == IF k = 0 THEN 0 ELSE k - 1
FreeSendSlot(n) == [n EXCEPT !.sendActive = Less1(@)]
FreeRecvSlot(n) == [n EXCEPT !.recvActive = Less1(@)]

\* Mutant of SlotFree: one task too many
SlotFreeOffByOne(active) == active <= MaxConcurrent

\* pop_ready
SlotFree(active) == active < MaxConcurrent

\* pop_ready and send_offer; a task that is gone or cancelled gives its slot back at once
PopSend(n) ==
    LET f == Head(n.sendQueue)
        popped == [n EXCEPT !.sendQueue = Tail(@), !.sendQueued = @ \ {f}]
    IN  IF n.sendQueue = <<>> \/ ~SlotFree(n.sendActive) THEN n
        ELSE IF f \notin DOMAIN n.senders \/ f \in n.cancelled THEN popped
        ELSE Send([popped EXCEPT !.sendActive = @ + 1, !.offered = @ \cup {f}],
                  <<Frame("Offer", f, 0, n.senders[f].version)>>)

\* schedule_next_send: as long as a slot is free the queue gives up its first task
ScheduleNextSend(n) ==
    LET go[i \in 0 .. Len(n.sendQueue)] == IF i = 0 THEN n ELSE PopSend(go[i - 1])
    IN  go[Len(n.sendQueue)]

\* Mutant of Begin: the .part file keeps what lies beyond the record
BeginWithoutCut(n, f, from) ==
    Record([n EXCEPT !.part = With(@, f, IF f \in DOMAIN n.part THEN n.part[f] ELSE <<>>),
                     !.receivers = With(@, f, [version |-> n.recvQueued[f], next |-> from]),
                     !.recvQueued = Without(@, f)],
           f, "recv", from)

\* ChunkReceiver::begin: the .part file is opened and cut to what is resumed
Begin(n, f, from) ==
    Record([n EXCEPT !.part = With(@, f, IF from = 0 THEN <<>> ELSE SubSeq(n.part[f], 1, from)),
                     !.receivers = With(@, f, [version |-> n.recvQueued[f], next |-> from]),
                     !.recvQueued = Without(@, f)],
           f, "recv", from)

ResumeFrom(n, f) ==
    IF f \in DOMAIN n.store /\ n.store[f].direction = "recv" THEN n.store[f].next ELSE 0

(* The first of the accepted offers is begun.  The files in "bad" cannot be   *)
(* (no space, an unwritable directory) and are rejected, like one whose .part *)
(* file is shorter than its record says.                                      *)
PopRecv(n, bad) ==
    LET f == Head(n.recvQueue)
        popped == [n EXCEPT !.recvQueue = Tail(@)]
        pruned == Pruned(popped)
        from   == ResumeFrom(pruned, f)
    IN  IF n.recvQueue = <<>> \/ ~SlotFree(n.recvActive) THEN n
        ELSE IF f \notin DOMAIN n.recvQueued \/ f \in n.cancelled
          THEN [popped EXCEPT !.recvQueued = Without(@, f)]
        ELSE IF f \in bad \/ (from > 0 /\ from > Len(pruned.part[f]))
          THEN Ended(Forget(Send([pruned EXCEPT !.recvQueued = Without(@, f)],
                                 <<Frame("Reject", f, 0, 0)>>), f),
                     f, "recv", "Failed")
        ELSE Send([Begin(pruned, f, from) EXCEPT !.recvActive = @ + 1],
                  <<Frame("Accept", f, from, 0)>>)

\* maybe_start_recv: likewise for the accepted offers
MaybeStartRecv(n, bad) ==
    LET go[i \in 0 .. Len(n.recvQueue)] == IF i = 0 THEN n ELSE PopRecv(go[i - 1], bad)
    IN  go[Len(n.recvQueue)]

\* the blocks of a set in ascending order
Ascending(S) ==
    CHOOSE seq \in [1 .. Cardinality(S) -> S] :
        \A i, j \in 1 .. Cardinality(S) : i < j => seq[i] < seq[j]

\* fill_window: the Data frames, each read from the source as it is now
Fill(n, f) ==
    LET w == n.senders[f].window
        blocks == Ascending(Sendable(w))
    IN  IF f \notin n.accepted THEN n
        ELSE Send([n EXCEPT !.senders[f].window = FillWindow(w)],
                  [i \in 1 .. Len(blocks) |-> Frame("Data", f, blocks[i], n.source[f])])

FinishFrame(f) == <<Frame("Finish", f, 0, 0)>>

-----------------------------------------------------------------------------
(* The handlers of the frames an engine receives *)

OnOffer(n, f, version) ==
    IF f \in DOMAIN n.receivers \cup DOMAIN n.offers \cup DOMAIN n.recvQueued
      THEN Send(n, <<Frame("Reject", f, 0, 0)>>)
      ELSE [n EXCEPT !.offers = With(@, f, version)]

OnAcceptFrame(n, f, remoteNext) ==
    IF f \notin DOMAIN n.senders THEN n
    ELSE LET w == OnAccept(n.senders[f].window, remoteNext)
             m == [n EXCEPT !.senders[f].window = w, !.accepted = @ \cup {f}]
         IN  IF AllAcked(w) THEN Send(m, FinishFrame(f)) ELSE Fill(m, f)

OnAckFrame(n, f, seq) ==
    IF f \notin DOMAIN n.senders THEN n
    ELSE LET w == n.senders[f].window
             m == [n EXCEPT !.senders[f].window = OnAck(w, seq)]
         IN  Fill(IF AllAcked(OnAck(w, seq)) /\ ~AllAcked(w) THEN Send(m, FinishFrame(f)) ELSE m, f)

\* Mutant of SendEnds: the slot is not given back
SendEndsKeepsSlot(n, f, how) ==
    IF f \notin DOMAIN n.senders THEN n
    ELSE ScheduleNextSend(Ended(CleanupTask(Forget(n, f), f), f, "send", how))

\* on_reject and on_finish_ack
SendEnds(n, f, how) ==
    IF f \notin DOMAIN n.senders THEN n
    ELSE ScheduleNextSend(Ended(CleanupTask(FreeSendSlot(Forget(n, f)), f), f, "send", how))

\* abort_recv, after the Cancel frame: the .part file goes
AbortRecv(n, f) ==
    MaybeStartRecv(
        Ended(CleanupTask([FreeRecvSlot(Forget(DropPart(n, f), f))
                             EXCEPT !.cancelled = @ \cup {f}], f), f, "recv", "Failed"), {})

CancelFrame(f) == <<Frame("Cancel", f, 0, 0)>>

\* Mutant of AckFrame: acknowledges the block that is expected, not the last one
AckOfExpected(f, next) == <<Frame("Ack", f, next, 0)>>

AckFrame(f, next) == <<Frame("Ack", f, Less1(next), 0)>>

\* on_data: in order, a repeated block is only acknowledged again
OnData(n, f, seq, version) ==
    IF f \notin DOMAIN n.receivers THEN n
    ELSE LET next == n.receivers[f].next IN
         IF seq < next THEN Send(n, AckFrame(f, next))
         ELSE IF seq > next THEN AbortRecv(Send(n, CancelFrame(f)), f)
         ELSE Send([n EXCEPT !.receivers[f].next = next + 1, !.part[f] = Append(@, version)],
                   AckFrame(f, next + 1))

\* Mutant of Verified: the hash is not compared
VerifiedBySize(n, f) == n.receivers[f].next >= Total

\* verify: all blocks are there and the file has the hash of the Offer
Verified(n, f) ==
    /\ n.receivers[f].next >= Total
    /\ \A i \in 1 .. Total : n.part[f][i] = n.receivers[f].version

\* on_finish: verified, the .part file takes its final name
OnFinish(n, f) ==
    IF f \notin DOMAIN n.receivers THEN Send(n, <<Frame("FinishAck", f, 0, 0)>>)
    ELSE IF Verified(n, f)
      THEN MaybeStartRecv(
             Ended(FreeRecvSlot(CleanupTask(Forget(DropPart(
                 Send([n EXCEPT !.saved[f] = @ \cup {n.part[f]}], <<Frame("FinishAck", f, 0, 0)>>),
                 f), f), f)), f, "recv", "Completed"), {})
      ELSE AbortRecv(Send(n, CancelFrame(f)), f)

(* on_cancel and cmd_cancel: a sender's task holds a slot unless it is        *)
(* queued, which an incoming Cancel does not ask; on the receiving side only  *)
(* a task that has begun holds a slot and deletes its .part file.             *)
Cancelled(n, f, byPeer) ==
    LET m == [Forget(n, f) EXCEPT !.cancelled = @ \cup {f}] IN
    IF f \in DOMAIN n.senders
      THEN ScheduleNextSend(
             Ended(CleanupTask(IF f \in n.sendQueued /\ ~byPeer THEN m ELSE FreeSendSlot(m), f),
                   f, "send", "Cancelled"))
    ELSE IF f \in DOMAIN n.receivers
      THEN MaybeStartRecv(
             Ended(CleanupTask(FreeRecvSlot(DropPart(m, f)), f), f, "recv", "Cancelled"), {})
    ELSE IF f \in DOMAIN n.offers \cup DOMAIN n.recvQueued
      THEN MaybeStartRecv(Ended(CleanupTask(m, f), f, "recv", "Cancelled"), {})
    ELSE n

\* handle_frame: frames of a cancelled task are dropped
HandleFrame(n, fr) ==
    IF fr.file \in n.cancelled THEN n
    ELSE CASE fr.op = "Offer"     -> OnOffer(n, fr.file, fr.version)
           [] fr.op = "Accept"    -> OnAcceptFrame(n, fr.file, fr.seq)
           [] fr.op = "Data"      -> OnData(n, fr.file, fr.seq, fr.version)
           [] fr.op = "Ack"       -> OnAckFrame(n, fr.file, fr.seq)
           [] fr.op = "Finish"    -> OnFinish(n, fr.file)
           [] fr.op = "FinishAck" -> SendEnds(n, fr.file, "Completed")
           [] fr.op = "Reject"    -> SendEnds(n, fr.file, "Failed")
           [] fr.op = "Cancel"    -> Cancelled(n, fr.file, TRUE)

-----------------------------------------------------------------------------
(* Actions *)

\* the handler of p turned its node into n
Ran(p, n, inbox) ==
    /\ up
    /\ node' = [node EXCEPT ![p] = [n EXCEPT !.out = <<>>]]
    /\ chan' = [chan EXCEPT ![p] = inbox, ![Other(p)] = @ \o n.out]
    /\ UNCHANGED up

Calm == UNCHANGED <<starts, disturbed>>
Disturb == disturbed < MaxDisturbances /\ disturbed' = disturbed + 1 /\ UNCHANGED starts

Receive(p) ==
    /\ chan[p] # <<>>
    /\ Ran(p, HandleFrame(node[p], Head(chan[p])), Tail(chan[p]))
    /\ Calm

\* cmd_start_send of a file that is not in progress
StartSend(p, f) ==
    LET n == node[p]
        resume == IF f \in DOMAIN n.store /\ n.store[f].direction = "send"
                    THEN n.store[f].next ELSE 0
        task == [window |-> NewSender(resume), version |-> n.source[f]]
    IN  /\ <<p, f>> \in Plan
        /\ f \notin DOMAIN n.senders /\ f \notin n.sendQueued
        /\ starts < MaxStarts /\ starts' = starts + 1 /\ UNCHANGED disturbed
        /\ Ran(p, ScheduleNextSend(
                    [Record(n, f, "send", resume) EXCEPT
                        !.senders = With(@, f, task), !.sendQueue = Append(@, f),
                        !.sendQueued = @ \cup {f}]), chan[p])

\* cmd_respond_offer
AcceptOffer(p, f) ==
    LET n == node[p]
        m == [n EXCEPT !.offers = Without(@, f), !.recvQueue = Append(@, f),
                       !.recvQueued = With(@, f, n.offers[f])]
    IN  /\ f \in DOMAIN n.offers
        /\ \/ Ran(p, MaybeStartRecv(m, {}), chan[p]) /\ Calm
           \/ Ran(p, MaybeStartRecv(m, {f}), chan[p]) /\ Disturb

\* Mutant of DeclineOffer: the sender is not told
DeclineSilently(p, f) ==
    LET n == node[p] IN
    /\ f \in DOMAIN n.offers
    /\ Disturb
    /\ Ran(p, Ended([n EXCEPT !.offers = Without(@, f)], f, "recv", "Cancelled"), chan[p])

DeclineOffer(p, f) ==
    LET n == node[p] IN
    /\ f \in DOMAIN n.offers
    /\ Disturb
    /\ Ran(p, Ended(Send([n EXCEPT !.offers = Without(@, f)], <<Frame("Reject", f, 0, 0)>>),
                    f, "recv", "Cancelled"), chan[p])

CancelTask(p, f) ==
    LET n == node[p] IN
    /\ f \in DOMAIN n.senders \cup DOMAIN n.receivers \cup DOMAIN n.offers \cup DOMAIN n.recvQueued
    /\ Disturb
    /\ Ran(p, Cancelled(Send(n, CancelFrame(f)), f, FALSE), chan[p])

(* on_tick: blocks not acknowledged in time are sent again, and the progress  *)
(* is saved.  Its deadline for silent peers is never met: TransferProofs,     *)
(* theorem IdleDeadlineNeverMet.                                              *)
InFlight(n) == {fq \in (DOMAIN n.senders) \X Seqs : fq[2] \in DOMAIN n.senders[fq[1]].window.age}

\* retransmit_due of the task of f
Unmarked(n, f, due) ==
    [n.senders[f] EXCEPT !.window = RetransmitDue(@, {q \in Seqs : <<f, q>> \in due})]

Repeated(n, due) ==
    LET unmarked == [n EXCEPT !.senders = [f \in DOMAIN @ |-> Unmarked(n, f, due)]]
        tasks == SetToSeq(DOMAIN n.senders)
        go[i \in 0 .. Len(tasks)] == IF i = 0 THEN unmarked ELSE Fill(go[i - 1], tasks[i])
    IN  go[Len(tasks)]

Tick(p) ==
    \E due \in SUBSET InFlight(node[p]) :
        LET n == SaveProgress(Repeated(node[p], due), FALSE) IN
        /\ n # node[p]
        /\ IF due = {} THEN Calm ELSE Disturb
        /\ Ran(p, n, chan[p])

\* the file is changed in place; a change before its first transfer shows nowhere
Edit(p, f) ==
    /\ f \in DOMAIN node[p].store /\ node[p].store[f].direction = "send"
    /\ node[p].source[f] < MaxVersion
    /\ node' = [node EXCEPT ![p].source[f] = @ + 1]
    /\ UNCHANGED <<up, chan, starts, disturbed>>

(* The session is lost: every engine ends with cleanup_on_exit, unless its    *)
(* process crashed.                                                           *)
Disconnect(crashed) ==
    /\ up /\ Disturb
    /\ up' = FALSE
    /\ node' = [p \in Peers |-> FreshEngine(IF p \in crashed THEN node[p] ELSE SaveProgress(node[p], TRUE))]
    /\ chan' = [p \in Peers |-> <<>>]

\* a new session: load_store
Connect ==
    /\ ~up /\ up' = TRUE
    /\ node' = [p \in Peers |-> Pruned(node[p])]
    /\ UNCHANGED <<chan, starts, disturbed>>

Next ==
    \/ \E p \in Peers : Receive(p) \/ Tick(p)
    \/ \E p \in Peers, f \in Files :
         \/ StartSend(p, f) \/ AcceptOffer(p, f) \/ DeclineOffer(p, f)
         \/ CancelTask(p, f) \/ Edit(p, f)
    \/ \E crashed \in SUBSET Peers : Disconnect(crashed)
    \/ Connect

Spec == Init /\ [][Next]_vars

-----------------------------------------------------------------------------
IsWindow(w) ==
    /\ {w.resume, w.start, w.next} \subseteq 0 .. Total
    /\ w.sent \subseteq Seqs /\ w.age \in [DOMAIN w.age -> {0}] /\ DOMAIN w.age \subseteq Seqs
    /\ w.inFlight \in 0 .. Window /\ w.idle = 0 /\ w.offer = NoOffer

TypeOK ==
    \A p \in Peers : LET n == node[p] IN
        /\ DOMAIN n.senders \cup DOMAIN n.receivers \cup DOMAIN n.store \subseteq Files
        /\ \A f \in DOMAIN n.senders :
              IsWindow(n.senders[f].window) /\ n.senders[f].version \in Versions
        /\ \A f \in DOMAIN n.receivers :
              n.receivers[f] \in [version : Versions, next : 0 .. Total]
        /\ \A f \in DOMAIN n.store :
              n.store[f] \in [direction : {"send", "recv"}, next : 0 .. Total]
        /\ n.sendActive \in 0 .. MaxConcurrent /\ n.recvActive \in 0 .. MaxConcurrent
        /\ n.offered \cup n.accepted \subseteq DOMAIN n.senders
        /\ n.sendQueued \subseteq {n.sendQueue[i] : i \in DOMAIN n.sendQueue}

(* The .part file is what the receiver has counted, and a record of an earlier*)
(* session is never ahead of it: after any crash begin finds the blocks it    *)
(* resumes from (begin_with refuses a shorter file).                          *)
PartHoldsProgress ==
    \A p \in Peers : LET n == node[p] IN
        /\ \A f \in DOMAIN n.receivers :
              f \in DOMAIN n.part /\ Len(n.part[f]) = n.receivers[f].next
        /\ \A f \in DOMAIN n.store \cap DOMAIN n.part :
              n.store[f].direction = "recv" => n.store[f].next <= Len(n.part[f])

(* A slot of the receiving side is held by a running receiver and by nothing  *)
(* else, and one of the sending side is never lost: however transfers end, the*)
(* queue goes on (finish_one on every path that ends a task).                 *)
NoSlotLost ==
    \A p \in Peers : LET n == node[p] IN
        /\ n.recvActive = Cardinality(DOMAIN n.receivers)
        /\ n.sendActive <= Cardinality(n.offered)

(* A block the sender holds as acknowledged, beyond what it brought from an   *)
(* earlier session, is in the .part file of a receiver still at work.         *)
AckedIsOnDisk ==
    \A p \in Peers : \A f \in node[p].accepted \cap DOMAIN node[Other(p)].receivers :
        LET w == node[p].senders[f].window IN
        w.start <= w.resume \/ w.start <= node[Other(p)].receivers[f].next

(* A sender that completes (FinishAck) has had its very version of the file   *)
(* saved under its final name on the other side.                              *)
CompletedIsSaved ==
    [][\A p \in Peers, f \in Files :
          /\ f \in DOMAIN node[p].senders /\ f \notin DOMAIN node'[p].senders
          /\ up' /\ f \in DOMAIN node'[p].finished
          /\ node'[p].finished[f] = <<"send", "Completed">>
          => [i \in 1 .. Total |-> node[p].senders[f].version] \in node[Other(p)].saved[f]]_vars

(* What the transfers amount to: FileCopies with the saved files as copies.   *)
Copies == INSTANCE FileCopies WITH
    source <- [p \in Peers |-> node[p].source], copies <- [p \in Peers |-> node[p].saved]
OnlyWholeCopies == Copies!Spec

(* Nobody waits for a frame that does not come: when no frame is on its way   *)
(* and no offer waits for a user, no transfer is left that was offered.       *)
NobodyWaits ==
    up /\ (\A p \in Peers : chan[p] = <<>> /\ DOMAIN node[p].offers = {})
        => \A p \in Peers : node[p].offered = {} /\ DOMAIN node[p].receivers = {}

=============================================================================
