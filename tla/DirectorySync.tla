---------------------------- MODULE DirectorySync ----------------------------
(***************************************************************************)
(* How the device directory of one relay reaches another: dir_store.rs,    *)
(* dir_backend.rs and interconnect.rs of relay-server.  Each source relay  *)
(* keeps rows for one target relay and pushes them, always the whole set,  *)
(* over a connection of its own per push.  The target has no way to answer *)
(* a batch; it refuses one whose epoch is below the waterline it keeps for *)
(* the source and otherwise replaces what it holds from that source.       *)
(*                                                                         *)
(* Pushes overlap: a change starts one at once, and so do the sweep of the *)
(* outbox, the periodic cycle and a client's refresh.  The store is one    *)
(* mutex; a push takes it for each of its queries and lets go in between.  *)
(*                                                                         *)
(* A row is the time of its last write (updated_at), NoRow if there is     *)
(* none.  A write that the store refuses (quota, limit, form) changes      *)
(* nothing and is not a step.                                              *)
(***************************************************************************)
EXTENDS Integers, FiniteSets

CONSTANTS
    Sources,    \* fingerprints of the pushing relays, as numbers: their byte order
    Devices,
    Slots,      \* bound: pushes of all sources at a time
    MaxWrites,  \* bound: changes of the directories
    MaxFaults   \* bound: restarts, failed or refused pushes, spells without one

ASSUME DirectorySyncAssumption ==
    /\ Sources \subseteq Nat \ {0} /\ IsFiniteSet(Sources)
    /\ Slots \subseteq Nat /\ IsFiniteSet(Slots)
    /\ MaxWrites \in Nat /\ MaxFaults \in Nat

NoRow == 0
Own == 0            \* held by the target itself (manual)
NoEpoch == -1

VARIABLES
    rows,       \* rows[s][d]: s's own row for d and this target
    epoch,      \* meta 'epoch'
    sidecar,    \* the epoch in the file beside the database
    outbox,     \* a push_outbox row for this target exists
    token,      \* a token of the target is cached (ix_tokens)
    push,       \* the pushes under way, see NoPush
    held,       \* at the target, for each device: the source and the time of its row
    waterline,  \* push:<fp>:last_epoch
    renewed,    \* push:<fp>:last_push lies within the TTL
    expiring,   \* sources the slow sweep has found expired and not deleted yet
    now,        \* the clock, in seconds
    writes, faults,
    past        \* history: every table a source has had

source == <<rows, epoch, sidecar, outbox, token>>
target == <<held, waterline, renewed, expiring>>
vars == <<source, push, target, now, writes, faults, past>>

Times == 1 .. MaxWrites + 1
Tables == [Devices -> Times \cup {NoRow}]
NoTable == [d \in Devices |-> NoRow]
NotHeld == [from |-> Own, time |-> NoRow]

(* A push: "at" is where its task at the source is, "there" where its batch is *)
(* at the target.                                                              *)
NoPush == [of |-> Own, at |-> "none", there |-> "none", rows |-> NoTable, epoch |-> NoEpoch]

Init ==
    /\ rows = [s \in Sources |-> NoTable]
    /\ epoch = [s \in Sources |-> 0] /\ sidecar = [s \in Sources |-> 0]
    /\ outbox = [s \in Sources |-> FALSE] /\ token = [s \in Sources |-> FALSE]
    /\ push = [k \in Slots |-> NoPush]
    /\ held = [d \in Devices |-> NotHeld]
    /\ waterline = [s \in Sources |-> NoEpoch]
    /\ renewed = [s \in Sources |-> FALSE] /\ expiring = {}
    /\ now = 1 /\ writes = 0 /\ faults = 0
    /\ past = [s \in Sources |-> {NoTable}]

-----------------------------------------------------------------------------
(* The source's store *)

Free == {k \in Slots : push[k] = NoPush}

\* a task that will push s's rows; the first free slot takes it
Spawn(s) ==
    \E k \in Free :
        /\ \A j \in Free : k <= j
        /\ push' = [push EXCEPT ![k] = [NoPush EXCEPT !.of = s, !.at = "start"]]

Clock == now' \in {now, now + 1}
Write == writes < MaxWrites /\ writes' = writes + 1
Fault == faults < MaxFaults /\ faults' = faults + 1
Remember(s) == past' = [past EXCEPT ![s] = @ \cup {rows'[s]}]

\* upsert_manual: row, epoch and outbox in one transaction
UpsertManual(s, d) ==
    /\ Write /\ Clock
    /\ rows' = [rows EXCEPT ![s][d] = now']
    /\ epoch' = [epoch EXCEPT ![s] = @ + 1]
    /\ sidecar' = [sidecar EXCEPT ![s] = epoch'[s]]
    /\ outbox' = [outbox EXCEPT ![s] = TRUE]
    /\ Remember(s)

(* handle_dir_upsert: the row, then the token of the request (or none, which   *)
(* clears it), then a push.                                                    *)
Upsert(s, d, hasToken) ==
    /\ UpsertManual(s, d)
    /\ token' = [token EXCEPT ![s] = hasToken]
    /\ Spawn(s)
    /\ UNCHANGED <<target, faults>>

\* delete_manual: row and outbox in one transaction; the epoch stays
DeleteManual(s, d) ==
    /\ rows[s][d] # NoRow
    /\ Write
    /\ rows' = [rows EXCEPT ![s][d] = NoRow]
    /\ outbox' = [outbox EXCEPT ![s] = TRUE]
    /\ Remember(s)
    /\ UNCHANGED <<epoch, sidecar, now>>

\* handle_dir_delete: the row, then a push
Delete(s, d) ==
    /\ DeleteManual(s, d)
    /\ Spawn(s)
    /\ UNCHANGED <<token, target, faults>>

(* The slow sweep finds a device that has long been away: delete_device_rows,  *)
(* then a push, with nothing in the outbox.                                    *)
LivenessDelete(s, d) ==
    /\ rows[s][d] # NoRow
    /\ Write
    /\ rows' = [rows EXCEPT ![s][d] = NoRow]
    /\ Spawn(s) /\ Remember(s)
    /\ UNCHANGED <<epoch, sidecar, outbox, token, target, now, faults>>

-----------------------------------------------------------------------------
(* The other reasons for a push *)

\* push_targets: the source still has a row, or an outbox row, for the target
Known(s) == rows[s] # NoTable \/ outbox[s]

\* the sweep of the outbox, the periodic cycle, or a refresh a client asked for
Repush(s) ==
    /\ Known(s)
    /\ Spawn(s)
    /\ UNCHANGED <<source, target, now, writes, faults, past>>

-----------------------------------------------------------------------------
(* push_one and finish_push_audit *)

\* the task ends; its batch may still be on its way
TaskEnds(k) ==
    push' = [push EXCEPT ![k] = IF @.there \in {"none", "gone"} THEN NoPush ELSE [@ EXCEPT !.at = "done"]]

\* the batch has been dealt with; the task may still be at work
BatchEnds(k) ==
    push' = [push EXCEPT ![k] = IF @.at = "done" THEN NoPush ELSE [@ EXCEPT !.there = "gone"]]

\* without a token the push is left out, and not entered into the outbox
Skip(k) ==
    LET s == push[k].of IN
    /\ push[k].at = "start" /\ ~token[s]
    /\ TaskEnds(k)
    /\ UNCHANGED <<source, target, now, writes, faults, past>>

ReadRows(k) ==
    LET s == push[k].of IN
    /\ push[k].at = "start" /\ token[s]
    /\ push' = [push EXCEPT ![k].at = "rows", ![k].rows = rows[s]]
    /\ UNCHANGED <<source, target, now, writes, faults, past>>

ReadEpoch(k) ==
    /\ push[k].at = "rows"
    /\ push' = [push EXCEPT ![k].at = "batch", ![k].epoch = epoch[push[k].of]]
    /\ UNCHANGED <<source, target, now, writes, faults, past>>

\* written to the connection: the push counts as delivered
Deliver(k) ==
    /\ push[k].at = "batch"
    /\ push' = [push EXCEPT ![k].at = "written", ![k].there = "sent"]
    /\ UNCHANGED <<source, target, now, writes, faults, past>>

\* a delivered push clears the outbox of its target, whoever filled it
FinishDelivered(k) ==
    /\ push[k].at = "written"
    /\ outbox' = [outbox EXCEPT ![push[k].of] = FALSE]
    /\ TaskEnds(k)
    /\ UNCHANGED <<rows, epoch, sidecar, token, target, now, writes, faults, past>>

\* no address, no connection, no handshake: entered into the outbox
FinishFailed(k) ==
    /\ push[k].at \in {"start", "rows", "batch"}
    /\ push[k].at = "start" => token[push[k].of]
    /\ Fault
    /\ outbox' = [outbox EXCEPT ![push[k].of] = TRUE]
    /\ TaskEnds(k)
    /\ UNCHANGED <<rows, epoch, sidecar, token, target, now, writes, past>>

-----------------------------------------------------------------------------
(* The target *)

\* verify_and_apply_push reads the waterline ...
Gate(k) ==
    /\ push[k].there = "sent"
    /\ IF push[k].epoch < waterline[push[k].of] THEN BatchEnds(k)
       ELSE push' = [push EXCEPT ![k].there = "gated"]
    /\ UNCHANGED <<source, target, now, writes, faults, past>>

\* ... or refuses the batch for its token, its form or its signatures
Refuse(k) ==
    /\ push[k].there = "sent"
    /\ Fault
    /\ BatchEnds(k)
    /\ UNCHANGED <<source, target, now, writes, past>>

\* Mutant of Wins: no tie-break
LaterOrEqualWins(s, time, h) ==
    h.time = NoRow \/ h.from = s \/ (h.from # Own /\ time >= h.time)

\* adjudicate_push_entry: the later time wins, then the smaller fingerprint
Wins(s, time, h) ==
    \/ h.time = NoRow \/ h.from = s
    \/ h.from # Own /\ (time > h.time \/ (time = h.time /\ s < h.from))

\* Mutant of Applied: what the batch leaves out stays
AppliedWithoutRevocation(s, batch) ==
    [d \in Devices |->
        IF batch[d] # NoRow /\ Wins(s, batch[d], held[d])
          THEN [from |-> s, time |-> batch[d]] ELSE held[d]]

\* what the target holds after a batch of s
Applied(s, batch) ==
    [d \in Devices |->
        IF batch[d] # NoRow /\ Wins(s, batch[d], held[d])
          THEN [from |-> s, time |-> batch[d]]
        ELSE IF batch[d] = NoRow /\ held[d].from = s THEN NotHeld
        ELSE held[d]]

\* ... and applies the batch in one transaction
Apply(k) ==
    LET s == push[k].of IN
    /\ push[k].there = "gated"
    /\ held' = Applied(s, push[k].rows)
    /\ waterline' = [waterline EXCEPT ![s] = push[k].epoch]
    /\ renewed' = [renewed EXCEPT ![s] = TRUE]
    /\ BatchEnds(k)
    /\ UNCHANGED <<source, expiring, now, writes, faults, past>>

HoldsOf(s) == {d \in Devices : held[d].from = s}

(* The TTL passes without a push of s: after a spell of trouble, or because  *)
(* s has nothing to push any more.                                           *)
Lapse(s) ==
    /\ renewed[s] /\ HoldsOf(s) # {}
    /\ \/ Fault
       \/ ~Known(s) /\ (\A k \in Slots : push[k].of # s) /\ UNCHANGED faults
    /\ renewed' = [renewed EXCEPT ![s] = FALSE]
    /\ UNCHANGED <<source, push, held, waterline, expiring, now, writes, past>>

\* sweep_slow asks for the expired sources ...
FindExpired(s) ==
    /\ ~renewed[s] /\ HoldsOf(s) # {} /\ s \notin expiring
    /\ expiring' = expiring \cup {s}
    /\ UNCHANGED <<source, push, held, waterline, renewed, now, writes, faults, past>>

\* ... and deletes their rows and waterlines, one by one
DeleteExpired(s) ==
    /\ s \in expiring
    /\ expiring' = expiring \ {s}
    /\ held' = [d \in Devices |-> IF held[d].from = s THEN NotHeld ELSE held[d]]
    /\ waterline' = [waterline EXCEPT ![s] = NoEpoch]
    /\ renewed' = [renewed EXCEPT ![s] = FALSE]
    /\ UNCHANGED <<source, push, now, writes, faults, past>>

\* a device of the target's own: its row takes the place of a pushed one
OwnUpsert(d) ==
    /\ Write /\ Clock
    /\ held' = [held EXCEPT ![d] = [from |-> Own, time |-> now']]
    /\ UNCHANGED <<source, push, waterline, renewed, expiring, faults, past>>

OwnDelete(d) ==
    /\ held[d].from = Own /\ held[d].time # NoRow
    /\ Write
    /\ held' = [held EXCEPT ![d] = NotHeld]
    /\ UNCHANGED <<source, push, waterline, renewed, expiring, now, faults, past>>

-----------------------------------------------------------------------------
Larger(a, b) == IF a > b THEN a ELSE b

\* Mutant of Restored: a new database counts from zero
RestoredFromZero(s, corrupt, hw) == IF corrupt THEN 0 ELSE Larger(epoch[s], hw)

\* epoch_highwater_sync: never below what was written beside the database
Restored(s, corrupt, hw) == Larger(IF corrupt THEN 0 ELSE epoch[s], hw)

(* A source's process ends and starts anew.  It may have been inside a write  *)
(* that had noted its epoch in the sidecar file and was rolled back; its      *)
(* database may be found corrupt and replaced by an empty one.                *)
Restart(s, inWrite, corrupt) ==
    LET hw == sidecar[s] + (IF inWrite THEN 1 ELSE 0) IN
    /\ Fault
    /\ epoch' = [epoch EXCEPT ![s] = Restored(s, corrupt, hw)]
    /\ sidecar' = [sidecar EXCEPT ![s] = Larger(hw, IF corrupt THEN 0 ELSE epoch[s])]
    /\ rows' = IF corrupt THEN [rows EXCEPT ![s] = NoTable] ELSE rows
    /\ outbox' = IF corrupt THEN [outbox EXCEPT ![s] = FALSE] ELSE outbox
    /\ token' = IF corrupt THEN [token EXCEPT ![s] = FALSE] ELSE token
    /\ push' = [k \in Slots |->
                  IF push[k].of # s THEN push[k]
                  ELSE IF push[k].there \in {"sent", "gated"} THEN [push[k] EXCEPT !.at = "done"]
                  ELSE NoPush]
    /\ Remember(s)
    /\ UNCHANGED <<target, now, writes>>

\* a row of the outbox is a day old
OutboxExpires(s) ==
    /\ outbox[s]
    /\ Fault
    /\ outbox' = [outbox EXCEPT ![s] = FALSE]
    /\ UNCHANGED <<rows, epoch, sidecar, token, push, target, now, writes, past>>

TaskSteps(k) ==
    Skip(k) \/ ReadRows(k) \/ ReadEpoch(k) \/ Deliver(k) \/ FinishDelivered(k) \/ FinishFailed(k)
BatchSteps(k) == Gate(k) \/ Refuse(k) \/ Apply(k)

Next ==
    \/ \E s \in Sources, d \in Devices :
         \/ \E t \in BOOLEAN : Upsert(s, d, t)
         \/ Delete(s, d) \/ LivenessDelete(s, d)
    \/ \E d \in Devices : OwnUpsert(d) \/ OwnDelete(d)
    \/ \E k \in Slots : TaskSteps(k) \/ BatchSteps(k)
    \/ \E s \in Sources :
         \/ Repush(s) \/ OutboxExpires(s)
         \/ Lapse(s) \/ FindExpired(s) \/ DeleteExpired(s)
         \/ \E inWrite, corrupt \in BOOLEAN : Restart(s, inWrite, corrupt)

(* Tasks run, and the timers of both relays come round.                       *)
SlowSweep == \E s \in Sources : (~Known(s) /\ Lapse(s)) \/ FindExpired(s) \/ DeleteExpired(s)
Fairness ==
    /\ \A k \in Slots : WF_vars(TaskSteps(k) \/ BatchSteps(k))
    /\ \A s \in Sources : SF_vars(Repush(s))
    /\ WF_vars(SlowSweep)

Spec == Init /\ [][Next]_vars /\ Fairness

-----------------------------------------------------------------------------
TypeOK ==
    /\ rows \in [Sources -> Tables]
    /\ epoch \in [Sources -> Nat] /\ sidecar \in [Sources -> Nat]
    /\ outbox \in [Sources -> BOOLEAN] /\ token \in [Sources -> BOOLEAN]
    /\ push \in [Slots -> [of : Sources \cup {Own},
                           at : {"none", "start", "rows", "batch", "written", "done"},
                           there : {"none", "sent", "gated", "gone"},
                           rows : Tables, epoch : Nat \cup {NoEpoch}]]
    /\ held \in [Devices -> [from : Sources \cup {Own}, time : Times \cup {NoRow}]]
    /\ \A d \in Devices : held[d].from # Own => held[d].time # NoRow
    /\ waterline \in [Sources -> Nat \cup {NoEpoch}]
    /\ renewed \in [Sources -> BOOLEAN] /\ expiring \subseteq Sources
    /\ now \in Times /\ writes \in 0 .. MaxWrites /\ faults \in 0 .. MaxFaults

(* No batch of a source is refused for good: whatever restarts, rolled back   *)
(* writes and replaced databases there were, the waterline at the target is   *)
(* never above the epoch of the source's next batch (epoch_highwater_sync).   *)
WaterlineReachable ==
    \A s \in Sources :
        /\ waterline[s] <= epoch[s]
        /\ \A k \in Slots : push[k].of = s => push[k].epoch <= epoch[s]

(* What the target holds from a source belongs to one table the source had at *)
(* one time: overlapping, late and repeated batches are never mixed.          *)
OneTableAtATime ==
    \A s \in Sources : \E t \in past[s] :
        \A d \in HoldsOf(s) : held[d].time = t[d]

(* Once the directories stay as they are and every source has the target's    *)
(* token, the target comes to hold the best row of the sources for every      *)
(* device it has no row of its own for, and no row that was revoked.          *)
Best(d) ==
    LET having == {s \in Sources : rows[s][d] # NoRow} IN
    IF having = {} THEN NotHeld
    ELSE LET s == CHOOSE s \in having : \A r \in having :
                    \/ rows[s][d] > rows[r][d]
                    \/ rows[s][d] = rows[r][d] /\ s <= r
         IN  [from |-> s, time |-> rows[s][d]]
InStep == \A d \in Devices : held[d] = Best(d) \/ (held[d].from = Own /\ held[d].time # NoRow)
RepushConverges == <>[](\A s \in Sources : token[s] \/ ~Known(s)) => <>[]InStep

(* A deletion advances the epoch ("advanced inside store.delete_manual",      *)
(* dir_backend.rs) so that no older batch undoes it: while the target holds a *)
(* row its source has deleted, the source still knows that it has to push or  *)
(* is pushing.                                                                *)
RevocationKept ==
    \A s \in Sources : \A d \in HoldsOf(s) :
        rows[s][d] = NoRow
            => Known(s) \/ \E k \in Slots : push[k].of = s

=============================================================================
