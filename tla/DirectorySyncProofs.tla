------------------------ MODULE DirectorySyncProofs --------------------------
(***************************************************************************)
(* Proofs about DirectorySync, for any relays, devices, number of pushes at*)
(* a time, changes and faults.                                             *)
(*                                                                         *)
(* The waterline never passes the epoch because the epoch never falls, and *)
(* the epoch survives a replaced database because the sidecar file is never*)
(* behind it.  A batch is a table its source had, and applying it leaves   *)
(* nothing of that source that is not in the batch.                        *)
(***************************************************************************)
EXTENDS DirectorySync, TLAPS

PushType ==
    [of : Sources \cup {Own},
     at : {"none", "start", "rows", "batch", "written", "done"},
     there : {"none", "sent", "gated", "gone"},
     rows : Tables, epoch : Nat \cup {NoEpoch}]

\* a push is of a source, carries a table it had and no epoch beyond its own
PushFaithful(p) ==
    /\ p.of = Own => p = NoPush
    /\ p.of \in Sources => /\ p.epoch <= epoch[p.of]
                           /\ p.rows \in past[p.of]

Typed == TypeOK /\ now <= writes + 1 /\ past \in [Sources -> SUBSET Tables]
EpochKept ==
    \A s \in Sources : epoch[s] <= sidecar[s] /\ waterline[s] <= epoch[s]
PushesFaithful == \A k \in Slots : PushFaithful(push[k])
PastKept == \A s \in Sources : NoTable \in past[s] /\ rows[s] \in past[s]

IInv == Typed /\ EpochKept /\ PushesFaithful /\ PastKept /\ OneTableAtATime

-----------------------------------------------------------------------------
(* What the target holds from s is part of the batch it has just applied, and *)
(* of every other source it holds no more than before (apply_push_batch).     *)
LEMMA AppliedIsBatch ==
    ASSUME TypeOK, NEW s \in Sources, NEW batch \in Tables
    PROVE  /\ Applied(s, batch) \in [Devices -> [from : Sources \cup {Own}, time : Times \cup {NoRow}]]
           /\ \A d \in Devices : Applied(s, batch)[d].from # Own => Applied(s, batch)[d].time # NoRow
           /\ \A d \in Devices : Applied(s, batch)[d].from = s => Applied(s, batch)[d].time = batch[d]
           /\ \A r \in Sources \ {s}, d \in Devices :
                Applied(s, batch)[d].from = r => Applied(s, batch)[d] = held[d]
BY DirectorySyncAssumption DEF TypeOK, Applied, Wins, Tables, NotHeld, Own, NoRow, Times

\* The clock stays within what the changes made so far allow.
LEMMA ClockTyped ==
    ASSUME Typed, Write, Clock
    PROVE  now' \in Times /\ now' <= writes' + 1 /\ writes' \in 0 .. MaxWrites
BY DirectorySyncAssumption DEF Typed, TypeOK, Write, Clock, Times

\* A new push is typed and faithful, the others are as they were (Spawn).
LEMMA SpawnKeeps ==
    ASSUME IInv, NEW s \in Sources, Spawn(s),
           \A r \in Sources : epoch[r] <= epoch'[r] /\ past[r] \subseteq past'[r],
           epoch' \in [Sources -> Nat]
    PROVE  push' \in [Slots -> PushType] /\ PushesFaithful'
<1>1. PICK k \in Slots : push' = [push EXCEPT ![k] = [NoPush EXCEPT !.of = s, !.at = "start"]]
  BY DEF Spawn, Free
<1>2. [NoPush EXCEPT !.of = s, !.at = "start"] \in PushType
  BY DEF NoPush, PushType, NoTable, Tables, NoEpoch, NoRow, Own
<1>3. push \in [Slots -> PushType]
  BY DEF IInv, Typed, TypeOK, PushType
<1>4. push' \in [Slots -> PushType]
  BY <1>1, <1>2, <1>3
<1>5. ASSUME NEW j \in Slots PROVE PushFaithful(push[j])'
  <2>1. PushFaithful(push[j])
    BY DEF IInv, PushesFaithful
  <2>2. CASE j # k
    <3>1. push'[j] = push[j]
      BY <1>1, <1>3, <2>2
    <3>2. push[j].of \in Sources => push[j].epoch <= epoch'[push[j].of]
      BY <2>1, <1>3 DEF PushFaithful, IInv, Typed, TypeOK, PushType, NoEpoch
    <3> QED BY <3>1, <3>2, <2>1 DEF PushFaithful
  <2>3. CASE j = k
    <3>1. push'[j].of = s /\ push'[j].epoch = NoEpoch /\ push'[j].rows = NoTable
      BY <1>1, <1>3, <2>3 DEF NoPush
    <3>2. s # Own
      BY DirectorySyncAssumption DEF Own
    <3>3. NoTable \in past'[s]
      BY DEF IInv, PastKept
    <3>4. NoEpoch <= epoch'[s]
      BY DEF NoEpoch
    <3> QED BY <3>1, <3>2, <3>3, <3>4 DEF PushFaithful
  <2> QED BY <2>2, <2>3
<1> QED BY <1>4, <1>5 DEF PushesFaithful

(* A step that leaves every push its source, table and epoch, or ends it,   *)
(* leaves the pushes faithful (TaskEnds, BatchEnds, Gate, Deliver, Restart).*)
LEMMA PushesDecay ==
    ASSUME IInv, epoch' \in [Sources -> Nat],
           \A r \in Sources : epoch[r] <= epoch'[r] /\ past[r] \subseteq past'[r],
           \A j \in Slots : \/ push'[j] = NoPush \/ push'[j] = push[j]
                           \/ /\ push[j].of # Own
                              /\ push'[j].of = push[j].of /\ push'[j].epoch = push[j].epoch
                              /\ push'[j].rows = push[j].rows
    PROVE  PushesFaithful'
<1>1. SUFFICES ASSUME NEW j \in Slots PROVE PushFaithful(push[j])'
  BY DEF PushesFaithful
<1>2. PushFaithful(push[j]) /\ push[j] \in PushType
  BY DEF IInv, PushesFaithful, Typed, TypeOK, PushType
<1>3. push[j].of \in Sources => push[j].epoch <= epoch'[push[j].of]
  BY <1>2 DEF PushFaithful, IInv, Typed, TypeOK, PushType, NoEpoch
<1>4. CASE push'[j] = NoPush
  <2>1. NoPush.of = Own /\ Own \notin Sources
    BY DirectorySyncAssumption DEF NoPush, Own
  <2> QED BY <1>4, <2>1 DEF PushFaithful
<1>5. CASE push'[j] = push[j]
  BY <1>5, <1>2, <1>3 DEF PushFaithful
<1>6. CASE /\ push[j].of # Own
           /\ push'[j].of = push[j].of /\ push'[j].epoch = push[j].epoch
           /\ push'[j].rows = push[j].rows
  BY <1>6, <1>2, <1>3 DEF PushFaithful
<1> QED BY <1>4, <1>5, <1>6

\* A slot in use is a push of a source.
LEMMA BusyHasSource ==
    ASSUME IInv, NEW k \in Slots, push[k].at # "none" \/ push[k].there # "none"
    PROVE  push[k] \in PushType /\ push[k].of # Own /\ push[k].of \in Sources
<1>1. PushFaithful(push[k]) /\ push[k] \in PushType
  BY DEF IInv, PushesFaithful, Typed, TypeOK, PushType
<1>2. push[k].of # Own
  BY <1>1 DEF PushFaithful, NoPush
<1> QED BY <1>1, <1>2 DEF PushType

\* The end of a task or of a batch keeps the pushes typed and faithful.
LEMMA EndKeeps ==
    ASSUME IInv, NEW k \in Slots, push[k].at # "none" \/ push[k].there # "none",
           TaskEnds(k) \/ BatchEnds(k), UNCHANGED <<epoch, past>>
    PROVE  push' \in [Slots -> PushType] /\ PushesFaithful'
<1>1. push \in [Slots -> PushType] /\ NoPush \in PushType
  BY DEF IInv, Typed, TypeOK, PushType, NoPush, NoTable, Tables
<1>2. push[k] \in PushType /\ push[k].of # Own
  BY BusyHasSource
<1>3. [push[k] EXCEPT !.at = "done"] \in PushType /\ [push[k] EXCEPT !.there = "gone"] \in PushType
  BY <1>2 DEF PushType
<1>4. push' \in [Slots -> PushType]
  BY <1>1, <1>3 DEF TaskEnds, BatchEnds
<1>5. ASSUME NEW j \in Slots
      PROVE  \/ push'[j] = NoPush \/ push'[j] = push[j]
             \/ /\ push[j].of # Own
                /\ push'[j].of = push[j].of /\ push'[j].epoch = push[j].epoch
                /\ push'[j].rows = push[j].rows
  BY <1>1, <1>2 DEF TaskEnds, BatchEnds, PushType
<1>6. epoch' \in [Sources -> Nat]
      /\ \A r \in Sources : epoch[r] <= epoch'[r] /\ past[r] \subseteq past'[r]
  BY DEF IInv, Typed, TypeOK
<1>7. PushesFaithful'
  BY <1>5, <1>6, PushesDecay
<1> QED BY <1>4, <1>7

(* When the target lets go of rows, or puts its own in their place, what is *)
(* left of a source still belongs to one of its tables.                     *)
LEMMA FewerHeld ==
    ASSUME IInv, \A r \in Sources : past[r] \subseteq past'[r],
           \A d \in Devices : held'[d] = held[d] \/ held'[d].from = Own
    PROVE  OneTableAtATime'
<1>1. SUFFICES ASSUME NEW s \in Sources
               PROVE \E t \in past'[s] : \A d \in Devices : held'[d].from = s => held'[d].time = t[d]
  BY DEF OneTableAtATime, HoldsOf
<1>2. PICK t \in past[s] : \A d \in Devices : held[d].from = s => held[d].time = t[d]
  BY DEF IInv, OneTableAtATime, HoldsOf
<1>3. t \in past'[s] /\ s # Own
  BY DirectorySyncAssumption DEF Own
<1> QED BY <1>2, <1>3

\* The union of a source's tables with the one it has now keeps past typed.
LEMMA RememberKeeps ==
    ASSUME IInv, NEW s \in Sources, Remember(s), rows' \in [Sources -> Tables],
           \A r \in Sources \ {s} : rows'[r] = rows[r]
    PROVE  /\ past' \in [Sources -> SUBSET Tables] /\ PastKept'
           /\ \A r \in Sources : past[r] \subseteq past'[r]
<1>1. past \in [Sources -> SUBSET Tables] /\ rows'[s] \in Tables
  BY DEF IInv, Typed
<1>2. past' = [past EXCEPT ![s] = past[s] \cup {rows'[s]}]
  BY DEF Remember
<1>3. past[s] \cup {rows'[s]} \in SUBSET Tables
  BY <1>1
<1>4. past' \in [Sources -> SUBSET Tables]
  BY <1>1, <1>2, <1>3
<1>5. past'[s] = past[s] \cup {rows'[s]} /\ \A r \in Sources \ {s} : past'[r] = past[r]
  BY <1>1, <1>2
<1>6. PastKept'
  BY <1>5 DEF IInv, PastKept
<1> QED BY <1>4, <1>5, <1>6

-----------------------------------------------------------------------------
(* Each action keeps the invariant *)

\* handle_dir_upsert keeps the invariant.
LEMMA UpsertKeeps ==
    ASSUME IInv, NEW s \in Sources, NEW d \in Devices, NEW h \in BOOLEAN, Upsert(s, d, h)
    PROVE  IInv'
<1> USE DEF Upsert, UpsertManual
<1>1. now' \in Times /\ now' <= writes' + 1 /\ writes' \in 0 .. MaxWrites
  BY ClockTyped DEF IInv
<1>2. rows' \in [Sources -> Tables] /\ \A r \in Sources \ {s} : rows'[r] = rows[r]
  BY <1>1 DEF IInv, Typed, TypeOK, Tables
<1>3. /\ past' \in [Sources -> SUBSET Tables] /\ PastKept'
      /\ \A r \in Sources : past[r] \subseteq past'[r]
  BY <1>2, RememberKeeps
<1>4. epoch' \in [Sources -> Nat] /\ sidecar' \in [Sources -> Nat]
      /\ \A r \in Sources : epoch[r] <= epoch'[r]
  BY DEF IInv, Typed, TypeOK
<1>5. EpochKept'
  BY DEF IInv, Typed, TypeOK, EpochKept, target, NoEpoch
<1>6. push' \in [Slots -> PushType] /\ PushesFaithful'
  BY <1>3, <1>4, SpawnKeeps
<1>7. OneTableAtATime'
  BY <1>3, FewerHeld DEF target
<1>8. Typed'
  BY <1>1, <1>2, <1>3, <1>4, <1>6 DEF IInv, Typed, TypeOK, PushType, target
<1> QED BY <1>3, <1>5, <1>6, <1>7, <1>8 DEF IInv

\* handle_dir_delete and the sweep's deletion keep the invariant.
LEMMA DeleteKeeps ==
    ASSUME IInv, NEW s \in Sources, NEW d \in Devices, Delete(s, d) \/ LivenessDelete(s, d)
    PROVE  IInv'
<1>1. /\ Write /\ Spawn(s) /\ Remember(s)
      /\ rows' = [rows EXCEPT ![s][d] = NoRow]
      /\ outbox' \in {outbox, [outbox EXCEPT ![s] = TRUE]}
      /\ UNCHANGED <<epoch, sidecar, token, now, faults, held, waterline, renewed, expiring>>
  BY DEF Delete, DeleteManual, LivenessDelete, target
<1>2. writes' \in 0 .. MaxWrites /\ writes' = writes + 1
  BY <1>1, DirectorySyncAssumption DEF IInv, Typed, TypeOK, Write
<1>3. rows' \in [Sources -> Tables] /\ \A r \in Sources \ {s} : rows'[r] = rows[r]
  <2>1. rows \in [Sources -> Tables] /\ [rows[s] EXCEPT ![d] = NoRow] \in Tables
    BY DEF IInv, Typed, TypeOK, Tables
  <2> QED BY <1>1, <2>1
<1>4. /\ past' \in [Sources -> SUBSET Tables] /\ PastKept'
      /\ \A r \in Sources : past[r] \subseteq past'[r]
  BY <1>1, <1>3, RememberKeeps
<1>5. epoch' \in [Sources -> Nat] /\ \A r \in Sources : epoch[r] <= epoch'[r]
  BY <1>1 DEF IInv, Typed, TypeOK
<1>6. EpochKept'
  BY <1>1 DEF IInv, EpochKept
<1>7. push' \in [Slots -> PushType] /\ PushesFaithful'
  BY <1>1, <1>4, <1>5, SpawnKeeps
<1>8. OneTableAtATime'
  BY <1>1, <1>4, FewerHeld
<1>9. outbox' \in [Sources -> BOOLEAN]
  BY <1>1 DEF IInv, Typed, TypeOK
<1>10. Typed'
  <2>1. TypeOK /\ now <= writes + 1
    BY DEF IInv, Typed
  <2>2. UNCHANGED <<epoch, sidecar, token, now, faults, held, waterline, renewed, expiring>>
    BY <1>1
  <2>3. TypeOK'
    BY <2>1, <2>2, <1>2, <1>3, <1>7, <1>9 DEF TypeOK, PushType
  <2>4. now' <= writes' + 1
    BY <2>1, <2>2, <1>2 DEF TypeOK, Times
  <2> QED BY <2>3, <2>4, <1>4 DEF Typed
<1> QED BY <1>4, <1>6, <1>7, <1>8, <1>10 DEF IInv

\* Another reason for a push keeps the invariant.
LEMMA RepushKeeps ==
    ASSUME IInv, NEW s \in Sources, Repush(s)
    PROVE  IInv'
<1> USE DEF Repush, source, target
<1>1. epoch' \in [Sources -> Nat] /\ \A r \in Sources : epoch[r] <= epoch'[r] /\ past[r] \subseteq past'[r]
  BY DEF IInv, Typed, TypeOK
<1>2. push' \in [Slots -> PushType] /\ PushesFaithful'
  BY <1>1, SpawnKeeps
<1>3. Typed'
  BY <1>2 DEF IInv, Typed, TypeOK, PushType
<1>4. EpochKept' /\ PastKept'
  BY DEF IInv, EpochKept, PastKept
<1>5. OneTableAtATime'
  BY <1>1, FewerHeld
<1> QED BY <1>2, <1>3, <1>4, <1>5 DEF IInv

(* The end of a task, and of a batch that is not applied, keep the invariant  *)
(* whatever they do to the outbox and the fault count.                        *)
LEMMA EndsKeep ==
    ASSUME IInv, NEW k \in Slots, push[k].at # "none" \/ push[k].there # "none",
           TaskEnds(k) \/ BatchEnds(k),
           UNCHANGED <<rows, epoch, sidecar, token, target, now, writes, past>>,
           outbox' \in [Sources -> BOOLEAN], faults' \in 0 .. MaxFaults
    PROVE  IInv'
<1>1. push' \in [Slots -> PushType] /\ PushesFaithful'
  BY EndKeeps
<1>2. Typed'
  BY <1>1 DEF IInv, Typed, TypeOK, PushType, target
<1>3. EpochKept' /\ PastKept'
  BY DEF IInv, EpochKept, PastKept, target
<1>4. OneTableAtATime'
  BY FewerHeld DEF target
<1> QED BY <1>1, <1>2, <1>3, <1>4 DEF IInv

\* The steps of a push at the source keep the invariant (push_one).
LEMMA TaskKeeps ==
    ASSUME IInv, NEW k \in Slots, TaskSteps(k)
    PROVE  IInv'
<1>1. push \in [Slots -> PushType] /\ outbox \in [Sources -> BOOLEAN] /\ faults \in 0 .. MaxFaults
  BY DEF IInv, Typed, TypeOK, PushType
<1>2. push[k].at # "none" /\ push[k] \in PushType /\ push[k].of # Own /\ push[k].of \in Sources
  <2>1. push[k].at # "none"
    BY DEF TaskSteps, Skip, ReadRows, ReadEpoch, Deliver, FinishDelivered, FinishFailed
  <2> QED BY <2>1, BusyHasSource
<1>3. CASE Skip(k)
  BY <1>1, <1>2, <1>3, EndsKeep DEF Skip, source
<1>4. CASE FinishDelivered(k)
  BY <1>1, <1>2, <1>4, EndsKeep DEF FinishDelivered
<1>5. CASE FinishFailed(k)
  <2>1. faults' \in 0 .. MaxFaults /\ outbox' \in [Sources -> BOOLEAN]
    BY <1>1, <1>2, <1>5, DirectorySyncAssumption DEF FinishFailed, Fault
  <2> QED BY <2>1, <1>2, <1>5, EndsKeep DEF FinishFailed
<1>6. CASE ReadRows(k) \/ ReadEpoch(k) \/ Deliver(k)
  <2> USE DEF source, target
  <2>1. UNCHANGED <<rows, epoch, sidecar, outbox, token, held, waterline, renewed, expiring, now, writes, faults, past>>
    BY <1>6 DEF ReadRows, ReadEpoch, Deliver
  <2>2. PICK p \in PushType : push' = [push EXCEPT ![k] = p] /\ p.of = push[k].of
                              /\ p.epoch <= epoch[p.of] /\ p.rows \in past[p.of]
    <3>1. /\ rows[push[k].of] \in Tables /\ rows[push[k].of] \in past[push[k].of]
          /\ epoch[push[k].of] \in Nat
          /\ push[k].epoch <= epoch[push[k].of] /\ push[k].rows \in past[push[k].of]
      BY <1>2 DEF IInv, Typed, TypeOK, PastKept, PushesFaithful, PushFaithful
    <3>2. CASE ReadRows(k)
      <4> DEFINE p == [push[k] EXCEPT !.at = "rows", !.rows = rows[push[k].of]]
      <4>1. p \in PushType /\ p.of = push[k].of /\ p.epoch = push[k].epoch /\ p.rows = rows[push[k].of]
        BY <1>2, <3>1 DEF PushType
      <4>2. push' = [push EXCEPT ![k] = p]
        BY <3>2, <1>1 DEF ReadRows
      <4> QED BY <4>1, <4>2, <3>1
    <3>3. CASE ReadEpoch(k)
      <4> DEFINE p == [push[k] EXCEPT !.at = "batch", !.epoch = epoch[push[k].of]]
      <4>1. p \in PushType /\ p.of = push[k].of /\ p.rows = push[k].rows /\ p.epoch = epoch[push[k].of]
        BY <1>2, <3>1 DEF PushType
      <4>2. push' = [push EXCEPT ![k] = p]
        BY <3>3, <1>1 DEF ReadEpoch
      <4>3. p.epoch <= epoch[p.of]
        BY <4>1, <3>1
      <4> QED BY <4>1, <4>2, <4>3, <3>1
    <3>4. CASE Deliver(k)
      <4> DEFINE p == [push[k] EXCEPT !.at = "written", !.there = "sent"]
      <4>1. p \in PushType /\ p.of = push[k].of /\ p.rows = push[k].rows /\ p.epoch = push[k].epoch
        BY <1>2, <3>1 DEF PushType
      <4>2. push' = [push EXCEPT ![k] = p]
        BY <3>4, <1>1 DEF Deliver
      <4> QED BY <4>1, <4>2, <3>1
    <3> QED BY <1>6, <3>2, <3>3, <3>4
  <2>3. push' \in [Slots -> PushType]
    BY <1>1, <2>2
  <2>4. PushesFaithful'
    <3>1. SUFFICES ASSUME NEW j \in Slots PROVE PushFaithful(push[j])'
      BY DEF PushesFaithful
    <3>2. PushFaithful(push[j])
      BY DEF IInv, PushesFaithful
    <3>3. CASE j = k
      BY <3>3, <2>2, <2>1, <1>1, <1>2 DEF PushFaithful
    <3>4. CASE j # k
      BY <3>4, <3>2, <2>2, <2>1, <1>1 DEF PushFaithful
    <3> QED BY <3>3, <3>4
  <2>5. Typed'
    BY <2>1, <2>3 DEF IInv, Typed, TypeOK, PushType
  <2>6. EpochKept' /\ PastKept'
    BY <2>1 DEF IInv, EpochKept, PastKept
  <2>7. OneTableAtATime'
    BY <2>1, FewerHeld
  <2> QED BY <2>4, <2>5, <2>6, <2>7 DEF IInv
<1> QED BY <1>3, <1>4, <1>5, <1>6 DEF TaskSteps

(* The steps of a batch at the target keep the invariant: an applied batch   *)
(* raises the waterline to an epoch its source had, and replaces what the    *)
(* target holds from the source by a table the source had.                   *)
LEMMA BatchKeeps ==
    ASSUME IInv, NEW k \in Slots, BatchSteps(k)
    PROVE  IInv'
<1>1. push \in [Slots -> PushType] /\ outbox \in [Sources -> BOOLEAN] /\ faults \in 0 .. MaxFaults
  BY DEF IInv, Typed, TypeOK, PushType
<1>2. push[k].there # "none" /\ push[k] \in PushType /\ push[k].of # Own /\ push[k].of \in Sources
  <2>1. push[k].there # "none"
    BY DEF BatchSteps, Gate, Refuse, Apply
  <2> QED BY <2>1, BusyHasSource
<1>3. CASE Refuse(k)
  <2>1. faults' \in 0 .. MaxFaults
    BY <1>1, <1>3, DirectorySyncAssumption DEF Refuse, Fault
  <2> QED BY <2>1, <1>1, <1>2, <1>3, EndsKeep DEF Refuse, source
<1>4. CASE Gate(k)
  <2>1. CASE BatchEnds(k)
    BY <2>1, <1>1, <1>2, <1>4, EndsKeep DEF Gate, source
  <2>2. CASE push' = [push EXCEPT ![k].there = "gated"]
    <3>1. UNCHANGED <<rows, epoch, sidecar, outbox, token, held, waterline, renewed, expiring, now, writes, faults, past>>
      BY <1>4 DEF Gate, source, target
    <3>2. push' \in [Slots -> PushType]
      <4>1. [push[k] EXCEPT !.there = "gated"] \in PushType
        BY <1>2 DEF PushType
      <4> QED BY <4>1, <2>2, <1>1
    <3>3. ASSUME NEW j \in Slots
          PROVE  \/ push'[j] = push[j]
                 \/ /\ push[j].of # Own
                    /\ push'[j].of = push[j].of /\ push'[j].epoch = push[j].epoch
                    /\ push'[j].rows = push[j].rows
      BY <2>2, <1>1, <1>2 DEF PushType
    <3>4. epoch' \in [Sources -> Nat] /\ \A r \in Sources : epoch[r] <= epoch'[r] /\ past[r] \subseteq past'[r]
      BY <3>1 DEF IInv, Typed, TypeOK
    <3>5. PushesFaithful'
      BY <3>3, <3>4, PushesDecay
    <3>6. Typed'
      BY <3>1, <3>2 DEF IInv, Typed, TypeOK, PushType
    <3>7. EpochKept' /\ PastKept'
      BY <3>1 DEF IInv, EpochKept, PastKept
    <3>8. OneTableAtATime'
      BY <3>1, FewerHeld
    <3> QED BY <3>5, <3>6, <3>7, <3>8 DEF IInv
  <2> QED BY <1>4, <2>1, <2>2 DEF Gate
<1>5. CASE Apply(k)
  <2> DEFINE s == push[k].of
             batch == push[k].rows
  <2>1. /\ held' = Applied(s, batch)
        /\ waterline' = [waterline EXCEPT ![s] = push[k].epoch]
        /\ renewed' = [renewed EXCEPT ![s] = TRUE]
        /\ BatchEnds(k)
        /\ UNCHANGED <<rows, epoch, sidecar, outbox, token, expiring, now, writes, faults, past>>
    BY <1>5 DEF Apply, source
  <2>2. s \in Sources /\ batch \in Tables /\ batch \in past[s]
        /\ push[k].epoch \in Nat \cup {NoEpoch} /\ push[k].epoch <= epoch[s]
    BY <1>2 DEF IInv, PushesFaithful, PushFaithful, PushType
  <2>3. push' \in [Slots -> PushType] /\ PushesFaithful'
    BY <2>1, <1>2, EndKeeps
  <2>4. /\ held' \in [Devices -> [from : Sources \cup {Own}, time : Times \cup {NoRow}]]
        /\ \A d \in Devices : held'[d].from # Own => held'[d].time # NoRow
        /\ \A d \in Devices : held'[d].from = s => held'[d].time = batch[d]
        /\ \A r \in Sources \ {s}, d \in Devices : held'[d].from = r => held'[d] = held[d]
    BY <2>1, <2>2, AppliedIsBatch DEF IInv, Typed
  <2>5. waterline' \in [Sources -> Nat \cup {NoEpoch}] /\ renewed' \in [Sources -> BOOLEAN]
    BY <2>1, <2>2 DEF IInv, Typed, TypeOK
  <2>6. Typed'
    BY <2>1, <2>3, <2>4, <2>5 DEF IInv, Typed, TypeOK, PushType
  <2>7. EpochKept' /\ PastKept'
    BY <2>1, <2>2 DEF IInv, EpochKept, PastKept, Typed, TypeOK
  <2>8. OneTableAtATime'
    <3>1. SUFFICES ASSUME NEW r \in Sources
                   PROVE \E t \in past[r] : \A d \in Devices : held'[d].from = r => held'[d].time = t[d]
      BY <2>1 DEF OneTableAtATime, HoldsOf
    <3>2. CASE r = s
      BY <3>2, <2>2, <2>4
    <3>3. CASE r # s
      <4>1. PICK t \in past[r] : \A d \in Devices : held[d].from = r => held[d].time = t[d]
        BY DEF IInv, OneTableAtATime, HoldsOf
      <4> QED BY <3>3, <4>1, <2>4
    <3> QED BY <3>2, <3>3
  <2> QED BY <2>3, <2>6, <2>7, <2>8 DEF IInv
<1> QED BY <1>3, <1>4, <1>5 DEF BatchSteps

\* The target's own writes and its sweep of expired sources keep the invariant.
LEMMA TargetKeeps ==
    ASSUME IInv,
           \/ \E d \in Devices : OwnUpsert(d) \/ OwnDelete(d)
           \/ \E s \in Sources : Lapse(s) \/ FindExpired(s) \/ DeleteExpired(s)
    PROVE  IInv'
<1>1. UNCHANGED <<rows, epoch, sidecar, outbox, token, push, past>>
  BY DEF OwnUpsert, OwnDelete, Lapse, FindExpired, DeleteExpired, source
<1>2. /\ now' \in Times /\ writes' \in 0 .. MaxWrites /\ now' <= writes' + 1
      /\ faults' \in 0 .. MaxFaults
  <2>1. now \in Times /\ writes \in 0 .. MaxWrites /\ now <= writes + 1 /\ faults \in 0 .. MaxFaults
    BY DEF IInv, Typed, TypeOK
  <2>2. CASE \E d \in Devices : OwnUpsert(d)
    BY <2>1, <2>2, ClockTyped DEF OwnUpsert, IInv
  <2>3. CASE \E d \in Devices : OwnDelete(d)
    BY <2>1, <2>3, DirectorySyncAssumption DEF OwnDelete, Write, Times
  <2>4. CASE \E s \in Sources : Lapse(s) \/ FindExpired(s) \/ DeleteExpired(s)
    BY <2>1, <2>4, DirectorySyncAssumption DEF Lapse, FindExpired, DeleteExpired, Fault
  <2> QED BY <2>2, <2>3, <2>4
<1>3. /\ held' \in [Devices -> [from : Sources \cup {Own}, time : Times \cup {NoRow}]]
      /\ \A d \in Devices : held'[d] = held[d] \/ held'[d].from = Own
  <2>1. held \in [Devices -> [from : Sources \cup {Own}, time : Times \cup {NoRow}]]
    BY DEF IInv, Typed, TypeOK
  <2> QED BY <1>2, <2>1 DEF OwnUpsert, OwnDelete, Lapse, FindExpired, DeleteExpired, NotHeld, target
<1>4. /\ waterline' \in [Sources -> Nat \cup {NoEpoch}] /\ renewed' \in [Sources -> BOOLEAN]
      /\ expiring' \subseteq Sources
      /\ \A s \in Sources : waterline'[s] = waterline[s] \/ waterline'[s] = NoEpoch
  BY DEF IInv, Typed, TypeOK, OwnUpsert, OwnDelete, Lapse, FindExpired, DeleteExpired
<1>5. Typed'
  BY <1>1, <1>2, <1>3, <1>4 DEF IInv, Typed, TypeOK
<1>6. EpochKept' /\ PastKept' /\ PushesFaithful'
  BY <1>1, <1>4 DEF IInv, EpochKept, PastKept, PushesFaithful, PushFaithful, Typed, TypeOK, NoEpoch
<1>7. OneTableAtATime'
  BY <1>1, <1>3, FewerHeld
<1> QED BY <1>5, <1>6, <1>7 DEF IInv

(* A restart keeps the invariant: the epoch it takes up is at least the one in *)
(* the sidecar file, so also the one it had (epoch_highwater_sync).            *)
LEMMA RestartKeeps ==
    ASSUME IInv, NEW s \in Sources, NEW inWrite \in BOOLEAN, NEW corrupt \in BOOLEAN,
           Restart(s, inWrite, corrupt)
    PROVE  IInv'
<1> DEFINE hw == sidecar[s] + (IF inWrite THEN 1 ELSE 0)
           e == Restored(s, corrupt, hw)
<1>1. TypeOK
  BY DEF IInv, Typed
<1>2. hw \in Nat /\ sidecar[s] \in Nat /\ sidecar[s] <= hw /\ epoch[s] \in Nat /\ epoch[s] <= sidecar[s]
  BY <1>1 DEF TypeOK, IInv, EpochKept
<1>3. e \in Nat /\ epoch[s] <= e /\ Larger(hw, IF corrupt THEN 0 ELSE epoch[s]) = e
  <2> HIDE DEF hw
  <2>1. CASE corrupt
    BY <1>2, <2>1 DEF Restored, Larger
  <2>2. CASE ~corrupt
    BY <1>2, <2>2 DEF Restored, Larger
  <2> QED BY <2>1, <2>2
<1>4. epoch' = [epoch EXCEPT ![s] = e] /\ sidecar' = [sidecar EXCEPT ![s] = e]
  <2>1. /\ epoch' = [epoch EXCEPT ![s] = Restored(s, corrupt, hw)]
        /\ sidecar' = [sidecar EXCEPT ![s] = Larger(hw, IF corrupt THEN 0 ELSE epoch[s])]
    BY DEF Restart
  <2> QED BY <1>3, <2>1
<1>5. epoch' \in [Sources -> Nat] /\ sidecar' \in [Sources -> Nat]
      /\ \A r \in Sources : epoch[r] <= epoch'[r] /\ epoch'[r] <= sidecar'[r]
  BY <1>1, <1>3, <1>4 DEF TypeOK, IInv, EpochKept
<1>6. /\ Remember(s)
      /\ UNCHANGED <<held, waterline, renewed, expiring, now, writes>>
  BY DEF Restart, target
<1>7. rows' \in [Sources -> Tables] /\ \A r \in Sources \ {s} : rows'[r] = rows[r]
  BY <1>1 DEF Restart, TypeOK, NoTable, Tables
<1>8. /\ past' \in [Sources -> SUBSET Tables] /\ PastKept'
      /\ \A r \in Sources : past[r] \subseteq past'[r]
  BY <1>6, <1>7, RememberKeeps
<1>9. /\ outbox' \in [Sources -> BOOLEAN] /\ token' \in [Sources -> BOOLEAN]
      /\ faults' \in 0 .. MaxFaults
  BY <1>1, DirectorySyncAssumption DEF Restart, TypeOK, Fault
<1>10. push' = [k \in Slots |->
                  IF push[k].of # s THEN push[k]
                  ELSE IF push[k].there \in {"sent", "gated"} THEN [push[k] EXCEPT !.at = "done"]
                  ELSE NoPush]
  BY DEF Restart
<1>11. push \in [Slots -> PushType]
  BY <1>1 DEF TypeOK, PushType
<1>12. push' \in [Slots -> PushType]
  <2>1. NoPush \in PushType /\ \A k \in Slots : [push[k] EXCEPT !.at = "done"] \in PushType
    BY <1>11 DEF PushType, NoPush, NoTable, Tables
  <2> QED BY <2>1, <1>10, <1>11
<1>13. s # Own
  BY DirectorySyncAssumption DEF Own
<1>14. ASSUME NEW j \in Slots
       PROVE  \/ push'[j] = NoPush \/ push'[j] = push[j]
              \/ /\ push[j].of # Own
                 /\ push'[j].of = push[j].of /\ push'[j].epoch = push[j].epoch
                 /\ push'[j].rows = push[j].rows
  BY <1>10, <1>11, <1>13 DEF PushType
<1>15. PushesFaithful'
  BY <1>5, <1>8, <1>14, PushesDecay
<1>16. Typed'
  <2>1. now <= writes + 1
    BY DEF IInv, Typed
  <2>2. TypeOK'
    BY <1>1, <1>5, <1>6, <1>7, <1>9, <1>12 DEF TypeOK, PushType
  <2> QED BY <2>1, <2>2, <1>6, <1>8 DEF Typed
<1>17. EpochKept'
  <2>1. SUFFICES ASSUME NEW r \in Sources PROVE waterline[r] <= epoch'[r]
    BY <1>5, <1>6 DEF EpochKept
  <2>2. waterline[r] <= epoch[r] /\ waterline[r] \in Nat \cup {NoEpoch} /\ epoch[r] \in Nat /\ epoch'[r] \in Nat
    BY <1>1, <1>5 DEF IInv, EpochKept, TypeOK
  <2> QED BY <2>2, <1>5 DEF NoEpoch
<1>18. OneTableAtATime'
  BY <1>6, <1>8, FewerHeld
<1> QED BY <1>8, <1>15, <1>16, <1>17, <1>18 DEF IInv

\* A row of the outbox that has grown too old keeps the invariant.
LEMMA OutboxExpiresKeeps ==
    ASSUME IInv, NEW s \in Sources, OutboxExpires(s)
    PROVE  IInv'
<1>1. UNCHANGED <<rows, epoch, sidecar, token, push, held, waterline, renewed, expiring, now, writes, past>>
  BY DEF OutboxExpires, target
<1>2. outbox' \in [Sources -> BOOLEAN] /\ faults' \in 0 .. MaxFaults
  BY DirectorySyncAssumption DEF OutboxExpires, Fault, IInv, Typed, TypeOK
<1>3. Typed'
  BY <1>1, <1>2 DEF IInv, Typed, TypeOK
<1>4. EpochKept' /\ PastKept' /\ PushesFaithful'
  BY <1>1 DEF IInv, EpochKept, PastKept, PushesFaithful, PushFaithful
<1>5. OneTableAtATime'
  BY <1>1, FewerHeld
<1> QED BY <1>3, <1>4, <1>5 DEF IInv

-----------------------------------------------------------------------------
\* Two empty stores satisfy the invariant.
LEMMA InitKeeps == Init => IInv
<1> SUFFICES ASSUME Init PROVE IInv
  OBVIOUS
<1>1. NoTable \in Tables /\ NotHeld \in [from : Sources \cup {Own}, time : Times \cup {NoRow}]
  BY DEF NoTable, Tables, NotHeld
<1>2. NoPush \in PushType /\ NoPush.of = Own /\ Own \notin Sources
  BY <1>1, DirectorySyncAssumption DEF NoPush, PushType, Own
<1>3. Typed
  BY <1>1, <1>2, DirectorySyncAssumption DEF Init, Typed, TypeOK, Times, PushType, NotHeld, Own, NoEpoch
<1>4. EpochKept /\ PastKept
  BY DEF Init, EpochKept, PastKept, NoEpoch
<1>5. PushesFaithful
  BY <1>2 DEF Init, PushesFaithful, PushFaithful
<1>6. OneTableAtATime
  <2>1. \A s \in Sources : NoTable \in past[s] /\ HoldsOf(s) = {}
    BY DirectorySyncAssumption DEF Init, HoldsOf, NotHeld, Own
  <2> QED BY <2>1 DEF OneTableAtATime
<1> QED BY <1>3, <1>4, <1>5, <1>6 DEF IInv

\* Every step of either relay keeps the invariant.
LEMMA NextKeeps == IInv /\ [Next]_vars => IInv'
<1> SUFFICES ASSUME IInv, [Next]_vars PROVE IInv'
  OBVIOUS
<1>1. CASE \E s \in Sources, d \in Devices :
             \/ \E h \in BOOLEAN : Upsert(s, d, h)
             \/ Delete(s, d) \/ LivenessDelete(s, d)
  BY <1>1, UpsertKeeps, DeleteKeeps
<1>2. CASE \E d \in Devices : OwnUpsert(d) \/ OwnDelete(d)
  BY <1>2, TargetKeeps
<1>3. CASE \E k \in Slots : TaskSteps(k) \/ BatchSteps(k)
  BY <1>3, TaskKeeps, BatchKeeps
<1>4. CASE \E s \in Sources : Lapse(s) \/ FindExpired(s) \/ DeleteExpired(s)
  BY <1>4, TargetKeeps
<1>5. CASE \E s \in Sources : Repush(s) \/ OutboxExpires(s)
  BY <1>5, RepushKeeps, OutboxExpiresKeeps
<1>6. CASE \E s \in Sources : \E inWrite, corrupt \in BOOLEAN : Restart(s, inWrite, corrupt)
  BY <1>6, RestartKeeps
<1>7. CASE UNCHANGED vars
  <2>1. UNCHANGED <<rows, epoch, sidecar, outbox, token, push, held, waterline, renewed, expiring,
                    now, writes, faults, past>>
    BY <1>7 DEF vars, source, target
  <2>2. Typed' /\ EpochKept' /\ PastKept' /\ PushesFaithful'
    BY <2>1 DEF IInv, Typed, TypeOK, EpochKept, PastKept, PushesFaithful, PushFaithful
  <2>3. OneTableAtATime'
    BY <2>1, FewerHeld
  <2> QED BY <2>2, <2>3 DEF IInv
<1> QED BY <1>1, <1>2, <1>3, <1>4, <1>5, <1>6, <1>7 DEF Next

\* The invariant holds in every reachable state of the two stores.
THEOREM Invariant == Spec => []IInv
BY InitKeeps, NextKeeps, PTL DEF Spec

\* The state of both stores and of the pushes between them is well typed.
THEOREM TypeCorrect == Spec => []TypeOK
<1>1. IInv => TypeOK
  BY DEF IInv, Typed
<1> QED BY Invariant, <1>1, PTL

(* Whatever restarts, rolled back writes and replaced databases there were, the *)
(* waterline at the target never passes the epoch of the source's next batch    *)
(* (epoch_highwater_sync): no source is refused for good.                       *)
THEOREM WaterlineStaysReachable == Spec => []WaterlineReachable
<1>1. IInv => WaterlineReachable
  BY DEF IInv, EpochKept, PushesFaithful, PushFaithful, WaterlineReachable
<1> QED BY Invariant, <1>1, PTL

(* What the target holds from one source is part of one table the source had,   *)
(* however batches overlap, arrive late or come twice (apply_push_batch).       *)
THEOREM TablesAreNeverMixed == Spec => []OneTableAtATime
<1>1. IInv => OneTableAtATime
  BY DEF IInv
<1> QED BY Invariant, <1>1, PTL
=============================================================================
