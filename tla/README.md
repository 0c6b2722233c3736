# KirinDesk in TLA+

KirinDesk is a remote desktop written in Rust. Two peers reach each other
directly, through a punched hole, or through a relay server that keeps device
registrations, brokers tunnels, carries reverse proxies and introduces the two
ends of a hole-punching session. This directory holds TLA+ models of that
program, the TLC configurations that check them and proofs that TLAPS checks.

Paths below are those of the repository, without the leading `src/`.

## 1. Inventory

The program is a workspace of crates. Where several tasks share state, tokio
runs them on several threads; a lock is held across one section and never
across an await, so the unit of interleaving is a lock section or an await.

| part | state | operations | talks to |
|---|---|---|---|
| relay: brokered tunnels (`relay/src/server.rs` `handle_tunnel_conn`, `handle_tunnel_arrival`; `relay/src/registry.rs`) | `Registry.tunnels`, `pending_tunnels`, `pending_by_target`; the streams parked in an entry | open, register, pair, poll, cancel, pipe | controllers, devices, the control queue of a session |
| relay: control sessions (`server.rs` `run`, `handle_incoming`, `start_session`, `run_session`, `cleanup_session`; `registry.rs`) | session map, online table, pre-auth counters, activity clocks | accept, first frame, login, register, heartbeat, sweep, clean up | every client; unregisters devices the broker looks up |
| relay: reverse proxies (`server.rs` `register_proxy`, `close_proxy`, `proxy_listener`, `pump_work`, `handle_work_arrival`) | proxies of a session, its task list, `pending` of a proxy, `pending_index` of the server, `conn_count` | register, update, close, accept, wait for a work connection, pump, drain | the session's writer; public clients; work connections |
| relay: rendezvous (`relay/src/rendezvous.rs`) | session table with two seats, freshness counters, routes | register candidates, exchange, forward, evict, clean up | any control connection |
| relay: id client (`relay/src/id_client.rs`) | stop flag and permit, `frame_tx`, `pending_dir`, `dir_gate`, the writer task, a partly read frame | dial, log in, control loop, heartbeat, directory calls, stop, back off | the relay; the user interface |
| relay: frpc client (`relay/src/client.rs`) | proxies to register, backoff | as above, with proxies | the relay |
| framing, limits, tokens (`relay/src/protocol.rs`, `rate_limit.rs`, `auth.rs`) | partly read frame; counters per address | read a frame, count, prove | all of the above |
| directory (`relay-server/src/dir_backend.rs`, `interconnect.rs`, `dir_store.rs`) | rows per device and target, epoch and its sidecar file, outbox; at a target waterlines and pushed rows | upsert, delete, push, retry, re-push, gate, apply, expire, restart | other relays |
| file transfer (`core/src/connection/file_transfer.rs`; drivers `mobile/src/file_transfer.rs`, `ui/src/lib.rs` `FileSession`) | sliding window of a sender, receiver with `.part` file, progress store, queues and slots | offer, accept, data, ack, repeat, finish, cancel, resume, pause | the peer's engine over one ordered stream |
| connection limiter (`core/src/network/rate_limit.rs`) | buckets with attempts, failures, ban, escalation | check, report failure, reset, prune | every incoming handler |
| other core connections (`core/src/connection/`) | path states, punch sessions, temporary window, reconnection attempts, demux sinks | | relay, media |
| core crypto (`core/src/crypto/`) | identity keys, handshake transcript | handshake, seal, open | all peers |
| media (`media/src/`) | fragment buffers, degradation state, encoder settings | reassemble, recover, adapt | transport |
| dns, updater, utils, input, user interfaces | records, files, hooks | I/O | |

What is hard here, and so what the properties are about:

* **Interleaving.** Accept tasks, session tasks, listener tasks, pump tasks and
  the sweep touch the same tables. Caps are checked in one section and charged
  in a later one.
* **Late answers.** A device answers while its request times out; a work
  connection arrives after its user was given up; a login completes while the
  session it replaces is cleaned up.
* **Abortion.** A task that is aborted at an await skips everything after it.
* **Silence.** A peer may go without an EOF; only clocks notice.
* **Slots and counters.** Each must be returned once on every path, errors
  included.
* **Crashes.** Progress, data and final name of a file, and the epoch of a
  directory and its sidecar, are separate writes.
* **No answer, no identifier.** A push is never acknowledged, and the answer to
  a directory call is recognised only by being the next one.

For each part, what makes it correct: the broker pairs a controller with the
device that answered its own request, once, and forgets nothing; a session is
in the tables exactly as long as a task will take it out, and a key belongs to
an id while it is online; a public connection is piped or closed and a port
does not outlive its session; an exchange of candidates is fresh, ordered and
between the two ends that hold the seats; a file that counts as sent is saved
whole, and no slot or task is lost on the way; a target's copy of a directory is
one table of its source and catches up; a directory call gets the answer of its
own connection and the client can always be stopped; the limiter keeps its rate,
its bans and its table size although reports come late. PROJECT.json lists all components,
and all hazards by line.

## 2. Order of work

The modules were written in the order of what a user of the program depends on:
the relay (`TunnelBroker` with `TunnelPairing`, `RelaySessions`, `ProxyRelay`,
`Rendezvous`), then file transfer (`SlideWindow`, `SendWindow`, `FileTransfer`
with `FileCopies`), the directory (`DirectorySync`), the client of the relay
(`IdClient`) and the limiter before every handshake (`ConnLimiter`). No module
uses a recursive operator, so all can carry proofs.

What would come next, and why it is not here: `RelaySessions` and `TunnelBroker`
composed over one online table (each has the other as a free environment today,
which covers more, not less); `frpc` as the client of `ProxyRelay`. Section 8 says
what is left out for good.

## 3. Modules and code

| module | models | note |
|---|---|---|
| `TunnelBroker` | the broker, one action per lock section or await of the handler, with both clients | |
| `TunnelPairing` | what the broker promises | abstract, no table, counter or lock |
| `RelaySessions` | accept to cleanup of control connections, online table, sweep | |
| `ProxyRelay` | the proxies of one session | |
| `Rendezvous` | candidate exchange | |
| `SlideWindow` | `SlideWindowSender`, one operator per method | no state of its own |
| `SendWindow` | one sender under the clock of the desktop's or the phone's driver | uses `SlideWindow` |
| `FileTransfer` | the engine of the phone at both ends of a session, with crashes | uses `SlideWindow`; implements `FileCopies` |
| `FileCopies` | what file transfer promises | abstract |
| `DirectorySync` | several relays pushing their rows to one target | |
| `IdClient` | run loop, writer and directory calls of the registration client | |
| `ConnLimiter` | the limiter and the handlers that share it | |
| `TunnelBrokerProofs`, `RelaySessionsProofs`, `ProxyRelayProofs`, `RendezvousProofs`, `DirectorySyncProofs`, `IdClientProofs`, `ConnLimiterProofs` | proofs | each extends its module |
| `TransferProofs` | proofs about one sender and about the two ends | extends `SendWindow` and `FileTransfer` |
| `MC...` | instances for TLC | plans, resume points, symmetry sets |

Each module also holds operators marked as mutants: a modelled action, altered
the way a slip in the code would alter it. No action of `Next` uses them; put
in the place of the action they vary, each makes a property of the module fail.

### TunnelBroker

`hpc[c]` is the program counter of `handle_tunnel_conn` for the connection `c`.
A connection stands for the conn_id it is given, since these are drawn at
random and do not repeat. In order: `CheckGlobalCap` and `CheckTargetCap`
(server.rs:1503 and after), `LookupTarget`, `SendTunnelRequest`,
`InsertPending` (`register_tunnel`), `CountPending`, `CountTarget` (the two
increments), then `wait_for_pair`: `PollPaired`, `PollExpired`, `CancelTunnel`;
then `UncountPending`, `UncountTarget`, `Answer`, `PipeEnds`. The poll and the
cancel are two lock sections, and a pair that lands between them is closed by
`CancelTunnel`. `PairTunnel` is `pair_tunnel`. `BackConnect`, `RepeatHeader` and
`BackConnectFails` are the device: it may dial late, twice or not at all.
`GiveUp` is the controller's own, shorter timeout.

The deadline is a flag `due` raised by `DeadlinePasses`, at any moment after the
wait began: every interleaving of the real clock is among these. The look-up
of a device id is a member of `online`, which changes freely; `RelaySessions`
models how. Bytes are not modelled.

### RelaySessions

`cpc[c]` is the program counter of the task of connection `c`. `Accept` and
`Release` handle the pre-auth slot; `CheckSessionLimit`, `InsertSession`,
`ReadProof` or `ProofMissing`, `VerifyProof`, `Register`, `RejectLogin` are `start_session`;
`SessionTick`, `SessionEnds` are the loop; `LeaveMap`, `Unregister`, `Release`
the cleanup. `Sweep` is the task that takes idle devices out of the online
table, and `Tick` the clock: it moves only when every session has run its
heartbeat since the last move, because the tick interval is far below the
timeout. `link[c]` is what the network does to a connection: up, silent
without EOF, or at EOF; it can come back from silence, not from EOF.

Ages stop at `Timeout + 1`; the code only asks whether an age exceeds it.

### ProxyRelay

`lpc[e]` is the program counter of the listener task of a `ProxyEntry`. The
listener is sequential: while it waits for the work connection of one public
connection it accepts no other. Abortion is modelled as tokio has it: a task
waiting at an await is gone at once (`AbortTasks`), one that is running is
`flagged` and goes at its next await (`ListenerDies`), unless what it awaits is
ready. `RegisterProxy` of a name in use replaces the entry in the table first
and then asks `close_proxy` for that name, which finds nothing left to close, as
in the code (server.rs:1719). `TakeIndex` and
`Deliver` are the two sections of `handle_work_arrival`.

### Rendezvous

`Register` is one lock section; the two messages it copies are queued in
`outbox` and sent one by one by `Send`, outside the lock. Within one
connection frames are handled in order; across connections everything
interleaves. `RemoveRoute` and `RemoveSlot` are the two sections of
`cleanup_conn`. A candidate list is named by its sender and the number of the
registration, which is all that staleness and order need. `recent` lists the
sessions by last activity; the code compares clock readings, so ties, which
the code breaks arbitrarily, are the one thing abstracted.

### SlideWindow and SendWindow

`SlideWindow` has one operator per method of `SlideWindowSender`, on a record
with the cursors (`start`, `next`), the blocks marked as sent, the age of each
block in flight, the counter `inFlight`, the idle clock and the time of the
offer. `SendWindow` is the driver: `SendOffer`, the five frames of the peer,
`Stop`, `Pause`, `Resume` and `DriverTick`, which is `on_tick` in the order of the
code: take out what is due, judge the deadline, fill the window. The two drivers
differ in who notes the time of an offer and in whose blocks a tick may send;
`driver` chooses one. Clocks are ticks and stop at their limit, since the code
only asks whether a limit is reached. `early` records that blocks went out
before the Accept, which the desktop does to a queued task. The code has a
handler for Nack, and it is modelled, although no peer sends one today.

### FileTransfer and FileCopies

A node is one end: what its engine holds for a session, and what outlives it
(`transfers.json`, `.part` files, saved files, its own sources). A handler is an
operator from node to node that lists the frames it sends; `Ran` makes it a step,
since the engine's task runs one handler at a time. Calls made at the end of a
handler (the next task from a queue, a freed slot, a removed record) are part of
it. The loops over a queue (`schedule_next_send`, `maybe_start_recv`) and over the
tasks (`on_tick`) are functions `go` from the number of rounds to the node after
them, with one round as an operator (`PopSend`, `PopRecv`, `Fill`). The contents of a block is the version of the file it was read from, so
that an edit during a transfer shows as a mixed file; the hash of an Offer is the
version it was computed from. `Disconnect(crashed)` ends a session for both ends;
an end that crashed has the record of its last tick. `FileCopies` says what is
promised: an end saves only whole copies of a version the other end has or had.

### DirectorySync

Each source has its rows, its epoch, the sidecar file that remembers the epoch, an
outbox flag and a token; a push is a record with the place of its task at the
source and of its batch at the target, which need not end together. The task
takes the store's mutex once per query (`ReadRows`, `ReadEpoch`), so writes fall
between. `Gate` and `Apply` are two steps, as in `verify_and_apply_push`. `Restart`
is the end of a process inside or outside a write, with the database kept or
found corrupt. A row is the second of its last write, and the clock may stand
still between two writes, so ties happen. `past` is history.

### IdClient

`run` is where the run loop stands: `check`, `dial`, `auth`, `loop`, then after
the loop `closing`, `failing`, `aborting` and `backoff`, or, after `stop`, `leaving`,
`stopping`, `quitting` and `ended`. These are three steps because the code clears
`frame_tx`, drops the answer slot and aborts the writer one after the other while
directory calls run. A connection is a channel number. `frame_tx` is set before
the login, and a failed login leaves it set. An aborted writer may still write what
it had begun. The heartbeat drops a `read_frame` in the middle of a frame
(`reader = "lost"`), after which bytes are errors or garbage. A call is `DirEnter`
(gate and channel), `DirRegister` (slot), `DirSend`, then an answer, a dropped slot
or its timeout, which is two steps because the slot outlives its receiver.

### ConnLimiter

Each call to the limiter holds its mutex and is one action. A handler asks once
(`Admit`, `Refuse`), is busy with a handshake for as long as it likes, then
reports (`Fail`, `Succeed`) or returns without a report (`Leave`, two return
paths of `handle_incoming_connection`). Time is a counter of ticks. The buckets are
lazy, as in the code: attempts leave a window and bans end only when a call
looks. Three histories follow the clock instead: `granted`, `strikes` and `due`.
The properties compare what the calls did with what the clock says. Which of two
buckets seen at the same instant is evicted is left open.

## 4. Runs

Bounds are constants of the configurations. Every run finishes; the largest
have about 1.4 million distinct states and take two to three minutes on two cores.

| run | instance | shows |
|---|---|---|
| `broker` | 2 handlers, 2 streams, 1 device, caps 2 and 1 | `CountersExact`, `TableExact` (`NoResidualEntry` and `StreamOwned`), `OpenMeansPaired`, the refinement `ImplementsPairing`, and that handlers end |
| `sessions` | 2 connections, 1 id, 2 keys, 2 addresses, session cap 1, slot cap 1, timeout 1 | `PreauthExact`, `TablesExact` (`SessionsExact` and `NoGhostEntry`), `KeyNeverReplaced`, and that the connection of a dead peer is closed |
| `proxy` | 1 name, 2 ports, 2 entries, 2 users, limits 1 | `WorkWithinLimit`, `IndexServed`, and that a held user settles and ports are freed |
| `rendezvous` | 3 connections, 3 session ids in a table of 2, 2 registrations each | `TypeOK`, `NoStaleForward`, `CandidatesInOrder`, `SeatIsKept`, `EmptySessionFreed` |
| `window` | 4 blocks, window 2, block timeout 1, idle 3, offer 4, resume at 0, 1 and the end, both drivers | `InFlightExact`, `OnlyOffersExpire`, that an offer is watched and that the window never jams |
| `transfer` | 2 files of 2 blocks one way, 1 slot, 2 versions, 3 starts, 2 disturbances | `TypeOK`, `PartHoldsProgress`, `NoSlotLost`, `AckedIsOnDisk`, `NobodyWaits`, `CompletedIsSaved`, the refinement `OnlyWholeCopies` |
| `directory` | 2 sources, 2 devices, 2 pushes at a time, 2 writes, 1 fault | `WaterlineReachable`, `OneTableAtATime`, and that the target ends up in step |
| `registration` | 2 calls, 2 connections, 1 frame pushed by the relay, heartbeat limit 0 | `SlotIsTheWaiter`, `AnswerFromItsConnection`, that `stop` ends the loop and a dead session is left |
| `limiter` | 2 handlers, 4 addresses, table of 1, 2 attempts in 2 ticks, ban after 2 failures, 8 ticks | `RateKept`, `BanHonoured`, `BanEarned`, `TableBounded` |
| `directory_revoked` | 1 source, 1 device, 2 writes, no fault | `RevocationKept` is violated |
| `transfer_cross` | one file both ways, 2 blocks | `CompletedIsSaved` is violated |
| `registration_late` | as `registration` | `AnswerIsMine` is violated |

Types are checked by the provers, for all values of the constants, in every
module; in `Rendezvous` and `FileTransfer` the runs check them too.

Why these bounds are enough to mean something. Two handlers are what a check
separated from its charge needs, and two streams what a duplicate answer or a
stream for the other conn_id needs. Two connections of one id are a reconnect
that overtakes the cleanup; with two keys they are a conflict. Their session
cap of one is below the number of connections, so both refusal and excess occur.
Two entries are a proxy and its update, and two users with a limit of one reach
refusal and the head-of-line wait. Three connections with two seats give a
third end; three ids in a table of two give eviction; two registrations give a
refresh. Four blocks and a window of two give a full window, a late cumulative
ack and blocks still unsent; the timeouts keep the order of the code's. Two
files for one slot queue; two versions mix; two disturbances are a crash and
what goes wrong afterwards, or a cancel that crosses a repeat. Two pushes
overtake one another; two writes are a write and its revocation, or a claim by
each source in the same second. Two connections are a session and the one a
stale channel must not be confused with; two calls are a late answer and its
victim. Two handlers, a threshold of two and eight ticks let a handshake outlive
the window, the ban and the bucket it began under, and four addresses in a table
of one evict. `MaxRegs`, `MaxStarts`, `MaxWrites`, `MaxDials`, `MaxTime` and the
like bound what in the code is unbounded.

`Init` of `TunnelBroker` and `RelaySessions` lets the environment choose: which
devices are online, whom a connection asks for, what a client presents.

Most configurations say `CHECK_DEADLOCK FALSE`: a session with its proxies ends
for good, connections close, transfers end, `stop` is final, and the bounded
clocks and budgets run out. In `broker`, `sessions` and `limiter` something can
always move, so the absence of deadlock says little there. That nothing hangs is
what the liveness properties and `NobodyWaits` show.

## 5. Where the code and its comments disagree

Three disagreements have a run of their own, whose violation is the point:

* `directory_revoked` – dir_store.rs:1396: a deletion does not advance the epoch
  although dir_backend.rs:699 and dir_store.rs:1741 say so. Two pushes, one read
  before and one after it, carry the same epoch; applied in the wrong order, the
  revoked row is back at the target until its time to live is over, and the
  source no longer knows that it has anything to push.
* `transfer_cross` – mobile/src/file_transfer.rs:1249: a Finish for an unknown
  task is answered as saved. The two directions of one file share an id, and the
  end of one removes the task of the other, whose sender then reports success.
* `registration_late` – id_client.rs:614: with no identifier on the wire, the
  late refusal of a write that was taken for acknowledged is given to the next
  call, which id_client.rs:601 calls unreachable.

The others were met while modelling. The models contain these behaviours; the
properties of section 4 hold in spite of them.

* server.rs:1503 reads the pending counter that server.rs:1569 raises two awaits
  later, so concurrent handlers exceed what server.rs:178 calls a hard limit. The
  session cap of server.rs:915 has the same form.
* registry.rs:534 queues TunnelRequest before registry.rs:541 enters its conn_id,
  against protocol.rs:269: a quick device is turned away and the controller waits
  for its whole timeout.
* server.rs:2058 takes a device id out of the online table although a newer
  session of the device has registered it; heartbeats refresh an entry and never
  make one, so the device is unreachable until its next login.
* server.rs:538 gives a pre-auth slot back when the whole session or tunnel ends;
  server.rs:55 defines the slots as those of half-open connections.
* server.rs:1841: `close_proxy` does not abort the listener, as server.rs:1840
  says; the public port stays bound until the session ends.
* server.rs:2077: a listener aborted while it waits on a proxy that is no longer in
  the table leaves its `pending_index` entry for the life of the server.
* rendezvous.rs:493 overwrites the route of a connection that registers under a
  second session id; the seat in the first has no owner left to free it
  (rendezvous.rs:645 promises that no state is left).
* rendezvous.rs:505 compares one version with two counters, so two ends that have
  both registered anew may not count as fresh (rendezvous.rs:499).
* core file_transfer.rs:1480 counts a repeated block as activity, and `on_tick`
  repeats first: the idle timeout of file_transfer.rs:38 never ends an accepted
  transfer. `IdleDeadlineNeverMet` proves it.
* ui/src/lib.rs:11487 lets a tick send blocks of a task that is still queued,
  against the comment at ui/src/lib.rs:11482.
* core file_transfer.rs:1425 resumes from the larger of both sides' progress; a
  receiver that lost progress finds a block ahead, and the transfer is cancelled
  with its `.part` file.
* id_client.rs:438 publishes `frame_tx` before the login and a failed login leaves
  it: a write made then is reported as acknowledged, where id_client.rs:233
  promises `NoSession`.

## 6. Fairness

* `TunnelBroker`: weak fairness of each handler, of its deadline and of each
  back-connection's task. tokio runs a ready task in the end, locks are held
  briefly, and `wait_for_pair` polls on a timer. No client is fair: the device
  need not answer and the controller need not read. `PipeEnds` is not fair:
  a pipe may last.
* `RelaySessions`: weak fairness of each task step, of the clock and of the
  sweep. A session loop that has seen an EOF must end; a login that waits for a
  proof has a timeout of its own. A peer that is up need not do anything.
* `ProxyRelay`: weak fairness of the session task, of each listener and of an
  arriving work connection. `WorkTimeout` is one of the listener's steps: the
  wait has a timeout. Public users and the client are not fair, and neither is
  a pump.
* `Rendezvous`, `FileTransfer`, `ConnLimiter`: none; they have only safety
  properties. `NobodyWaits` says without fairness what liveness would rest on:
  when nothing is under way, nobody is waiting.
* `SendWindow`: weak fairness of the tick and of the queue that offers the file.
  `WindowNeverJams` names in its own premise what it asks of the peer (it accepts,
  acknowledges the newest block again and again, answers a Finish) and of the
  user (no pause for good).
* `DirectorySync`: tasks run, and the periodic push and the slow sweep come
  round. The periodic push has strong fairness because in the model it needs a
  free slot, of which the code has no shortage. Faults are bounded by a budget,
  so the premise of `RepushConverges` is only that tokens stay.
* `IdClient`: dialling and login are bounded by `connect_timeout`; the steps after
  the loop wait for nothing; a stored permit and a due heartbeat stay ready until
  `select!`, which picks among ready branches at random, takes them. Nothing is
  assumed of the relay, of writers or of calls.

## 7. Proofs

For every value of the constants, under the assumptions the modules name: the
sets that are counted are finite (connections, users, addresses, sources,
slots), `None` is not one of the values it marks the absence of, limits are
natural numbers, and in `SendWindow` `BLOCK_TIMEOUT` is below `IDLE_TIMEOUT`, as
the constants of the code have it (10 and 30 seconds).

**TunnelBroker.** `BrokerInv` is inductive: `TypeOK`, `CountersExact`, and a
shape that ties the tables to program counters (`NoResidualEntry`,
`StreamOwned`, `PairKept`, `SlotKept`, `ResponseKept`). None of the checked
invariants is inductive alone: that a decrement stays above zero needs
`CountersExact`, that needs the program counters, and that a pair belongs to its
controller needs the ownership of the stream before it was paired.
`CountersAlwaysExact`, `TableAndStreams` and `OpenIsPaired` follow.
`BrokerImplementsPairing` shows under that invariant that each step is a step of
`TunnelPairing` or a stutter, with the mapping `StageOf`: a connection is
"asked" from its arrival to the poll or the cancel that takes its entry out.

**RelaySessions.** `SessionsInv` is the conjunction of the checked invariants.
`NoGhostEntry` rests on program counters, since an entry exists only between
the registration and the unregistration of the session it names.
`KeysAreKept` is an action property; the case that matters is `Register`, which
compares the key a second time in the section that writes it.

**Rendezvous.** `RendezvousInv`: candidates already given are no newer than the
last exchange (`GivenIsOld`), a seat is never ahead of its connection's
registrations (`BehindRegs`), and no session in the table is empty.
`NoForwardIsStale` follows: an exchange needs both counters above the version
of the last one, so neither seat can still be marked given. The proof
describes what a step does to one session (`SessionMove`) and lifts that.

`CandidatesArriveInOrder` is an action property over messages that leave the lock
with different tasks. `OrderInv` says that whatever waits to be sent to an end is
newer than what that end received from the same peer in the same session, and that
no two waiting messages, of one task or of two, carry candidates of one end to one
other: a second one would need a second exchange, and the version counters allow
none before both have registered again, which a connection does only with an empty
outbox. `RendezvousTypeCorrect` adds `RecentInv`: the list by activity is the table,
each session once, so its length is that of the table.

**ProxyRelay.** `ProxyInv`: types; `Serving`, what the listener of an entry relies
on at each of its steps, among it that the room it saw under the work limit is
still there when it spawns the pump, since no other task adds pumps to that
entry; `NotFlagged` and `Accepted`; `Counted`, that the counter is the number of
pumps until the cleanup; and `IndexServed`. `WorkIsLimited` needs all but the last.

**SendWindow** (the first part of `TransferProofs`). Each method of the sender is a lemma: it keeps `Sound` (cursors in
order, ages within the idle clock) and, unless blocks went out early, `Exact` (the
counter is the number of blocks in flight). `WindowInv` adds what a phase says about
the cursors and the offer. `IdleDeadlineNeverMet` follows from `IdleFollowsAge`:
after the due blocks are out of flight, what is left was sent less than
`BLOCK_TIMEOUT` ago, and so was the last activity.

**FileTransfer.** `TransferInvariant` is about both ends and the two queues of frames
between them, for any number of files, blocks, versions, slots and frames. Its
hypothesis `OneWay` says that a file is sent by one end only. It is needed: where both
send the same file, the run `transfer_cross` shows the properties violated. The run
`transfer` is an instance that satisfies it. `TransferInv` has four parts:

* `Half`, what one end holds by itself: the windows are `Sound`, `Exact` and `Still`
  (the lemmas about one sender are used again), every entry of the queue that is
  not cancelled is there once, the slots count what they stand for, a `.part` file is
  as long as its receiver has counted and no shorter than its record;
* `IsFrame` and `Dated`: a frame on its way is one its sender may send, and no version
  promised to the other end is newer than the file;
* `Drained`: the receiving queue is empty or has no slot, since every handler that
  frees a slot goes on to the next task;
* `Line`: for each file, the sender's task, what the receiver holds and the frames of
  that file in both queues fit one state of a conversation. `Idle`, `OfferOnItsWay`,
  `Pending`, `Refused`, `Accepting`, `Running` and `Done` follow a transfer from the
  offer to FinishAck; `StoppedEarly` and `Stopped` are those whose receiver has
  cancelled; `Over` is what the sender has cancelled. `InTurn` says in which order the
  frames of a file can stand in a queue (`Follow`): a Finish, for instance, is followed
  by nothing but a Cancel.

The heart of it is `Progress`, of a conversation that is `Running`: the receiver's
next block lies between what is acknowledged and what was sent; a newest block not yet
received is on its way as Data, and a newest block received but not acknowledged is on
its way as an Ack; and a Finish is on its way exactly if all is acknowledged. So
every running transfer has a frame under way, which is what `NobodyWaits` needs,
and a Finish finds all blocks, which `CompletedIsSaved` needs.

The proof has one lemma per handler (`OfferGood`, `AcceptGood`, `AckGood`, `DataGood`,
`FinishGood`, `EndsGood`, `CancelFrameGood`, `TickGood`, and so on), each about an
abstract pair of ends `n`, `m` with the queues `c`, `d` (`Good`); a step of either
end is one of these read from its side (`GoodTurned`). `StepAbout` and its kin say
that a handler that speaks of one file leaves the lines of all others alone. The
loops over queues need no induction over data: the function `go` exists and each of
its rounds keeps `Good`, which the well-ordering of the natural numbers turns into a
statement about the last one (`Reached`). `TransferTypeCorrect`, `PartFilesHoldProgress`, `SlotsComeBack`,
`AckedBlocksAreOnDisk` and `NoTransferHangs` are read off the invariant.
`CompletedFilesAreSaved` and the refinement `TransferImplementsCopies` also use what
each handler does to the saved files (`Keeps`, `Completed`): one step saves at most
one file, whole, in the version its Offer named, and only a FinishAck, which `Done`
says was preceded by that, completes a sender. The module also holds the theorems
about `SendWindow`, so the assumption on its timeouts is in scope, and the lemmas
about one sender use it; `FileTransfer` has no timeouts, so it restricts nothing there.

**DirectorySync.** `IInv`: the sidecar is never behind the epoch and the waterline
never ahead of it (`EpochKept`), a batch under way carries a table its source has
had and an epoch it has reached (`PushesFaithful`), and the target holds of each
source part of one such table. `WaterlineStaysReachable` needs the sidecar,
because a replaced database restarts from it.

**IdClient.** `IInv`: the gate makes the call inside `dir` unique (`GateIsExact`);
a call in the gate with an older channel means that no call has sent on the newer
one (`CallsBehind`); every frame in a queue or on the wire is of a call that was
given this connection (`FramesBelong`). `NoAnswerAcrossSessions` follows.

**ConnLimiter.** `IInv`: `Agrees`, that each lazy bucket agrees with the histories
that follow the clock (its attempts within the window are the admissions, its
failures are the strikes unless a ban has run out unnoticed, its ban is the one
that is due), and `Sized`, that buckets plus handshakes whose bucket is missing
do not exceed the limit plus the number of handlers. The five properties follow.

**Only model-checked.** The liveness properties (`HandlerEnds`,
`DeadPeerIsClosed`, `HeldUserSettles`,
`SessionEndFreesPorts`, `OfferWatched`, `WindowNeverJams`, `RepushConverges`,
`StopEndsRun`, `DeadSessionIsLeft`), which rest on fairness and on when actions
are enabled, outside the prover's reach. Every invariant, every other action property
and both refinements that a run checks have a theorem; those about `FileTransfer`
under `OneWay`.

## 8. Not modelled

* Cryptography, tokens and message encoding are boolean outcomes of a check. The
  handshake of `core/src/crypto` is a matter for a protocol prover.
* The vendor clients of dynamic DNS, capture, codecs, GPU code, input hooks and
  the user interfaces are I/O and platform calls. They are most of the source
  and have little state that several actors share; the parts of the user
  interfaces that carry protocol (`FileSession`, `handle_incoming_connection`) are
  modelled with what they drive.
* Bandwidth adaptation and degradation are numeric control over measured time,
  which a model checker cannot say much about.
* `path_manager.rs` is used by nothing but a self-test of the command line;
  `punch.rs` is a linear series of timed probes whose outcome the network decides;
  the temporary window is one file, which two connections may both verify
  before either consumes it (temp_mode.rs:348);
  `relay/src/rate_limit.rs` is a second implementation of the scheme of
  `ConnLimiter`; `frpc` repeats the run loop of `IdClient`.
* Within modelled parts: the attempt counter and the lengths of waits of
  `IdClient`; quotas, look-ups and audit rows of the directory; paths, archives and
  directories of file transfer. Each either refuses a request without changing
  state or changes nothing the properties are about.

The bytes that flow once a tunnel, a pump or a path is established are abstracted
throughout.
