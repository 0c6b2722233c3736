------------------------------ MODULE IdClient ------------------------------
(***************************************************************************)
(* The registration client of a device (src/relay/src/id_client.rs): the   *)
(* run loop that dials, logs in, serves the control connection and backs   *)
(* off, the task that writes its frames, and the directory calls of the    *)
(* user interface that share the connection.                               *)
(*                                                                         *)
(* The wire has no correlation identifier: `dir` lets one call through at  *)
(* a time (dir_gate), leaves its answer slot in pending_dir before it      *)
(* sends, and takes silence for the success of a write.  Every connection  *)
(* has a number, its channel; the relay at the other end is environment.   *)
(***************************************************************************)
EXTENDS Naturals, Sequences, FiniteSets

CONSTANTS Calls,      \* directory calls made in the life of the client
          None,       \* an empty slot, a free gate
          MaxDials,   \* bound: connections dialled
          PongTicks,  \* heartbeats without a Pong before the session is given up
          MaxPushed   \* bound: frames of the relay on their way to the client

ASSUME IdClientAssumption ==
    /\ None \notin Calls
    /\ MaxDials \in Nat \ {0} /\ PongTicks \in Nat /\ MaxPushed \in Nat

VARIABLES
    stop,     \* the stop flag
    permit,   \* stop_notify holds a permit nobody has taken
    run,      \* where `run` stands
    chan,     \* the channel of the last connection dialled, 0 before the first
    frameTx,  \* frame_tx: the channel a call is given, 0 for none
    slot,     \* pending_dir: the call whose answer is awaited
    gate,     \* dir_gate: the call that holds it
    call,     \* what each call is doing
    queue,    \* frames handed to the writer of each channel
    writer,   \* the writer task of each channel
    up, down, \* frames on the current connection, to and from the relay
    link,     \* the relay's end of it
    reader,   \* whether read_frame is at a frame boundary
    quiet     \* heartbeats since the last Pong

callVars == <<slot, gate, call>>
wireVars == <<queue, writer, up, down, link>>
loopVars == <<run, chan, frameTx, reader, quiet>>
vars == <<stop, permit, loopVars, callVars, wireVars>>

Channels == 1 .. MaxDials
Outcomes == {"Ack", "List", "DirError", "Timeout", "Violation", "Io", "Protocol",
             "NoSession"}
NoAnswer == [k |-> "none", of |-> None]
Dropped == [k |-> "dropped", of |-> None]

\* The frames of the relay: answers to a call, and those of its own.
Answers == [k : {"DirError", "DirListResp"}, of : Calls]
Pushes == [k : {"Pong", "LoginRejected"}, of : {None}]

Init ==
    /\ stop = FALSE /\ permit = FALSE
    /\ run = "check" /\ chan = 0 /\ frameTx = 0
    /\ slot = None /\ gate = None
    /\ call = [c \in Calls |-> [at |-> "idle", write |-> FALSE, tx |-> 0,
                                got |-> NoAnswer, out |-> "none"]]
    /\ queue = [n \in Channels |-> <<>>] /\ writer = [n \in Channels |-> "none"]
    /\ up = <<>> /\ down = <<>> /\ link = "none" /\ reader = "whole"
    /\ quiet = 0

----------------------------------------------------------------------------
\* The run loop.

\* The connection is dropped, and with it what was on its way and the state of
\* its reader and its heartbeat.
Disconnect ==
    /\ link' = "none" /\ up' = <<>> /\ down' = <<>>
    /\ reader' = "whole" /\ quiet' = 0

\* Mutant of Stop: only those who wait already are woken, no permit is kept.
StopWakesWaiters ==
    /\ ~stop
    /\ stop' = TRUE /\ permit' = (run \in {"loop", "backoff"})
    /\ UNCHANGED <<loopVars, callVars, wireVars>>

\* `stop`: the flag, then one permit, kept until somebody waits for it.
Stop ==
    /\ ~stop
    /\ stop' = TRUE /\ permit' = TRUE
    /\ UNCHANGED <<loopVars, callVars, wireVars>>

\* The head of the loop.
Check ==
    /\ run = "check"
    /\ run' = IF stop THEN "ended" ELSE "dial"
    /\ UNCHANGED <<stop, permit, chan, frameTx, reader, quiet, callVars, wireVars>>

DialFails ==
    /\ run = "dial"
    /\ run' = "backoff"
    /\ UNCHANGED <<stop, permit, chan, frameTx, reader, quiet, callVars, wireVars>>

\* The connection stands: its writer runs and calls are given its channel,
\* before the login.
Dial ==
    /\ run = "dial"
    /\ run' = "auth" /\ chan' = chan + 1 /\ frameTx' = chan'
    /\ writer' = [writer EXCEPT ![chan'] = "runs"]
    /\ link' = "up"
    /\ UNCHANGED <<stop, permit, reader, quiet, callVars, queue, up, down>>

\* `authenticate` fails or times out and `?` leaves connect_session at once:
\* frame_tx and the writer stay as they are.
AuthFails ==
    /\ run = "auth"
    /\ run' = "backoff" /\ Disconnect
    /\ UNCHANGED <<stop, permit, chan, frameTx, callVars, queue, writer>>

\* Logged in, candidates registered, the session entered.
AuthOk ==
    /\ run = "auth"
    /\ run' = "loop"
    /\ UNCHANGED <<stop, permit, chan, frameTx, reader, quiet, callVars, wireVars>>

\* The wait between two attempts; bound: no more than MaxDials connections.
BackedOff ==
    /\ run = "backoff" /\ chan < MaxDials
    /\ run' = "check"
    /\ UNCHANGED <<stop, permit, chan, frameTx, reader, quiet, callVars, wireVars>>

StoppedInBackoff ==
    /\ run = "backoff" /\ permit
    /\ permit' = FALSE /\ run' = "ended"
    /\ UNCHANGED <<stop, chan, frameTx, reader, quiet, callVars, wireVars>>

----------------------------------------------------------------------------
\* The control loop: stop, a frame, the heartbeat.

\* Logout is handed to the writer and the loop left for good.
StopNoticed ==
    /\ run = "loop" /\ permit
    /\ permit' = FALSE /\ run' = "leaving" /\ Disconnect
    /\ queue' = [queue EXCEPT ![chan] = Append(@, None)]
    /\ UNCHANGED <<stop, chan, frameTx, callVars, writer>>

\* Mutant of Heartbeat: the Ping sent counts as a sign of life.
PingIsLife ==
    /\ run = "loop"
    /\ quiet' = 0 /\ reader' = IF reader = "half" THEN "lost" ELSE reader
    /\ UNCHANGED <<stop, permit, run, chan, frameTx, callVars, wireVars>>

\* No Pong for too long, else a Ping.  Either way the pending read_frame is
\* dropped with what it had read of a frame.
Heartbeat ==
    /\ run = "loop"
    /\ \/ /\ quiet > PongTicks
          /\ run' = "closing" /\ Disconnect
       \/ /\ quiet <= PongTicks
          /\ quiet' = quiet + 1
          /\ reader' = IF reader = "half" THEN "lost" ELSE reader
          /\ UNCHANGED <<run, link, up, down>>
    /\ UNCHANGED <<stop, permit, chan, frameTx, callVars, queue, writer>>

\* read_frame has part of a frame and waits for the rest.
ReadPart ==
    /\ run = "loop" /\ reader = "whole" /\ down # <<>>
    /\ reader' = "half"
    /\ UNCHANGED <<stop, permit, run, chan, frameTx, quiet, callVars, wireVars>>

\* A whole Pong.  (A TunnelRequest is answered by a task of its own, on a
\* connection of its own: module TunnelBroker.)
ReadPong ==
    /\ run = "loop" /\ reader # "lost" /\ down # <<>>
    /\ Head(down).k = "Pong"
    /\ reader' = "whole" /\ down' = Tail(down)
    /\ quiet' = 0
    /\ UNCHANGED <<stop, permit, run, chan, frameTx, callVars, queue, writer, up, link>>

\* The slot is taken and what it is given reaches its call, unless that has
\* stopped waiting.
Give(answer) ==
    /\ slot' = None
    /\ call' = [c \in Calls |->
           IF c = slot /\ call[c].at # "expired" THEN [call[c] EXCEPT !.got = answer]
           ELSE call[c]]

\* A directory answer goes to whichever call is waiting, or to nobody.
ReadAnswer ==
    /\ run = "loop" /\ reader # "lost" /\ down # <<>> /\ Head(down) \in Answers
    /\ reader' = "whole" /\ down' = Tail(down)
    /\ Give(Head(down))
    /\ UNCHANGED <<stop, permit, run, chan, frameTx, quiet, gate, queue, writer, up, link>>

\* The login is revoked, the connection ends, in the middle of a frame perhaps,
\* or bytes out of the middle of a frame are taken for its header.
ReadFails ==
    /\ run = "loop"
    /\ \/ reader # "lost" /\ down # <<>> /\ Head(down).k = "LoginRejected"
       \/ link = "closed" /\ (down = <<>> \/ reader = "half")
       \/ reader = "lost" /\ down # <<>>
    /\ run' = "closing" /\ Disconnect
    /\ UNCHANGED <<stop, permit, chan, frameTx, callVars, queue, writer>>

\* Out of step the bytes may also pass for a frame to ignore, or for an answer
\* that does not decode: that takes the slot all the same.
ReadGarbage ==
    /\ run = "loop" /\ reader = "lost" /\ down # <<>>
    /\ down' = Tail(down)
    /\ \/ Give(Dropped)
       \/ UNCHANGED <<slot, call>>
    /\ UNCHANGED <<stop, permit, run, chan, frameTx, reader, quiet, gate,
                   queue, writer, up, link>>

\* What follows the loop: the session and frame_tx are cleared first ...
CloseTx ==
    /\ run \in {"closing", "leaving"}
    /\ frameTx' = 0
    /\ run' = IF run = "closing" THEN "failing" ELSE "stopping"
    /\ UNCHANGED <<stop, permit, chan, reader, quiet, callVars, wireVars>>

\* ... then the slot is dropped and its call fails ...
CloseSlot ==
    /\ run \in {"failing", "stopping"}
    /\ Give(Dropped)
    /\ run' = IF run = "failing" THEN "aborting" ELSE "quitting"
    /\ UNCHANGED <<stop, permit, chan, frameTx, reader, quiet, gate, wireVars>>

\* ... and the writer is told to abort, which it does in its own time.
AbortWriter ==
    /\ run \in {"aborting", "quitting"}
    /\ writer' = [writer EXCEPT ![chan] = IF @ = "runs" THEN "aborted" ELSE @]
    /\ run' = IF run = "aborting" THEN "backoff" ELSE "ended"
    /\ UNCHANGED <<stop, permit, chan, frameTx, reader, quiet, callVars,
                   queue, up, down, link>>

----------------------------------------------------------------------------
\* The writer tasks and the relay.

\* A frame is written: it reaches the relay on the current connection, and
\* nobody on one that has been left.
Write(n) ==
    /\ writer[n] \in {"runs", "aborted"} /\ queue[n] # <<>>
    /\ queue' = [queue EXCEPT ![n] = Tail(@)]
    /\ up' = IF n = chan /\ link = "up" THEN Append(up, Head(queue[n])) ELSE up
    /\ UNCHANGED <<stop, permit, loopVars, callVars, writer, down, link>>

Holds(c, n) == call[c].tx = n /\ call[c].at \notin {"idle", "done"}

\* The writer ends: aborted, its write failed, or no sender left.
WriterEnds(n) ==
    /\ \/ writer[n] = "aborted"
       \/ writer[n] = "runs" /\ queue[n] # <<>> /\ (n # chan \/ link # "up")
       \/ /\ writer[n] = "runs" /\ queue[n] = <<>>
          /\ n # frameTx /\ n # chan /\ \A c \in Calls : ~Holds(c, n)
    /\ writer' = [writer EXCEPT ![n] = "gone"] /\ queue' = [queue EXCEPT ![n] = <<>>]
    /\ UNCHANGED <<stop, permit, loopVars, callVars, up, down, link>>

\* The relay handles one directory frame after the other: a write is answered
\* when it is refused, a list always, unless no directory is attached; a
\* breach of identity ends the session.
RelayAnswers ==
    /\ link = "up" /\ run = "loop" /\ up # <<>>
    /\ up' = Tail(up)
    /\ LET c == Head(up) IN
       \/ UNCHANGED <<down, link>>
       \/ ~call[c].write /\ down' = Append(down, [k |-> "DirListResp", of |-> c])
                         /\ UNCHANGED link
       \/ down' = Append(down, [k |-> "DirError", of |-> c]) /\ link' \in {link, "closed"}
    /\ UNCHANGED <<stop, permit, loopVars, callVars, queue, writer>>

RelayPushes ==
    /\ link = "up" /\ run = "loop"
    /\ \E f \in Pushes :
        /\ Len(SelectSeq(down, LAMBDA g : g \in Pushes)) < MaxPushed
        /\ down' = Append(down, f)
    /\ UNCHANGED <<stop, permit, loopVars, callVars, queue, writer, up, link>>

\* The relay goes away, with or without a word.
RelayGone ==
    /\ link = "up" /\ link' \in {"closed", "silent"}
    /\ UNCHANGED <<stop, permit, loopVars, callVars, queue, writer, up, down>>

----------------------------------------------------------------------------
\* `dir`, one lock at a time.

\* Mutant of DirEnter: calls do not wait for one another.
UngatedEnter(c, w) ==
    /\ call[c].at = "idle" /\ frameTx # 0
    /\ call' = [call EXCEPT ![c].at = "tx", ![c].write = w, ![c].tx = frameTx]
    /\ gate' = c
    /\ UNCHANGED <<stop, permit, loopVars, slot, wireVars>>

\* The gate is passed and frame_tx read.
DirEnter(c, w) ==
    /\ call[c].at = "idle" /\ gate = None
    /\ IF frameTx = 0
         THEN /\ call' = [call EXCEPT ![c].at = "done", ![c].out = "NoSession"]
              /\ UNCHANGED gate
         ELSE /\ call' = [call EXCEPT ![c].at = "tx", ![c].write = w, ![c].tx = frameTx]
              /\ gate' = c
    /\ UNCHANGED <<stop, permit, loopVars, slot, wireVars>>

\* The slot is entered before the frame is sent; one it displaces is dropped.
DirRegister(c) ==
    /\ call[c].at = "tx"
    /\ slot' = c
    /\ call' = [d \in Calls |->
           IF d = c THEN [call[c] EXCEPT !.at = "slot"]
           ELSE IF d = slot THEN [call[d] EXCEPT !.got = Dropped]
           ELSE call[d]]
    /\ UNCHANGED <<stop, permit, loopVars, gate, wireVars>>

\* Mutant of Return: the slot is left to the next answer.
ReturnLeavesSlot(c, out) ==
    /\ call' = [call EXCEPT ![c].at = "done", ![c].got = NoAnswer, ![c].out = out]
    /\ gate' = None /\ UNCHANGED slot

Return(c, out) ==
    /\ call' = [call EXCEPT ![c].at = "done", ![c].got = NoAnswer, ![c].out = out]
    /\ gate' = None /\ slot' = None

DirSend(c) ==
    /\ call[c].at = "slot" /\ writer[call[c].tx] # "gone"
    /\ queue' = [queue EXCEPT ![call[c].tx] = Append(@, c)]
    /\ call' = [call EXCEPT ![c].at = "waiting"]
    /\ UNCHANGED <<stop, permit, loopVars, slot, gate, writer, up, down, link>>

\* The frame cannot be encoded, or the writer of the channel has ended.
DirSendFails(c) ==
    /\ call[c].at = "slot"
    /\ Return(c, IF writer[call[c].tx] = "gone" THEN "Io" ELSE "Protocol")
    /\ UNCHANGED <<stop, permit, loopVars, wireVars>>

\* What the answer that came means to the call.
Meaning(c) ==
    CASE call[c].got.k = "DirError" -> "DirError"
      [] call[c].got.k = "DirListResp" -> IF call[c].write THEN "Violation" ELSE "List"
      [] OTHER -> "Violation"

DirAnswered(c) ==
    /\ call[c].at = "waiting" /\ call[c].got # NoAnswer
    /\ Return(c, Meaning(c))
    /\ UNCHANGED <<stop, permit, loopVars, wireVars>>

\* The time is up: the receiving end of the slot is dropped ...
DirTimesOut(c) ==
    /\ call[c].at = "waiting" /\ call[c].got = NoAnswer
    /\ call' = [call EXCEPT ![c].at = "expired"]
    /\ UNCHANGED <<stop, permit, loopVars, slot, gate, wireVars>>

\* ... and then the slot cleared.  For a write silence is success.
DirSilent(c) ==
    /\ call[c].at = "expired"
    /\ Return(c, IF call[c].write THEN "Ack" ELSE "Timeout")
    /\ UNCHANGED <<stop, permit, loopVars, wireVars>>

----------------------------------------------------------------------------
Run ==
    \/ Check \/ DialFails \/ Dial \/ AuthFails \/ AuthOk \/ BackedOff \/ StoppedInBackoff
    \/ StopNoticed \/ Heartbeat \/ ReadPart \/ ReadPong \/ ReadAnswer \/ ReadFails
    \/ ReadGarbage \/ CloseTx \/ CloseSlot \/ AbortWriter

Relay == RelayAnswers \/ RelayPushes \/ RelayGone

Dir(c) ==
    \/ \E w \in BOOLEAN : DirEnter(c, w)
    \/ DirRegister(c) \/ DirSend(c) \/ DirSendFails(c)
    \/ DirAnswered(c) \/ DirTimesOut(c) \/ DirSilent(c)

Next ==
    \/ Stop \/ Run \/ Relay
    \/ \E n \in Channels : Write(n) \/ WriterEnds(n)
    \/ \E c \in Calls : Dir(c)

\* Dialling and logging in are bounded by connect_timeout, the steps after the
\* loop wait for nothing, and a stored permit and the heartbeat timer stay
\* ready until `select!`, which picks among the ready branches at random, has
\* taken them.  Nothing is assumed of the relay or of the writers.
Fairness ==
    /\ WF_vars(Check \/ DialFails \/ Dial \/ AuthFails \/ AuthOk)
    /\ WF_vars(CloseTx \/ CloseSlot \/ AbortWriter)
    /\ WF_vars(StoppedInBackoff) /\ WF_vars(StopNoticed) /\ WF_vars(Heartbeat)

Spec == Init /\ [][Next]_vars /\ Fairness

----------------------------------------------------------------------------
TypeOK ==
    /\ stop \in BOOLEAN /\ permit \in BOOLEAN
    /\ run \in {"check", "dial", "auth", "loop", "closing", "leaving", "failing",
                "stopping", "aborting", "quitting", "backoff", "ended"}
    /\ chan \in 0 .. MaxDials /\ frameTx \in 0 .. chan
    /\ slot \in Calls \cup {None} /\ gate \in Calls \cup {None}
    /\ call \in [Calls -> [at : {"idle", "tx", "slot", "waiting", "expired", "done"},
                           write : BOOLEAN, tx : 0 .. MaxDials,
                           got : Answers \cup {NoAnswer, Dropped},
                           out : Outcomes \cup {"none"}]]
    /\ queue \in [Channels -> Seq(Calls \cup {None})]
    /\ writer \in [Channels -> {"none", "runs", "aborted", "gone"}]
    /\ up \in Seq(Calls) /\ down \in Seq(Answers \cup Pushes)
    /\ link \in {"none", "up", "silent", "closed"}
    /\ reader \in {"whole", "half", "lost"}
    /\ quiet \in 0 .. PongTicks + 1

\* pending_dir is the slot of the call inside `dir`, never of one that has
\* returned, and a call that waits without an answer is still in it: whatever
\* takes a slot, an answer, garbage or the end of the session, tells the call.
SlotIsTheWaiter ==
    /\ slot # None => gate = slot /\ call[slot].at \in {"slot", "waiting", "expired"}
    /\ \A c \in Calls :
        call[c].at \in {"slot", "waiting"} /\ call[c].got = NoAnswer => slot = c

\* An answer reaches a call only if it came over the connection the call sent
\* on: a call that kept the channel of a lost session is not answered with
\* what a newer session says to another.
AnswerFromItsConnection ==
    \A c \in Calls : call[c].got \in Answers => call[call[c].got.of].tx = call[c].tx

\* `stop` ends the run loop wherever it comes, in the middle of a login, of a
\* session, of its end or of the wait for the next attempt.
StopEndsRun == stop ~> run = "ended"

\* A session whose relay is gone, or whose reader has lost the frame boundary,
\* is left: the heartbeat does not depend on what can still be read.
DeadSessionIsLeft ==
    run = "loop" /\ (link # "up" \/ reader = "lost") ~> run # "loop"

\* What the comments of `dir` and of the control loop rely on: with one call at
\* a time no identifier is needed, the answer a call gets is the answer to it.
AnswerIsMine == \A c \in Calls : call[c].got \in Answers => call[c].got.of = c
=============================================================================
