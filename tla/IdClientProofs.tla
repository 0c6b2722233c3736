--------------------------- MODULE IdClientProofs ----------------------------
(***************************************************************************)
(* Proofs about IdClient, for any number of calls, of connections and of   *)
(* heartbeats.                                                             *)
(*                                                                         *)
(* The gate makes the call inside `dir` unique, and the slot is only ever  *)
(* that call's.  A call that entered on an older connection keeps the gate,*)
(* so no call has sent anything on the newer one, and nothing that comes   *)
(* over the newer one is an answer.                                        *)
(***************************************************************************)
EXTENDS IdClient, TLAPS

Inside == {"tx", "slot", "waiting", "expired"}

GateIsExact ==
    \A c \in Calls :
        /\ call[c].at \in Inside <=> gate = c
        /\ call[c].at \notin {"slot", "waiting", "expired"} => call[c].got = NoAnswer

\* the connection a call was given is the current one, or nobody uses that
CallsBehind ==
    /\ frameTx \in {0, chan}
    /\ \A c \in Calls : call[c].tx <= chan /\ (call[c].at = "idle" => call[c].tx = 0)
    /\ \A c \in Calls : gate = c =>
        call[c].tx # 0 /\ (call[c].tx # chan => \A d \in Calls : call[d].tx # chan)
    /\ \A c \in Calls : call[c].got \in Answers =>
        call[call[c].got.of].at # "idle" /\ call[call[c].got.of].tx = call[c].tx

LinkIsCurrent ==
    /\ run \in {"check", "dial"} => chan < MaxDials
    /\ run \notin {"auth", "loop"} => link = "none"
    /\ run \in {"auth", "loop"} => chan > 0
    /\ link = "none" => up = <<>> /\ down = <<>>
    /\ \A n \in Channels : n > chan => queue[n] = <<>>
    /\ link = "up" => \A i \in 1 .. Len(queue[chan]) : queue[chan][i] # None

\* whose frames are on their way, and over which connection
FramesBelong ==
    /\ \A i \in 1 .. Len(up) : call[up[i]].at # "idle" /\ call[up[i]].tx = chan
    /\ \A i \in 1 .. Len(down) : down[i] \in Answers =>
        call[down[i].of].at # "idle" /\ call[down[i].of].tx = chan
    /\ \A n \in Channels : \A i \in 1 .. Len(queue[n]) : queue[n][i] # None =>
        call[queue[n][i]].at # "idle" /\ call[queue[n][i]].tx = n

IInv == TypeOK /\ GateIsExact /\ SlotIsTheWaiter /\ CallsBehind /\ LinkIsCurrent /\ FramesBelong

-----------------------------------------------------------------------------
\* TypeOK in three parts: the run loop, the calls, the wire.
LoopTyped ==
    /\ stop \in BOOLEAN /\ permit \in BOOLEAN
    /\ run \in {"check", "dial", "auth", "loop", "closing", "leaving", "failing",
                "stopping", "aborting", "quitting", "backoff", "ended"}
    /\ chan \in 0 .. MaxDials /\ frameTx \in 0 .. chan
    /\ reader \in {"whole", "half", "lost"}
    /\ quiet \in 0 .. PongTicks + 1
CallRecords ==
    [at : {"idle", "tx", "slot", "waiting", "expired", "done"},
     write : BOOLEAN, tx : 0 .. MaxDials,
     got : Answers \cup {NoAnswer, Dropped}, out : Outcomes \cup {"none"}]
CallTyped ==
    /\ slot \in Calls \cup {None} /\ gate \in Calls \cup {None}
    /\ call \in [Calls -> CallRecords]
WireTyped ==
    /\ queue \in [Channels -> Seq(Calls \cup {None})]
    /\ writer \in [Channels -> {"none", "runs", "aborted", "gone"}]
    /\ up \in Seq(Calls) /\ down \in Seq(Answers \cup Pushes)
    /\ link \in {"none", "up", "silent", "closed"}

\* TypeOK is its three parts, in this state and in the next.
LEMMA TypeParts == TypeOK <=> LoopTyped /\ CallTyped /\ WireTyped
BY DEF TypeOK, LoopTyped, CallTyped, CallRecords, WireTyped

\* The same of the next state.
LEMMA TypePartsNext == TypeOK' <=> LoopTyped' /\ CallTyped' /\ WireTyped'
BY DEF TypeOK, LoopTyped, CallTyped, CallRecords, WireTyped

\* What a queue of frames is after it is cleared, added to and read from.
LEMMA EmptySeq == ASSUME NEW S PROVE <<>> \in Seq(S)
OBVIOUS

\* A frame added to a queue.
LEMMA AppendTyped == ASSUME NEW S, NEW s \in Seq(S), NEW e \in S PROVE Append(s, e) \in Seq(S)
OBVIOUS

\* A frame taken off a queue.
LEMMA TailTyped == ASSUME NEW S, NEW s \in Seq(S), s # <<>> PROVE Tail(s) \in Seq(S) /\ Head(s) \in S
OBVIOUS

\* The initial state (IdClient::new).
LEMMA InitIsInductive == Init => IInv
<1> SUFFICES ASSUME Init PROVE IInv
  OBVIOUS
<1> USE IdClientAssumption DEF Init
<1>1. LoopTyped
  <2>1. stop \in BOOLEAN /\ permit \in BOOLEAN
    BY Zenon
  <2>2. QED
    BY <2>1 DEF LoopTyped
<1>2. CallTyped
  <2>1. [at |-> "idle", write |-> FALSE, tx |-> 0, got |-> NoAnswer, out |-> "none"] \in CallRecords
    BY DEF CallRecords
  <2>2. QED
    BY <2>1 DEF CallTyped
<1>3. WireTyped
  BY DEF WireTyped
<1>4. GateIsExact /\ SlotIsTheWaiter
  BY DEF GateIsExact, SlotIsTheWaiter, Inside
<1>5. CallsBehind
  BY DEF CallsBehind, Answers, NoAnswer
<1>6. LinkIsCurrent /\ FramesBelong
  BY DEF LinkIsCurrent, FramesBelong, Channels
<1>7. QED
  BY <1>1, <1>2, <1>3, <1>4, <1>5, <1>6, TypeParts DEF IInv

\* The state of the run loop stays typed.
LEMMA LoopStep == ASSUME IInv, Next PROVE LoopTyped'
<1>0. LoopTyped /\ LinkIsCurrent
  BY TypeParts DEF IInv
<1> USE <1>0, IdClientAssumption DEF LoopTyped
<1>1. CASE UNCHANGED <<stop, permit, loopVars>>
  BY <1>1 DEF loopVars
<1>2. CASE Stop
  BY <1>2 DEF Stop, loopVars
<1>3. CASE Check \/ DialFails \/ AuthOk \/ BackedOff
  BY <1>3 DEF Check, DialFails, AuthOk, BackedOff
<1>4. CASE StoppedInBackoff
  BY <1>4 DEF StoppedInBackoff
<1>4a. CASE CloseTx
  BY <1>4a DEF CloseTx
<1>5. CASE Dial
  BY <1>5 DEF Dial, LinkIsCurrent
<1>6. CASE AuthFails
  BY <1>6 DEF AuthFails, Disconnect
<1>6a. CASE StopNoticed
  <2>1. /\ permit' \in BOOLEAN /\ stop' \in BOOLEAN /\ run' = "leaving"
        /\ reader' = "whole" /\ quiet' = 0 /\ UNCHANGED <<chan, frameTx>>
    BY <1>6a, Zenon DEF StopNoticed, Disconnect
  <2>2. QED
    BY <2>1
<1>7. CASE Heartbeat
  BY <1>7 DEF Heartbeat, Disconnect
<1>8. CASE ReadPart \/ ReadPong
  BY <1>8 DEF ReadPart, ReadPong
<1>9. CASE ReadFails
  BY <1>9 DEF ReadFails, Disconnect
<1>10. CASE ReadAnswer \/ ReadGarbage
  BY <1>10 DEF ReadAnswer, ReadGarbage
<1>11. CASE CloseSlot \/ AbortWriter
  BY <1>11 DEF CloseSlot, AbortWriter
<1>12. CASE Relay \/ \E n \in Channels : Write(n) \/ WriterEnds(n)
  BY <1>12, <1>1 DEF Relay, RelayAnswers, RelayPushes, RelayGone, Write, WriterEnds
<1>13. ASSUME NEW c \in Calls, Dir(c) PROVE LoopTyped'
  BY <1>13, <1>1 DEF Dir, DirEnter, DirRegister, DirSend, DirSendFails, DirAnswered,
     DirTimesOut, DirSilent
<1>14. QED
  BY <1>2, <1>3, <1>4, <1>4a, <1>5, <1>6, <1>6a, <1>7, <1>8, <1>9, <1>10, <1>11, <1>12, <1>13
  DEF Next, Run

\* The calls stay typed.
LEMMA CallTypeStep == ASSUME IInv, Next PROVE CallTyped'
<1>0. CallTyped /\ LoopTyped /\ WireTyped
  BY TypeParts DEF IInv
<1> USE <1>0, IdClientAssumption DEF CallTyped
<1>1. CASE UNCHANGED callVars
  BY <1>1 DEF callVars
<1>2. CASE Stop \/ Relay \/ \E n \in Channels : Write(n) \/ WriterEnds(n)
  BY <1>1, <1>2 DEF Stop, Relay, RelayAnswers, RelayPushes, RelayGone, Write, WriterEnds
<1>3. ASSUME NEW a \in Answers \cup {Dropped}, Give(a), UNCHANGED gate PROVE CallTyped'
  BY <1>3 DEF Give, CallRecords
<1>4. CASE ReadAnswer \/ CloseSlot
  BY <1>4, <1>3 DEF ReadAnswer, CloseSlot
<1>5. CASE ReadGarbage
  BY <1>5, <1>1, <1>3 DEF ReadGarbage, callVars
<1>6. CASE Check \/ DialFails \/ Dial \/ AuthFails \/ AuthOk \/ BackedOff \/ StoppedInBackoff
           \/ StopNoticed \/ Heartbeat \/ ReadPart \/ ReadPong \/ ReadFails \/ CloseTx \/ AbortWriter
  BY <1>1, <1>6 DEF Check, DialFails, Dial, AuthFails, AuthOk, BackedOff, StoppedInBackoff,
     StopNoticed, Heartbeat, ReadPart, ReadPong, ReadFails, CloseTx, AbortWriter
<1>7. ASSUME NEW c \in Calls, Dir(c) PROVE CallTyped'
  <2>1. ASSUME NEW w \in BOOLEAN, DirEnter(c, w) PROVE CallTyped'
    BY <2>1 DEF DirEnter, CallRecords, Outcomes, LoopTyped
  <2>2. CASE DirRegister(c)
    BY <2>2 DEF DirRegister, CallRecords
  <2>3. CASE DirSend(c) \/ DirTimesOut(c)
    BY <2>3 DEF DirSend, DirTimesOut, CallRecords
  <2>4. ASSUME NEW o \in Outcomes, Return(c, o) PROVE CallTyped'
    <3>1. [call[c] EXCEPT !.at = "done", !.got = NoAnswer, !.out = o] \in CallRecords
      BY DEF CallRecords
    <3>2. call' = [call EXCEPT ![c] = [call[c] EXCEPT !.at = "done", !.got = NoAnswer, !.out = o]]
      BY <2>4 DEF Return
    <3>3. QED
      BY <2>4, <3>1, <3>2 DEF Return
  <2>5. CASE DirSendFails(c) \/ DirAnswered(c) \/ DirSilent(c)
    BY <2>4, <2>5 DEF DirSendFails, DirAnswered, DirSilent, Meaning, Outcomes
  <2>6. QED
    BY <1>7, <2>1, <2>2, <2>3, <2>5 DEF Dir
<1>8. QED
  BY <1>2, <1>4, <1>5, <1>6, <1>7 DEF Next, Run

\* The wire stays typed: Logout is never written to a connection in use.
LEMMA WireStep == ASSUME IInv, Next PROVE WireTyped'
<1>0. WireTyped /\ LinkIsCurrent /\ LoopTyped
  BY TypeParts DEF IInv
<1> USE <1>0, IdClientAssumption DEF WireTyped
<1>1. CASE UNCHANGED wireVars
  BY <1>1 DEF wireVars
<1>2. CASE Stop \/ Check \/ DialFails \/ AuthOk \/ BackedOff \/ StoppedInBackoff \/ ReadPart
           \/ CloseTx \/ CloseSlot
  BY <1>1, <1>2 DEF Stop, Check, DialFails, AuthOk, BackedOff, StoppedInBackoff, ReadPart,
     CloseTx, CloseSlot
<1>3. CASE Dial \/ AbortWriter
  BY <1>3 DEF Dial, AbortWriter
<1>4. CASE AuthFails \/ ReadFails
  BY <1>4, EmptySeq DEF AuthFails, ReadFails, Disconnect
<1>5. CASE StopNoticed
  <2>1. chan \in Channels
    BY <1>5 DEF StopNoticed, LinkIsCurrent, LoopTyped, Channels
  <2>2. Append(queue[chan], None) \in Seq(Calls \cup {None})
    BY <2>1, AppendTyped
  <2>3. /\ queue' = [queue EXCEPT ![chan] = Append(queue[chan], None)]
        /\ link' = "none" /\ up' = <<>> /\ down' = <<>> /\ writer' = writer
    BY <1>5 DEF StopNoticed, Disconnect
  <2>4. QED
    BY <2>2, <2>3, EmptySeq
<1>6. CASE Heartbeat
  BY <1>6, EmptySeq DEF Heartbeat, Disconnect
<1>7. CASE ReadPong \/ ReadAnswer \/ ReadGarbage
  <2>1. /\ down' = Tail(down) /\ down # <<>> /\ UNCHANGED <<queue, writer, up, link>>
    BY <1>7 DEF ReadPong, ReadAnswer, ReadGarbage
  <2>2. QED
    BY <2>1
<1>8. CASE RelayAnswers
  <2>1. up # <<>> /\ up' = Tail(up) /\ UNCHANGED <<queue, writer>>
    BY <1>8 DEF RelayAnswers
  <2>2. Head(up) \in Calls
    BY <2>1
  <2>3. link' \in {"none", "up", "silent", "closed"}
    BY <1>8 DEF RelayAnswers
  <2>4. down' = down \/ \E a \in Answers : down' = Append(down, a)
    BY <1>8, <2>2 DEF RelayAnswers, Answers
  <2>5. up' \in Seq(Calls) /\ down' \in Seq(Answers \cup Pushes)
    <3>1. CASE down' = down
      BY <2>1, <3>1, TailTyped
    <3>2. ASSUME NEW a \in Answers, down' = Append(down, a)
          PROVE  up' \in Seq(Calls) /\ down' \in Seq(Answers \cup Pushes)
      <4>1. a \in Answers \cup Pushes
        OBVIOUS
      <4>2. QED
        BY <2>1, <3>2, <4>1, TailTyped, AppendTyped
    <3>3. QED
      BY <2>4, <3>1, <3>2
  <2>6. QED
    BY <2>1, <2>3, <2>5
<1>9. CASE RelayPushes \/ RelayGone
  <2>1. down' = down \/ \E f \in Pushes : down' = Append(down, f)
    BY <1>9 DEF RelayPushes, RelayGone
  <2>2. down' \in Seq(Answers \cup Pushes)
    <3>1. ASSUME NEW f \in Pushes, down' = Append(down, f) PROVE down' \in Seq(Answers \cup Pushes)
      <4>1. f \in Answers \cup Pushes
        OBVIOUS
      <4>2. QED
        BY <3>1, <4>1, AppendTyped
    <3>2. QED
      BY <2>1, <3>1
  <2>3. QED
    BY <1>9, <2>2 DEF RelayPushes, RelayGone
<1>10. ASSUME NEW n \in Channels, Write(n) PROVE WireTyped'
  BY <1>10 DEF Write, LinkIsCurrent
<1>11. ASSUME NEW n \in Channels, WriterEnds(n) PROVE WireTyped'
  BY <1>11 DEF WriterEnds
<1>12. ASSUME NEW c \in Calls, DirSend(c) PROVE WireTyped'
  <2>1. queue' = [queue EXCEPT ![call[c].tx] = Append(queue[call[c].tx], c)]
    BY <1>12 DEF DirSend
  <2>2. call[c].tx \in Channels => Append(queue[call[c].tx], c) \in Seq(Calls \cup {None})
    BY AppendTyped
  <2>3. QED
    BY <1>12, <2>1, <2>2 DEF DirSend
<1>13. ASSUME NEW c \in Calls, Dir(c) PROVE WireTyped'
  BY <1>1, <1>12, <1>13 DEF Dir, DirEnter, DirRegister, DirSendFails, DirAnswered, DirTimesOut,
     DirSilent
<1>14. QED
  BY <1>2, <1>3, <1>4, <1>5, <1>6, <1>7, <1>8, <1>9, <1>10, <1>11, <1>13 DEF Next, Run, Relay

\* Taking the slot tells its call.
LEMMA GiveKeeps ==
    ASSUME IInv, NEW a \in Answers \cup {Dropped}, Give(a), UNCHANGED gate
    PROVE  GateIsExact' /\ SlotIsTheWaiter'
BY IdClientAssumption DEF IInv, TypeOK, GateIsExact, SlotIsTheWaiter, Give, Inside, Answers, Dropped, NoAnswer

\* The gate and the slot through one step: the run loop touches them only by
\* taking the slot.
LEMMA CallStep == ASSUME IInv, Next PROVE GateIsExact' /\ SlotIsTheWaiter'
<1>1. CASE UNCHANGED callVars
  BY <1>1 DEF IInv, GateIsExact, SlotIsTheWaiter, callVars
<1>2. CASE Stop \/ Relay \/ \E n \in Channels : Write(n) \/ WriterEnds(n)
  BY <1>1, <1>2 DEF Stop, Relay, RelayAnswers, RelayPushes, RelayGone, Write, WriterEnds, callVars
<1>3. CASE ReadAnswer \/ CloseSlot
  BY <1>3, GiveKeeps DEF ReadAnswer, CloseSlot
<1>4. CASE ReadGarbage
  BY <1>4, <1>1, GiveKeeps DEF ReadGarbage, callVars
<1>5. CASE Check \/ DialFails \/ Dial \/ AuthFails \/ AuthOk \/ BackedOff \/ StoppedInBackoff
           \/ StopNoticed \/ Heartbeat \/ ReadPart \/ ReadPong \/ ReadFails \/ CloseTx \/ AbortWriter
  BY <1>1, <1>5 DEF Check, DialFails, Dial, AuthFails, AuthOk, BackedOff, StoppedInBackoff,
     StopNoticed, Heartbeat, ReadPart, ReadPong, ReadFails, CloseTx, AbortWriter, callVars
<1>6. ASSUME NEW c \in Calls, Dir(c) PROVE GateIsExact' /\ SlotIsTheWaiter'
  <2> USE <1>6, IdClientAssumption DEF IInv, TypeOK, GateIsExact, SlotIsTheWaiter, Inside,
      NoAnswer, Dropped, Answers
  <2>1. ASSUME NEW w \in BOOLEAN, DirEnter(c, w) PROVE GateIsExact' /\ SlotIsTheWaiter'
    <3>1. /\ slot' = slot /\ gate = None /\ call[c].at = "idle" /\ slot = None
          /\ \A d \in Calls \ {c} : call'[d] = call[d]
          /\ call'[c].got = call[c].got
      BY <2>1 DEF DirEnter
    <3>2. (call'[c].at = "done" /\ gate' = None) \/ (call'[c].at = "tx" /\ gate' = c)
      BY <2>1 DEF DirEnter
    <3>3. GateIsExact'
      <4> SUFFICES ASSUME NEW d \in Calls
                   PROVE  /\ call'[d].at \in Inside <=> gate' = d
                          /\ call'[d].at \notin {"slot", "waiting", "expired"} => call'[d].got = NoAnswer
        OBVIOUS
      <4>1. call[d].at \notin Inside /\ call[d].got = NoAnswer
        BY <3>1
      <4>2. CASE d = c
        BY <3>1, <3>2, <4>1, <4>2
      <4>3. CASE d # c
        BY <3>1, <3>2, <4>1, <4>3
      <4>4. QED
        BY <4>2, <4>3
    <3>4. QED
      BY <3>1, <3>2, <3>3
  <2>2. CASE DirRegister(c)
    BY <2>2 DEF DirRegister
  <2>3. CASE DirSend(c)
    BY <2>3 DEF DirSend
  <2>4. CASE DirTimesOut(c)
    BY <2>4 DEF DirTimesOut
  <2>5. ASSUME NEW o, Return(c, o), call[c].at \in Inside PROVE GateIsExact' /\ SlotIsTheWaiter'
    BY <2>5 DEF Return
  <2>6. CASE DirSendFails(c) \/ DirAnswered(c) \/ DirSilent(c)
    BY <2>5, <2>6 DEF DirSendFails, DirAnswered, DirSilent
  <2>7. QED
    BY <2>1, <2>2, <2>3, <2>4, <2>6 DEF Dir
<1>7. QED
  BY <1>2, <1>3, <1>4, <1>5, <1>6 DEF Next, Run

\* The link and the queues through one step.
LEMMA LinkStep == ASSUME IInv, Next PROVE LinkIsCurrent'
<1> USE IdClientAssumption DEF IInv, TypeOK, LinkIsCurrent, Channels
<1>1. CASE Stop
  BY <1>1 DEF Stop, loopVars, wireVars
<1>2. CASE Check \/ DialFails \/ BackedOff \/ StoppedInBackoff \/ CloseTx \/ CloseSlot
  BY <1>2 DEF Check, DialFails, BackedOff, StoppedInBackoff, CloseTx, CloseSlot, wireVars
<1>3. CASE Dial
  BY <1>3 DEF Dial
<1>4. CASE AuthFails \/ AuthOk
  BY <1>4 DEF AuthFails, AuthOk, Disconnect, wireVars
<1>5. CASE StopNoticed
  BY <1>5 DEF StopNoticed, Disconnect
<1>6. CASE Heartbeat
  BY <1>6 DEF Heartbeat, Disconnect
<1>7. CASE ReadPart \/ ReadPong \/ ReadFails \/ ReadAnswer \/ ReadGarbage
  BY <1>7 DEF ReadPart, ReadPong, ReadFails, ReadAnswer, ReadGarbage, Disconnect, wireVars
<1>8. CASE AbortWriter
  BY <1>8 DEF AbortWriter
<1>9. CASE Relay
  BY <1>9 DEF Relay, RelayAnswers, RelayPushes, RelayGone, loopVars
<1>10. ASSUME NEW n \in Channels, Write(n) PROVE LinkIsCurrent'
  <2>1. /\ queue' = [queue EXCEPT ![n] = Tail(queue[n])] /\ queue[n] # <<>>
        /\ UNCHANGED <<run, chan, link, down>> /\ (link # "up" => up' = up)
    BY <1>10 DEF Write, loopVars
  <2>2. /\ Len(Tail(queue[n])) = Len(queue[n]) - 1
        /\ \A i \in 1 .. Len(Tail(queue[n])) : Tail(queue[n])[i] = queue[n][i + 1]
    BY <2>1
  <2>3. \A m \in Channels : m > chan => queue'[m] = <<>>
    BY <2>1
  <2>4. link = "up" => chan \in Channels
    OBVIOUS
  <2>5. link = "up" => \A i \in 1 .. Len(queue'[chan]) : queue'[chan][i] # None
    <3>1. CASE chan = n
      BY <2>1, <2>2, <3>1
    <3>2. CASE chan # n
      BY <2>1, <2>4, <3>2
    <3>3. QED
      BY <3>1, <3>2
  <2>6. QED
    BY <2>1, <2>3, <2>5
<1>11. ASSUME NEW n \in Channels, WriterEnds(n) PROVE LinkIsCurrent'
  <2>1. /\ queue' = [queue EXCEPT ![n] = <<>>]
        /\ UNCHANGED <<run, chan, link, down, up>>
    BY <1>11 DEF WriterEnds, loopVars
  <2>2. \A m \in Channels : m > chan => queue'[m] = <<>>
    BY <2>1
  <2>3. link = "up" => \A i \in 1 .. Len(queue'[chan]) : queue'[chan][i] # None
    <3>1. CASE chan = n
      BY <2>1, <3>1
    <3>2. CASE chan # n
      BY <2>1, <3>2
    <3>3. QED
      BY <3>1, <3>2
  <2>4. QED
    BY <2>1, <2>2, <2>3
<1>12. ASSUME NEW c \in Calls, DirSend(c) PROVE LinkIsCurrent'
  BY <1>12 DEF DirSend, loopVars, CallsBehind
<1>13. ASSUME NEW c \in Calls, Dir(c), UNCHANGED <<loopVars, wireVars>> PROVE LinkIsCurrent'
  BY <1>13 DEF loopVars, wireVars
<1>14. ASSUME NEW c \in Calls, Dir(c) PROVE LinkIsCurrent'
  BY <1>12, <1>13, <1>14 DEF Dir, DirEnter, DirRegister, DirSendFails, DirAnswered, DirTimesOut, DirSilent
<1>15. QED
  BY <1>1, <1>2, <1>3, <1>4, <1>5, <1>6, <1>7, <1>8, <1>9, <1>10, <1>11, <1>14 DEF Next, Run

\* A call given the slot's answer: where every call stands and on which
\* connection is left alone.
LEMMA GiveTouchesGot ==
    ASSUME IInv, NEW a, Give(a)
    PROVE  \A c \in Calls : /\ call'[c].at = call[c].at /\ call'[c].tx = call[c].tx
                            /\ call'[c].got = call[c].got \/ (c = slot /\ call'[c].got = a)
BY TypeParts DEF IInv, CallTyped, CallRecords, Give

\* An answer that arrives is on the connection of the call that waits: a call
\* left behind on an older one shares the newer one with nobody.
LEMMA AnswerMeetsItsConnection ==
    ASSUME IInv, NEW a \in Answers, call[a.of].tx = chan, call[a.of].at # "idle",
           Give(a), UNCHANGED <<gate, chan, frameTx>>
    PROVE  CallsBehind'
<1>1. a.of \in Calls
  BY DEF Answers
<1>2. slot \in Calls => call[slot].tx = chan
  BY <1>1, IdClientAssumption DEF IInv, SlotIsTheWaiter, CallsBehind
<1>3. \A c \in Calls : /\ call'[c].at = call[c].at /\ call'[c].tx = call[c].tx
                       /\ call'[c].got = call[c].got \/ (c = slot /\ call'[c].got = a)
  BY GiveTouchesGot
<1>4. \A c \in Calls : call[c].got \in Answers => call[c].got.of \in Calls
  BY DEF Answers
<1>5. \A c \in Calls : call'[c].got \in Answers =>
          call'[call'[c].got.of].at # "idle" /\ call'[call'[c].got.of].tx = call'[c].tx
  BY <1>1, <1>2, <1>3, <1>4 DEF IInv, CallsBehind
<1>6. QED
  BY <1>3, <1>5 DEF IInv, CallsBehind

\* CallsBehind is kept when no call moves to another connection.
LEMMA DropKeepsBehind ==
    ASSUME IInv, Give(Dropped), UNCHANGED <<gate, chan, frameTx>>
    PROVE  CallsBehind'
<1>1. Dropped \notin Answers
  BY DEF Dropped, Answers
<1>2. \A c \in Calls : /\ call'[c].at = call[c].at /\ call'[c].tx = call[c].tx
                       /\ call'[c].got = call[c].got \/ (c = slot /\ call'[c].got = Dropped)
  BY GiveTouchesGot
<1>3. \A c \in Calls : call[c].got \in Answers => call[c].got.of \in Calls
  BY DEF Answers
<1>4. QED
  BY <1>1, <1>2, <1>3 DEF IInv, CallsBehind

\* Which connection the calls are on, through one step: a new connection is
\* nobody's yet, and only a call that enters is given the current one.
LEMMA BehindStep == ASSUME IInv, Next PROVE CallsBehind'
<1>0. CallsBehind /\ GateIsExact /\ FramesBelong /\ LoopTyped /\ CallTyped /\ WireTyped
  BY TypeParts DEF IInv
<1>1. CASE UNCHANGED <<call, gate, chan, frameTx>>
  BY <1>0, <1>1 DEF CallsBehind
<1>2. CASE Stop \/ Relay \/ \E n \in Channels : Write(n) \/ WriterEnds(n)
  BY <1>1, <1>2 DEF Stop, Relay, RelayAnswers, RelayPushes, RelayGone, Write, WriterEnds,
     callVars, loopVars
<1>3. CASE Check \/ DialFails \/ AuthFails \/ AuthOk \/ BackedOff \/ StoppedInBackoff
           \/ StopNoticed \/ Heartbeat \/ ReadPart \/ ReadPong \/ ReadFails \/ AbortWriter
  BY <1>1, <1>3 DEF Check, DialFails, AuthFails, AuthOk, BackedOff, StoppedInBackoff,
     StopNoticed, Heartbeat, ReadPart, ReadPong, ReadFails, AbortWriter, callVars
<1>4. CASE CloseTx
  BY <1>0, <1>4 DEF CloseTx, CallsBehind, callVars
<1>5. CASE Dial
  BY <1>0, <1>5 DEF Dial, CallsBehind, callVars, CallTyped, CallRecords, LoopTyped
<1>6. CASE ReadAnswer
  <2>1. Head(down) \in Answers /\ Head(down) = down[1] /\ 1 \in 1 .. Len(down)
    BY <1>0, <1>6 DEF ReadAnswer, WireTyped
  <2>2. call[Head(down).of].tx = chan /\ call[Head(down).of].at # "idle"
    BY <1>0, <2>1 DEF FramesBelong
  <2>3. QED
    BY <1>6, <2>1, <2>2, AnswerMeetsItsConnection DEF ReadAnswer
<1>7. CASE ReadGarbage \/ CloseSlot
  BY <1>1, <1>7, DropKeepsBehind DEF ReadGarbage, CloseSlot
<1>8. ASSUME NEW c \in Calls, NEW w \in BOOLEAN, DirEnter(c, w) PROVE CallsBehind'
  <2>1. /\ UNCHANGED <<chan, frameTx>> /\ call[c].at = "idle" /\ gate = None
        /\ \A d \in Calls \ {c} : call'[d] = call[d]
        /\ call'[c].got = NoAnswer /\ call'[c].at # "idle" /\ call[c].tx = 0
    BY <1>0, <1>8 DEF DirEnter, loopVars, CallTyped, CallRecords, GateIsExact, CallsBehind
  <2>2. \/ call'[c].tx = 0 /\ gate' = None
        \/ call'[c].tx = chan /\ chan # 0 /\ gate' = c
    BY <1>0, <1>8 DEF DirEnter, CallTyped, CallRecords, CallsBehind
  <2>3. NoAnswer \notin Answers /\ \A d \in Calls : call[d].got \in Answers => call[d].got.of \in Calls
    BY DEF NoAnswer, Answers
  <2>4. \A d \in Calls : call'[d].tx <= chan /\ (call'[d].at = "idle" => call'[d].tx = 0)
    BY <1>0, <2>1, <2>2 DEF CallsBehind, LoopTyped
  <2>5. \A d \in Calls : call'[d].got \in Answers =>
            call'[call'[d].got.of].at # "idle" /\ call'[call'[d].got.of].tx = call'[d].tx
    BY <1>0, <2>1, <2>2, <2>3 DEF CallsBehind
  <2>6. QED
    BY <1>0, <2>1, <2>2, <2>4, <2>5, IdClientAssumption DEF CallsBehind
<1>9. ASSUME NEW c \in Calls,
             DirRegister(c) \/ DirSend(c) \/ DirSendFails(c) \/ DirAnswered(c)
                \/ DirTimesOut(c) \/ DirSilent(c)
      PROVE  CallsBehind'
  <2>1. UNCHANGED <<chan, frameTx>> /\ (gate' = gate \/ gate' = None)
    BY <1>9 DEF DirRegister, DirSend, DirSendFails, DirAnswered, DirTimesOut, DirSilent,
       Return, loopVars
  <2>2. \A d \in Calls : /\ call'[d].tx = call[d].tx
                         /\ (call'[d].at = "idle") <=> (call[d].at = "idle")
    BY <1>0, <1>9 DEF DirRegister, DirSend, DirSendFails, DirAnswered, DirTimesOut, DirSilent,
       Return, CallTyped, CallRecords
  <2>3. \A d \in Calls : \/ call'[d].got = call[d].got
                         \/ call'[d].got = Dropped \/ call'[d].got = NoAnswer
    <3>1. CASE DirRegister(c)
      BY <1>0, <3>1 DEF DirRegister, CallTyped, CallRecords
    <3>2. CASE DirSend(c) \/ DirTimesOut(c)
      BY <1>0, <3>2 DEF DirSend, DirTimesOut, CallTyped, CallRecords
    <3>3. CASE DirSendFails(c) \/ DirAnswered(c) \/ DirSilent(c)
      BY <1>0, <3>3 DEF DirSendFails, DirAnswered, DirSilent, Return, CallTyped, CallRecords
    <3>4. QED
      BY <1>9, <3>1, <3>2, <3>3
  <2>4. /\ NoAnswer \notin Answers /\ Dropped \notin Answers
        /\ \A b \in Answers : b.of \in Calls
    BY DEF NoAnswer, Dropped, Answers
  <2>5. \A d \in Calls : call'[d].got \in Answers =>
            call'[call'[d].got.of].at # "idle" /\ call'[call'[d].got.of].tx = call'[d].tx
    <3> SUFFICES ASSUME NEW d \in Calls, call'[d].got \in Answers
                 PROVE  call'[call'[d].got.of].at # "idle" /\ call'[call'[d].got.of].tx = call'[d].tx
      OBVIOUS
    <3>1. call'[d].got = call[d].got
      BY <2>3, <2>4
    <3>2. call[d].got.of \in Calls
      BY <2>4, <3>1
    <3>3. call[call[d].got.of].at # "idle" /\ call[call[d].got.of].tx = call[d].tx
      BY <1>0, <3>1 DEF CallsBehind
    <3>4. QED
      BY <2>2, <3>1, <3>2, <3>3
  <2>6. \A d \in Calls : gate' = d => gate = d
    BY <2>1, IdClientAssumption
  <2>7. \A d \in Calls : gate' = d =>
            call'[d].tx # 0 /\ (call'[d].tx # chan => \A e \in Calls : call'[e].tx # chan)
    BY <1>0, <2>2, <2>6 DEF CallsBehind
  <2>8. QED
    BY <1>0, <2>1, <2>2, <2>5, <2>7 DEF CallsBehind
<1>10. QED
  BY <1>2, <1>3, <1>4, <1>5, <1>6, <1>7, <1>8, <1>9 DEF Next, Run, Dir

\* A call that has entered keeps its connection.
LEMMA CallsStay ==
    ASSUME IInv, Next
    PROVE  \A d \in Calls : call[d].at # "idle" => call'[d].at # "idle" /\ call'[d].tx = call[d].tx
<1>0. CallTyped
  BY TypeParts DEF IInv
<1>1. CASE call' = call
  BY <1>1
<1>2. CASE Stop \/ Relay \/ \E n \in Channels : Write(n) \/ WriterEnds(n)
  BY <1>1, <1>2 DEF Stop, Relay, RelayAnswers, RelayPushes, RelayGone, Write, WriterEnds, callVars
<1>3. CASE Check \/ DialFails \/ Dial \/ AuthFails \/ AuthOk \/ BackedOff \/ StoppedInBackoff
           \/ StopNoticed \/ Heartbeat \/ ReadPart \/ ReadPong \/ ReadFails \/ CloseTx \/ AbortWriter
  BY <1>1, <1>3 DEF Check, DialFails, Dial, AuthFails, AuthOk, BackedOff, StoppedInBackoff,
     StopNoticed, Heartbeat, ReadPart, ReadPong, ReadFails, CloseTx, AbortWriter, callVars
<1>4. CASE ReadAnswer \/ ReadGarbage \/ CloseSlot
  BY <1>1, <1>4, GiveTouchesGot DEF ReadAnswer, ReadGarbage, CloseSlot
<1>5. ASSUME NEW c \in Calls, Dir(c)
      PROVE  \A d \in Calls : call[d].at # "idle" => call'[d].at # "idle" /\ call'[d].tx = call[d].tx
  <2>1. ASSUME NEW w \in BOOLEAN, DirEnter(c, w)
        PROVE  \A d \in Calls : call[d].at # "idle" => call'[d] = call[d]
    BY <1>0, <2>1 DEF DirEnter, CallTyped
  <2>2. CASE DirRegister(c) \/ DirSend(c) \/ DirTimesOut(c)
    BY <1>0, <2>2 DEF DirRegister, DirSend, DirTimesOut, CallTyped, CallRecords
  <2>3. CASE DirSendFails(c) \/ DirAnswered(c) \/ DirSilent(c)
    BY <1>0, <2>3 DEF DirSendFails, DirAnswered, DirSilent, Return, CallTyped, CallRecords
  <2>4. QED
    BY <1>5, <2>1, <2>2, <2>3 DEF Dir
<1>6. QED
  BY <1>2, <1>3, <1>4, <1>5 DEF Next, Run

\* Every frame on its way is of a call that sent it on that connection.
LEMMA FrameStep == ASSUME IInv, Next PROVE FramesBelong'
<1>0. FramesBelong /\ LinkIsCurrent /\ LoopTyped /\ WireTyped /\ CallTyped
  BY TypeParts DEF IInv
<1>a. \A d \in Calls : call[d].at # "idle" => call'[d].at # "idle" /\ call'[d].tx = call[d].tx
  BY CallsStay
<1>b. \A b \in Answers : b.of \in Calls
  BY DEF Answers
<1> DEFINE UpOk == \A i \in 1 .. Len(up') : call'[up'[i]].at # "idle" /\ call'[up'[i]].tx = chan'
           DownOk == \A i \in 1 .. Len(down') : down'[i] \in Answers =>
                        call'[down'[i].of].at # "idle" /\ call'[down'[i].of].tx = chan'
           QueueOk == \A n \in Channels : \A i \in 1 .. Len(queue'[n]) : queue'[n][i] # None =>
                        call'[queue'[n][i]].at # "idle" /\ call'[queue'[n][i]].tx = n
<1>c. UpOk /\ DownOk /\ QueueOk => FramesBelong'
  BY DEF FramesBelong
<1> HIDE DEF UpOk, DownOk, QueueOk
<1>d. (up' = up \/ (up # <<>> /\ up' = Tail(up))) /\ chan' = chan => UpOk
  <2> SUFFICES ASSUME up' = up \/ (up # <<>> /\ up' = Tail(up)), chan' = chan,
                      NEW i \in 1 .. Len(up')
               PROVE  call'[up'[i]].at # "idle" /\ call'[up'[i]].tx = chan'
    BY DEF UpOk
  <2>1. \E j \in 1 .. Len(up) : up'[i] = up[j] /\ up[j] \in Calls
    <3>1. CASE up' = up
      BY <1>0, <3>1 DEF WireTyped
    <3>2. CASE up # <<>> /\ up' = Tail(up)
      <4>1. up'[i] = up[i + 1] /\ i + 1 \in 1 .. Len(up)
        BY <1>0, <3>2 DEF WireTyped
      <4>2. QED
        BY <1>0, <4>1 DEF WireTyped
    <3>3. QED
      BY <3>1, <3>2
  <2>2. QED
    BY <1>0, <1>a, <2>1 DEF FramesBelong
<1>e. (down' = down \/ (down # <<>> /\ down' = Tail(down))) /\ chan' = chan => DownOk
  <2> SUFFICES ASSUME down' = down \/ (down # <<>> /\ down' = Tail(down)), chan' = chan,
                      NEW i \in 1 .. Len(down'), down'[i] \in Answers
               PROVE  call'[down'[i].of].at # "idle" /\ call'[down'[i].of].tx = chan'
    BY DEF DownOk
  <2>1. \E j \in 1 .. Len(down) : down'[i] = down[j]
    <3>1. CASE down' = down
      BY <1>0, <3>1 DEF WireTyped
    <3>2. CASE down # <<>> /\ down' = Tail(down)
      <4>1. down'[i] = down[i + 1] /\ i + 1 \in 1 .. Len(down)
        BY <1>0, <3>2 DEF WireTyped
      <4>2. QED
        BY <4>1
    <3>3. QED
      BY <3>1, <3>2
  <2>2. QED
    BY <1>0, <1>a, <1>b, <2>1 DEF FramesBelong
<1>f. up' = <<>> /\ down' = <<>> => UpOk /\ DownOk
  BY DEF UpOk, DownOk
<1>g. queue' = queue => QueueOk
  BY <1>0, <1>a DEF FramesBelong, WireTyped, QueueOk
<1>1. CASE chan' = chan /\ UNCHANGED <<queue, up, down>>
  BY <1>1, <1>c, <1>d, <1>e, <1>g
<1>2. CASE Stop \/ Check \/ DialFails \/ AuthOk \/ BackedOff \/ StoppedInBackoff \/ ReadPart
           \/ CloseTx \/ CloseSlot \/ AbortWriter \/ RelayGone
  BY <1>1, <1>2 DEF Stop, Check, DialFails, AuthOk, BackedOff, StoppedInBackoff, ReadPart,
     CloseTx, CloseSlot, AbortWriter, RelayGone, loopVars, wireVars
<1>3. CASE Dial
  <2>1. up' = <<>> /\ down' = <<>> /\ queue' = queue
    BY <1>0, <1>3 DEF Dial, LinkIsCurrent
  <2>2. QED
    BY <2>1, <1>c, <1>f, <1>g
<1>4. CASE AuthFails \/ ReadFails \/ Heartbeat
  <2>1. queue' = queue /\ chan' = chan
    BY <1>4 DEF AuthFails, ReadFails, Heartbeat
  <2>2. (up' = <<>> /\ down' = <<>>) \/ (up' = up /\ down' = down)
    BY <1>4 DEF AuthFails, ReadFails, Heartbeat, Disconnect
  <2>3. QED
    BY <2>1, <2>2, <1>c, <1>d, <1>e, <1>f, <1>g
<1>5. CASE StopNoticed
  <2>1. /\ up' = <<>> /\ down' = <<>> /\ chan \in Channels
        /\ queue' = [queue EXCEPT ![chan] = Append(queue[chan], None)]
    BY <1>0, <1>5 DEF StopNoticed, Disconnect, LinkIsCurrent, LoopTyped, Channels
  <2>2. QueueOk
    <3> SUFFICES ASSUME NEW n \in Channels, NEW i \in 1 .. Len(queue'[n]), queue'[n][i] # None
                 PROVE  call'[queue'[n][i]].at # "idle" /\ call'[queue'[n][i]].tx = n
      BY DEF QueueOk
    <3>1. i \in 1 .. Len(queue[n]) /\ queue'[n][i] = queue[n][i]
      <4>1. CASE n = chan
        BY <1>0, <2>1, <4>1 DEF WireTyped
      <4>2. CASE n # chan
        BY <1>0, <2>1, <4>2 DEF WireTyped
      <4>3. QED
        BY <4>1, <4>2
    <3>2. queue[n][i] \in Calls
      BY <1>0, <3>1 DEF WireTyped
    <3>3. QED
      BY <1>0, <1>a, <3>1, <3>2 DEF FramesBelong
  <2>3. QED
    BY <2>1, <2>2, <1>c, <1>f
<1>6. CASE ReadPong \/ ReadAnswer \/ ReadGarbage
  <2>1. chan' = chan /\ queue' = queue /\ up' = up /\ down # <<>> /\ down' = Tail(down)
    BY <1>6 DEF ReadPong, ReadAnswer, ReadGarbage
  <2>2. QED
    BY <2>1, <1>c, <1>d, <1>e, <1>g
<1>7. ASSUME NEW f \in Answers \cup Pushes, down' = Append(down, f), chan' = chan,
             f \in Answers => call[f.of].at # "idle" /\ call[f.of].tx = chan
      PROVE  DownOk
  <2> SUFFICES ASSUME NEW i \in 1 .. Len(down'), down'[i] \in Answers
               PROVE  call'[down'[i].of].at # "idle" /\ call'[down'[i].of].tx = chan'
    BY DEF DownOk
  <2>1. CASE i \in 1 .. Len(down)
    <3>1. down'[i] = down[i]
      BY <1>0, <1>7, <2>1 DEF WireTyped
    <3>2. call[down[i].of].at # "idle" /\ call[down[i].of].tx = chan
      BY <1>0, <2>1, <3>1 DEF FramesBelong
    <3>3. down[i].of \in Calls
      BY <3>1 DEF Answers
    <3>4. QED
      BY <1>7, <1>a, <1>b, <3>1, <3>2, <3>3
  <2>2. CASE i \notin 1 .. Len(down)
    <3>1. down'[i] = f
      BY <1>0, <1>7, <2>2 DEF WireTyped
    <3>2. QED
      BY <1>7, <1>a, <1>b, <3>1
  <2>3. QED
    BY <2>1, <2>2
<1>8. CASE RelayAnswers
  <2>1. up # <<>> /\ up' = Tail(up) /\ chan' = chan /\ queue' = queue
    BY <1>8 DEF RelayAnswers, loopVars
  <2>2. Head(up) = up[1] /\ 1 \in 1 .. Len(up) /\ Head(up) \in Calls
    BY <1>0, <2>1 DEF WireTyped
  <2>3. call[Head(up)].at # "idle" /\ call[Head(up)].tx = chan
    BY <1>0, <2>2 DEF FramesBelong
  <2>4. \/ down' = down
        \/ down' = Append(down, [k |-> "DirListResp", of |-> Head(up)])
        \/ down' = Append(down, [k |-> "DirError", of |-> Head(up)])
    BY <1>8 DEF RelayAnswers
  <2>5. /\ [k |-> "DirListResp", of |-> Head(up)] \in Answers
        /\ [k |-> "DirError", of |-> Head(up)] \in Answers
    BY <2>2 DEF Answers
  <2>6. DownOk
    BY <2>1, <2>3, <2>4, <2>5, <1>e, <1>7
  <2>7. QED
    BY <2>1, <2>6, <1>c, <1>d, <1>g
<1>9. CASE RelayPushes
  <2>1. chan' = chan /\ queue' = queue /\ up' = up /\ \E f \in Pushes : down' = Append(down, f)
    BY <1>9 DEF RelayPushes, loopVars
  <2>2. \A f \in Pushes : f \notin Answers
    BY DEF Pushes, Answers
  <2>3. QED
    BY <2>1, <2>2, <1>c, <1>d, <1>g, <1>7
<1>10. ASSUME NEW n \in Channels, Write(n) PROVE FramesBelong'
  <2>1. /\ chan' = chan /\ down' = down /\ queue[n] # <<>>
        /\ queue' = [queue EXCEPT ![n] = Tail(queue[n])]
        /\ up' = up \/ (n = chan /\ link = "up" /\ up' = Append(up, Head(queue[n])))
    BY <1>10 DEF Write, loopVars
  <2>2. /\ queue[n] \in Seq(Calls \cup {None}) /\ Head(queue[n]) = queue[n][1]
        /\ 1 \in 1 .. Len(queue[n])
        /\ Len(Tail(queue[n])) = Len(queue[n]) - 1
        /\ \A i \in 1 .. Len(Tail(queue[n])) : Tail(queue[n])[i] = queue[n][i + 1]
    BY <1>0, <2>1 DEF WireTyped
  <2>3. QueueOk
    <3> SUFFICES ASSUME NEW m \in Channels, NEW i \in 1 .. Len(queue'[m]), queue'[m][i] # None
                 PROVE  call'[queue'[m][i]].at # "idle" /\ call'[queue'[m][i]].tx = m
      BY DEF QueueOk
    <3>1. \E j \in 1 .. Len(queue[m]) : queue'[m][i] = queue[m][j]
      <4>1. CASE m = n
        BY <1>0, <2>1, <2>2, <4>1 DEF WireTyped
      <4>2. CASE m # n
        BY <1>0, <2>1, <4>2 DEF WireTyped
      <4>3. QED
        BY <4>1, <4>2
    <3>2. queue'[m][i] \in Calls
      BY <1>0, <3>1 DEF WireTyped
    <3>3. QED
      BY <1>0, <1>a, <3>1, <3>2 DEF FramesBelong
  <2>4. ASSUME n = chan, link = "up", up' = Append(up, Head(queue[n])) PROVE UpOk
    <3>1. queue[n][1] # None
      BY <1>0, <2>2, <2>4 DEF LinkIsCurrent
    <3>2. queue[n][1] \in Calls
      BY <2>2, <3>1
    <3>3. call[queue[n][1]].at # "idle" /\ call[queue[n][1]].tx = chan
      BY <1>0, <2>2, <2>4, <3>1 DEF FramesBelong
    <3> SUFFICES ASSUME NEW i \in 1 .. Len(up')
                 PROVE  call'[up'[i]].at # "idle" /\ call'[up'[i]].tx = chan'
      BY DEF UpOk
    <3>4. CASE i \in 1 .. Len(up)
      BY <1>0, <1>a, <2>1, <2>4, <3>4 DEF WireTyped, FramesBelong
    <3>5. CASE i \notin 1 .. Len(up)
      <4>1. up'[i] = queue[n][1]
        BY <1>0, <2>2, <2>4, <3>2, <3>5 DEF WireTyped
      <4>2. QED
        BY <1>a, <2>1, <3>2, <3>3, <4>1
    <3>6. QED
      BY <3>4, <3>5
  <2>5. QED
    BY <2>1, <2>3, <2>4, <1>c, <1>d, <1>e
<1>11. ASSUME NEW n \in Channels, WriterEnds(n) PROVE FramesBelong'
  <2>1. chan' = chan /\ up' = up /\ down' = down /\ queue' = [queue EXCEPT ![n] = <<>>]
    BY <1>11 DEF WriterEnds, loopVars
  <2>2. QueueOk
    <3> SUFFICES ASSUME NEW m \in Channels, NEW i \in 1 .. Len(queue'[m]), queue'[m][i] # None
                 PROVE  call'[queue'[m][i]].at # "idle" /\ call'[queue'[m][i]].tx = m
      BY DEF QueueOk
    <3>1. m # n /\ queue'[m] = queue[m]
      BY <1>0, <2>1 DEF WireTyped
    <3>2. queue[m][i] \in Calls
      BY <1>0, <3>1 DEF WireTyped
    <3>3. QED
      BY <1>0, <1>a, <3>1, <3>2 DEF FramesBelong
  <2>3. QED
    BY <2>1, <2>2, <1>c, <1>d, <1>e
<1>12. ASSUME NEW c \in Calls, DirSend(c) PROVE FramesBelong'
  <2>1. /\ chan' = chan /\ up' = up /\ down' = down /\ call[c].at = "slot"
        /\ queue' = [queue EXCEPT ![call[c].tx] = Append(queue[call[c].tx], c)]
    BY <1>12 DEF DirSend, loopVars
  <2>2. QueueOk
    <3> SUFFICES ASSUME NEW m \in Channels, NEW i \in 1 .. Len(queue'[m]), queue'[m][i] # None
                 PROVE  call'[queue'[m][i]].at # "idle" /\ call'[queue'[m][i]].tx = m
      BY DEF QueueOk
    <3>1. CASE i \in 1 .. Len(queue[m]) /\ queue'[m][i] = queue[m][i]
      <4>1. queue[m][i] \in Calls
        BY <1>0, <3>1 DEF WireTyped
      <4>2. QED
        BY <1>0, <1>a, <3>1, <4>1 DEF FramesBelong
    <3>2. CASE m = call[c].tx /\ queue'[m][i] = c
      BY <1>a, <2>1, <3>2
    <3>3. (i \in 1 .. Len(queue[m]) /\ queue'[m][i] = queue[m][i])
            \/ (m = call[c].tx /\ queue'[m][i] = c)
      <4>1. CASE m = call[c].tx
        BY <1>0, <2>1, <4>1 DEF WireTyped
      <4>2. CASE m # call[c].tx
        BY <1>0, <2>1, <4>2 DEF WireTyped
      <4>3. QED
        BY <4>1, <4>2
    <3>4. QED
      BY <3>1, <3>2, <3>3
  <2>3. QED
    BY <2>1, <2>2, <1>c, <1>d, <1>e
<1>13. ASSUME NEW c \in Calls, Dir(c) PROVE FramesBelong'
  BY <1>1, <1>12, <1>13 DEF Dir, DirEnter, DirRegister, DirSendFails, DirAnswered, DirTimesOut,
     DirSilent, loopVars, wireVars
<1>14. QED
  BY <1>2, <1>3, <1>4, <1>5, <1>6, <1>8, <1>9, <1>10, <1>11, <1>13 DEF Next, Run, Relay

-----------------------------------------------------------------------------
\* The inductive invariant.
THEOREM Invariant == Spec => []IInv
<1>1. Init => IInv
  BY InitIsInductive
<1>2. IInv /\ [Next]_vars => IInv'
  <2> SUFFICES ASSUME IInv, [Next]_vars PROVE IInv'
    OBVIOUS
  <2>1. CASE Next
    BY <2>1, LoopStep, CallTypeStep, WireStep, CallStep, LinkStep, BehindStep, FrameStep,
       TypePartsNext DEF IInv
  <2>2. CASE UNCHANGED vars
    BY <2>2 DEF vars, loopVars, callVars, wireVars, IInv, TypeOK, GateIsExact, SlotIsTheWaiter,
       CallsBehind, LinkIsCurrent, FramesBelong
  <2>3. QED
    BY <2>1, <2>2
<1>3. QED
  BY <1>1, <1>2, PTL DEF Spec

\* The state of the client keeps its shape through every interleaving.
THEOREM TypeCorrect == Spec => []TypeOK
<1>1. IInv => TypeOK
  BY DEF IInv
<1>2. QED
  BY <1>1, Invariant, PTL

\* pending_dir belongs to the call inside `dir`, and a call that waits is in it
\* or has been told.
THEOREM NoCallForgotten == Spec => []SlotIsTheWaiter
<1>1. IInv => SlotIsTheWaiter
  BY DEF IInv
<1>2. QED
  BY <1>1, Invariant, PTL

\* No call is answered over another connection than its own.
THEOREM NoAnswerAcrossSessions == Spec => []AnswerFromItsConnection
<1>1. IInv => AnswerFromItsConnection
  BY DEF IInv, CallsBehind, AnswerFromItsConnection
<1>2. QED
  BY <1>1, Invariant, PTL
=============================================================================
