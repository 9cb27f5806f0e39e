------------------------------ MODULE PumpProofs ------------------------------
(***************************************************************************)
(* Proofs about the pump and the stdin writer of one child for every       *)
(* number of callers, lines and writes, every capacity and every deadline. *)
(***************************************************************************)
EXTENDS MCPump, TLAPS

USE PumpAssumption

(***************************************************************************)
(* Type correctness.                                                       *)
(***************************************************************************)
Ats == {"main", "drain", "cleanup", "flush", "gone"}
WriteStates == {"queued", "accepted", "ok", "refused", "broken"}
CallStates == {"idle", "queued", "replied", "ok", "err", "already_exited"}
Stdins == [tx : BOOLEAN, queue : Seq(Numbers), open : BOOLEAN, hand : Nat, ended : BOOLEAN]
Procs == [alive : BOOLEAN, piped : BOOLEAN, kill : {"none", "failed", "sent"},
          outcome : Exits, finish : Outcomes, pipe : Nat, written : Nat, missed : Nat]
Receivers == [open : BOOLEAN, got : Nat, reported : Nat, ended : BOOLEAN]

LEMMA ExceptTyped ==
  ASSUME NEW S, NEW s \in S, NEW q \in Seq(S), NEW i
  PROVE  /\ [q EXCEPT ![i] = s] \in Seq(S)
         /\ Len([q EXCEPT ![i] = s]) = Len(q)
<1>1. [q EXCEPT ![i] = s] = [j \in 1 .. Len(q) |-> IF j = i THEN s ELSE q[j]]
  OBVIOUS
<1>2. /\ [j \in 1 .. Len(q) |-> IF j = i THEN s ELSE q[j]] \in Seq(S)
      /\ Len([j \in 1 .. Len(q) |-> IF j = i THEN s ELSE q[j]]) = Len(q)
  OBVIOUS
<1> QED
  BY <1>1, <1>2

LEMMA AppendTyped ==
  ASSUME NEW S, NEW s \in S, NEW q \in Seq(S)
  PROVE  Append(q, s) \in Seq(S)
OBVIOUS

LEMMA Countdowns ==
  /\ Off \in Countdown /\ Stall \in Countdown /\ Grace \in Countdown /\ 0 \in Countdown
  /\ \A t \in Countdown : Less(t) \in Countdown
BY DEF Off, Countdown, Less

LEMMA DyingTyped ==
  ASSUME NEW p \in Locals
  PROVE  /\ Dying(p) \in Locals
         /\ Dying(p).at = p.at /\ Dying(p).hard_kill_at = p.hard_kill_at
         /\ Dying(p).finish_output = p.finish_output /\ Dying(p).payload = p.payload
         /\ Dying(p).pending_event = p.pending_event
         /\ Dying(p).stderr_tail = p.stderr_tail
         /\ Dying(p).terminal_events = p.terminal_events
         /\ Dying(p).dropped_output_events = p.dropped_output_events
         /\ Dying(p).events_open = p.events_open
<1>1. ArmDrop(p) \in Countdown
  BY Countdowns DEF ArmDrop, Locals
<1>2. [p EXCEPT !.dying = TRUE, !.drop_pending_at = ArmDrop(p)] \in Locals
  BY <1>1 DEF Locals
<1> QED
  BY <1>1, <1>2 DEF Dying, Locals

LEMMA SoonerTyped ==
  ASSUME TypeOK
  PROVE  /\ Sooner \in Nat
         /\ pump.hard_kill_at # Off => Sooner <= pump.hard_kill_at
<1> DEFINE h == pump.hard_kill_at
<1>1. h \in Nat \cup {Off} /\ Off \notin Nat /\ Grace \in Nat
  BY DEF TypeOK, Locals, Countdown, Off
<1>2. Sooner = IF h = Off \/ Grace < h THEN Grace ELSE h
  BY DEF Sooner
<1> HIDE DEF h
<1>3. Sooner \in Nat /\ (h # Off => Sooner <= h)
  BY <1>1, <1>2
<1> QED
  BY <1>3 DEF h

LEMMA TerminalTyped == TypeOK => TerminalEvents \in Seq(EventKinds)
<1> SUFFICES ASSUME TypeOK PROVE TerminalEvents \in Seq(EventKinds)
  OBVIOUS
<1>1. [i \in 1 .. pump.stderr_tail |-> "line"] \in Seq(EventKinds)
  <2>1. pump.stderr_tail \in Nat
    BY DEF TypeOK, Locals
  <2> QED
    BY <2>1 DEF EventKinds
<1>2. /\ When(pump.dropped_output_events > 0, "lost") \in Seq(EventKinds)
      /\ When(pump.finish_output = "err", "error") \in Seq(EventKinds)
      /\ <<"terminated">> \in Seq(EventKinds)
  <2>1. /\ When(pump.dropped_output_events > 0, "lost") \in {<<>>, <<"lost">>}
        /\ When(pump.finish_output = "err", "error") \in {<<>>, <<"error">>}
    BY DEF When
  <2>2. /\ <<"lost">> \in Seq(EventKinds) /\ <<"error">> \in Seq(EventKinds)
        /\ <<"terminated">> \in Seq(EventKinds) /\ <<>> \in Seq(EventKinds)
    BY DEF EventKinds
  <2> QED
    BY <2>1, <2>2
<1> QED
  BY <1>1, <1>2 DEF TerminalEvents

LEMMA InitTyped == Init => TypeOK
<1> SUFFICES ASSUME Init PROVE TypeOK
  OBVIOUS
<1>1. pump \in Locals
  BY Countdowns DEF Init, Locals, Outcomes, Exits, EventKinds, Countdown
<1>2. /\ stdin \in Stdins
      /\ write \in Seq(WriteStates)
  BY DEF Init, NoWrite, Numbers, WriteStates, Stdins
<1> QED
  BY <1>1, <1>2 DEF Init, TypeOK, Outcomes, Exits, EventKinds, Kills, WriteStates, Numbers, Stdins

\* What finish() drained, and what it hands on of that.
LEMMA Drained ==
  ASSUME TypeOK, Finish
  PROVE  \E tail \in Nat, kept \in Nat :
           /\ tail <= proc.pipe /\ kept <= tail
           /\ pump' = [Dying(pump) EXCEPT !.finish_output = proc.finish, !.payload = Payload,
                                          !.stderr_tail = kept,
                                          !.at = IF @ = "drain" THEN "cleanup" ELSE @]
           /\ proc' = [proc EXCEPT !.pipe = @ - tail, !.missed = @ + (tail - kept)]
<1>1. proc.pipe \in Nat
  BY DEF TypeOK
<1>2. PICK tail \in 0 .. proc.pipe : \E kept \in Split(tail) :
        /\ pump' = [Dying(pump) EXCEPT !.finish_output = proc.finish, !.payload = Payload,
                                       !.stderr_tail = kept,
                                       !.at = IF @ = "drain" THEN "cleanup" ELSE @]
        /\ proc' = [proc EXCEPT !.pipe = @ - tail, !.missed = @ + (tail - kept)]
  BY DEF Finish
<1>3. tail \in Nat /\ tail <= proc.pipe /\ \A kept \in Split(tail) : kept \in Nat /\ kept <= tail
  BY <1>1 DEF Split
<1> QED
  BY <1>2, <1>3

LEMMA StepTyped ==
  ASSUME TypeOK, [Next]_vars PROVE TypeOK'
<1>t. /\ pump \in Locals /\ term \in Outcomes /\ pid_file \in BOOLEAN
      /\ ev \in Seq(EventKinds) /\ ctrl \in Seq(Callers \cup Numbers) /\ handles \in BOOLEAN
      /\ rx \in Receivers
      /\ call \in [Callers -> CallStates]
      /\ kind \in [Callers -> Kills \cup {"none"}]
      /\ write \in Seq(WriteStates)
      /\ stdin \in Stdins
      /\ proc \in Procs
  BY DEF TypeOK, WriteStates, CallStates, Stdins, Procs, Receivers
<1>q. ASSUME /\ pump' \in Locals /\ term' \in Outcomes /\ pid_file' \in BOOLEAN
             /\ ev' \in Seq(EventKinds) /\ ctrl' \in Seq(Callers \cup Numbers)
             /\ handles' \in BOOLEAN /\ rx' \in Receivers
             /\ call' \in [Callers -> CallStates]
             /\ kind' \in [Callers -> Kills \cup {"none"}]
             /\ write' \in Seq(WriteStates) /\ stdin' \in Stdins /\ proc' \in Procs
      PROVE  TypeOK'
  BY <1>q DEF TypeOK, WriteStates, CallStates, Stdins, Procs, Receivers
<1> USE Countdowns DEF Outcomes
<1>p. ASSUME pump' \in Locals,
             UNCHANGED <<term, pid_file, ev, rx, ctrl, handles, call, kind, input, proc>>
      PROVE  TypeOK'
  BY <1>p, <1>q, <1>t DEF input
<1>k. ASSUME NEW result \in KillResults, KillAll(result)
      PROVE  proc' \in Procs
  BY <1>k, <1>t DEF KillAll, KillResults, Procs
<1>1. CASE Abandon
  <2>1. pump' \in Locals
    BY <1>1, <1>t DEF Abandon, Locals
  <2> QED
    BY <1>1, <1>q, <1>t, <1>k, <2>1 DEF Abandon, input
<1>2. CASE RecvCtrl
  <2>1. CASE ctrl = <<>> /\ pump' = [pump EXCEPT !.ctrl_open = FALSE]
             /\ UNCHANGED <<ctrl, call, input, proc>>
    <3>1. pump' \in Locals
      BY <2>1, <1>t DEF Locals
    <3> QED
      BY <1>2, <2>1, <3>1, <1>q, <1>t DEF RecvCtrl, input
  <2>2. CASE ctrl # <<>> /\ ctrl' = Tail(ctrl)
             /\ Head(ctrl) \in Callers /\ HandleKill(Head(ctrl)) /\ UNCHANGED input
    <3>1. Sooner \in Countdown
      BY SoonerTyped DEF Countdown
    <3>2. /\ [pump EXCEPT !.hard_kill_at = Sooner] \in Locals
          /\ [pump EXCEPT !.hard_kill_at = Off] \in Locals
      BY <1>t, <3>1 DEF Locals
    <3>3. pump' \in Locals
      BY <2>2, <1>t, <3>2, DyingTyped DEF HandleKill
    <3>4. /\ call' \in [Callers -> CallStates]
          /\ proc' \in Procs
      BY <2>2, <1>t, <1>k DEF HandleKill, Reply, CallStates
    <3>5. ctrl' \in Seq(Callers \cup Numbers)
      BY <2>2, <1>t
    <3> QED
      BY <1>2, <2>2, <3>3, <3>4, <3>5, <1>q, <1>t DEF RecvCtrl, input
  <2>3. CASE ctrl # <<>> /\ ctrl' = Tail(ctrl)
             /\ Head(ctrl) \in Numbers /\ HandleWrite(Head(ctrl))
             /\ UNCHANGED <<pump, call, proc>>
    <3>1. ctrl' \in Seq(Callers \cup Numbers)
      BY <2>3, <1>t
    <3>2. write' \in Seq(WriteStates)
      <4>1. \A s \in WriteStates : [write EXCEPT ![Head(ctrl)] = s] \in Seq(WriteStates)
        BY <1>t, ExceptTyped
      <4> QED
        BY <2>3, <4>1 DEF HandleWrite, WriteStates
    <3>3. stdin' \in Stdins
      <4>1. Append(stdin.queue, Head(ctrl)) \in Seq(Numbers)
        BY <2>3, <1>t DEF Stdins
      <4> QED
        BY <2>3, <4>1, <1>t DEF HandleWrite, Stdins
    <3> QED
      BY <1>2, <2>3, <3>1, <3>2, <3>3, <1>q, <1>t DEF RecvCtrl
  <2> QED
    BY <1>2, <2>1, <2>2, <2>3 DEF RecvCtrl
<1>3. CASE HardKill
  <2>1. pump' \in Locals
    <3>1. [pump EXCEPT !.hard_kill_at = Off] \in Locals
      BY <1>t DEF Locals
    <3> QED
      BY <1>3, <3>1, DyingTyped DEF HardKill
  <2> QED
    BY <1>3, <1>q, <1>t, <1>k, <2>1 DEF HardKill, input
<1>4. CASE Finish
  <2>1. PICK tail \in Nat, kept \in Nat :
          /\ tail <= proc.pipe /\ kept <= tail
          /\ pump' = [Dying(pump) EXCEPT !.finish_output = proc.finish, !.payload = Payload,
                                         !.stderr_tail = kept,
                                         !.at = IF @ = "drain" THEN "cleanup" ELSE @]
          /\ proc' = [proc EXCEPT !.pipe = @ - tail, !.missed = @ + (tail - kept)]
    BY <1>4, Drained
  <2>2. proc.pipe - tail \in Nat /\ proc.missed + (tail - kept) \in Nat
    <3>1. proc.pipe \in Nat /\ proc.missed \in Nat
      BY <1>t DEF Procs
    <3> QED
      BY <2>1, <3>1
  <2>3. pump' \in Locals
    <3> DEFINE p == Dying(pump)
               a == IF p.at = "drain" THEN "cleanup" ELSE p.at
    <3>1. p \in Locals
      BY <1>t, DyingTyped
    <3>2. proc.finish \in Outcomes /\ Payload \in Exits
      BY <1>t DEF Procs, Payload, Exits
    <3>3. a \in Ats
      BY <3>1 DEF Locals, Ats
    <3>4. pump' = [p EXCEPT !.finish_output = proc.finish, !.payload = Payload,
                        !.stderr_tail = kept, !.at = a]
      BY <2>1, <3>1 DEF Locals
    <3> HIDE DEF p, a
    <3> QED
      BY <2>2, <3>1, <3>2, <3>3, <3>4 DEF Locals, Ats
  <2> QED
    BY <1>4, <1>q, <1>t, <2>1, <2>2, <2>3 DEF Finish, input, Procs
<1>5. CASE DropPending
  <2>1. pump' \in Locals
    <3>1. Counted \in Nat
      BY <1>t DEF Counted, Locals
    <3> QED
      BY <1>5, <1>t, <3>1 DEF DropPending, Locals
  <2> QED
    BY <1>5, <1>p, <2>1 DEF DropPending
<1>6. CASE SendPending
  <2>1. pump' \in Locals
    BY <1>6, <1>t DEF SendPending, Locals
  <2>2. ev' \in Seq(EventKinds)
    <3>1. "line" \in EventKinds
      BY DEF EventKinds
    <3> QED
      BY <1>6, <1>t, <3>1 DEF SendPending
  <2> QED
    BY <1>6, <1>q, <1>t, <2>1, <2>2 DEF SendPending, input
<1>7. CASE CloseEvents
  <2>1. pump' \in Locals
    BY <1>7, <1>t DEF CloseEvents, Locals
  <2> QED
    BY <1>7, <1>p, <2>1 DEF CloseEvents
<1>8. CASE ReadLine
  <2>1. proc.pipe - 1 \in Nat
    BY <1>8, <1>t DEF ReadLine, Procs
  <2>2. pump' \in Locals
    <3>1. Counted \in Nat
      BY <1>t DEF Counted, Locals
    <3>2. [pump EXCEPT !.dropped_output_events = Counted] \in Locals
      BY <1>t, <3>1 DEF Locals
    <3>3. \A t \in Countdown :
            [pump EXCEPT !.pending_event = pump.events_open, !.drop_pending_at = t] \in Locals
      BY <1>t DEF Locals
    <3>4. (IF pump.events_open /\ pump.dying THEN Stall ELSE pump.drop_pending_at) \in Countdown
      BY <1>t DEF Locals
    <3> QED
      BY <1>8, <3>2, <3>3, <3>4 DEF ReadLine
  <2> QED
    BY <1>8, <1>q, <1>t, <2>1, <2>2 DEF ReadLine, input, Procs
<1>9. CASE EndOfOutput
  <2>1. pump' \in Locals
    BY <1>9, <1>t DEF EndOfOutput, AfterOutput, Locals
  <2> QED
    BY <1>9, <1>p, <2>1 DEF EndOfOutput
<1>10. CASE Cleanup
  <2>1. pump' \in Locals
    BY <1>10, <1>t, TerminalTyped DEF Cleanup, Locals
  <2>2. pid_file' \in BOOLEAN
    BY <1>10 DEF Cleanup
  <2> QED
    BY <1>10, <1>q, <1>t, <2>1, <2>2 DEF Cleanup, input
<1>11. CASE FlushSend
  <2>1. pump.terminal_events # <<>> /\ pump.terminal_events \in Seq(EventKinds)
    BY <1>11, <1>t DEF FlushSend, Flush, Locals
  <2>2. Tail(pump.terminal_events) \in Seq(EventKinds) /\ Head(pump.terminal_events) \in EventKinds
    BY <2>1
  <2>3. pump' \in Locals /\ ev' \in Seq(EventKinds)
    BY <1>11, <1>t, <2>2, AppendTyped DEF FlushSend, Locals
  <2> QED
    BY <1>11, <1>q, <1>t, <2>3 DEF FlushSend, input
<1>12. CASE FlushGivesUp
  <2>1. pump' \in Locals
    BY <1>12, <1>t DEF FlushGivesUp, Locals
  <2> QED
    BY <1>12, <1>p, <2>1 DEF FlushGivesUp
<1>13. CASE Return
  <2>1. pump' \in Locals
    BY <1>13, <1>t DEF Return, Locals
  <2>2. stdin' \in Stdins
    BY <1>13, <1>t DEF Return, Stdins
  <2> QED
    BY <1>13, <1>q, <1>t, <2>1, <2>2 DEF Return
<1>14. CASE Tick
  <2>1. pump' \in Locals
    BY <1>14, <1>t DEF Tick, Locals
  <2> QED
    BY <1>14, <1>p, <2>1 DEF Tick
<1>15. CASE StdinWriter
  <2>1. /\ stdin' \in Stdins
        /\ write' \in Seq(WriteStates)
    <3>1. CASE WriterTakes
      <4>1. Head(stdin.queue) \in Nat /\ Tail(stdin.queue) \in Seq(Numbers)
        BY <3>1, <1>t DEF WriterTakes, Numbers, Stdins
      <4> QED
        BY <3>1, <1>t, <4>1 DEF WriterTakes, Stdins
    <3>2. CASE WriteSucceeds
      <4>1. [write EXCEPT ![stdin.hand] = "ok"] \in Seq(WriteStates)
        BY <1>t, ExceptTyped DEF WriteStates
      <4> QED
        BY <3>2, <1>t, <4>1 DEF WriteSucceeds, NoWrite, Stdins
    <3>3. CASE WriteFails
      <4>1. stdin' \in Stdins
        <5>1. <<>> \in Seq(Numbers) /\ 0 \in Nat
          OBVIOUS
        <5> QED
          BY <3>3, <1>t, <5>1 DEF WriteFails, GivesUp, NoWrite, Stdins
      <4>2. DOMAIN write = 1 .. Len(write) /\ Len(write) \in Nat
            /\ \A w \in DOMAIN write : write[w] \in WriteStates
        BY <1>t
      <4> QED
        BY <3>3, <4>1, <4>2 DEF WriteFails, WriteStates
    <3>4. CASE WriterEnds
      BY <3>4, <1>t DEF WriterEnds, Stdins
    <3> QED
      BY <1>15, <3>1, <3>2, <3>3, <3>4 DEF StdinWriter
  <2>2. UNCHANGED <<pump, term, pid_file, ev, rx, ctrl, handles, call, kind, proc>>
    BY <1>15 DEF StdinWriter, WriterTakes, WriteSucceeds, WriteFails, WriterEnds, Writer
  <2> QED
    BY <1>q, <1>t, <2>1, <2>2
<1>16. CASE Write \/ Exit \/ ClosePipes \/ FinishResolves
  <2>1. CASE Write
    <3>1. proc.written + 1 \in Nat /\ proc.pipe + 1 \in Nat /\ proc.missed + 1 \in Nat
      BY <1>t DEF Procs
    <3>2. proc' \in Procs
      BY <2>1, <1>t, <3>1 DEF Write, Process, Procs
    <3> QED
      BY <2>1, <1>q, <1>t, <3>2 DEF Write, Process, input
  <2>2. CASE Exit
    <3>1. PICK o \in Exits : proc' = [proc EXCEPT !.alive = FALSE, !.outcome = o]
      BY <2>2, EndingsAssumption DEF Exit, Process, Exits
    <3>2. proc' \in Procs
      BY <3>1, <1>t DEF Procs
    <3> QED
      BY <2>2, <1>q, <1>t, <3>2 DEF Exit, Process, input
  <2>4. CASE ClosePipes
    BY <2>4, <1>q, <1>t DEF ClosePipes, Process, input, Procs
  <2>3. CASE FinishResolves
    BY <2>3, <1>q, <1>t DEF FinishResolves, Process, input, Procs
  <2> QED
    BY <1>16, <2>1, <2>2, <2>3, <2>4
<1>17. CASE Receive
  <2>1. ev # <<>> /\ ev' = Tail(ev) /\ ev' \in Seq(EventKinds)
    BY <1>17, <1>t DEF Receive
  <2>2. rx' \in Receivers
    <3>1. pump.dropped_output_events \in Nat
      BY <1>t DEF Locals
    <3> QED
      <4>1. rx.got + 1 \in Nat
        BY <1>t DEF Receivers
      <4> QED
        BY <1>17, <1>t, <3>1, <4>1 DEF Receive, Receivers
  <2> QED
    BY <1>17, <1>q, <1>t, <2>1, <2>2 DEF Receive, input
<1>18. CASE CloseReceiver
  <2>1. rx' \in Receivers /\ ev' \in Seq(EventKinds)
    <3>1. <<>> \in Seq(EventKinds)
      OBVIOUS
    <3>2. [rx EXCEPT !.open = FALSE] \in Receivers
      BY <1>t DEF Receivers
    <3> QED
      BY <1>18, <3>1, <3>2 DEF CloseReceiver
  <2> QED
    BY <1>18, <1>q, <1>t, <2>1 DEF CloseReceiver, input
<1>23. CASE DropHandles
  <2>1. handles' \in BOOLEAN
    BY <1>23 DEF DropHandles
  <2> QED
    BY <1>23, <1>q, <1>t, <2>1 DEF DropHandles, input
<1>19. ASSUME NEW c \in Callers, Send(c) \/ ReplyIsDropped(c) \/ Answer(c) PROVE TypeOK'
  <2>1. Rejected(c) \in {"already_exited", "ok", "err"}
    BY <1>t DEF Rejected
  <2>2. call' \in [Callers -> CallStates]
    BY <1>19, <1>t, <2>1 DEF Send, ReplyIsDropped, Answer, CallGoes, CallStates
  <2>4. ctrl' \in Seq(Callers \cup Numbers)
    <3>1. Append(ctrl, c) \in Seq(Callers \cup Numbers)
      BY <1>t, AppendTyped
    <3> QED
      BY <1>19, <1>t, <3>1 DEF Send, ReplyIsDropped, Answer
  <2>5. kind' \in [Callers -> Kills \cup {"none"}]
    BY <1>19, <1>t DEF Send, ReplyIsDropped, Answer
  <2>3. UNCHANGED <<pump, term, pid_file, ev, rx, handles, input, proc>>
    BY <1>19 DEF Send, ReplyIsDropped, Answer, CallGoes
  <2> QED
    BY <1>q, <1>t, <2>2, <2>3, <2>4, <2>5 DEF input
<1>20. CASE SendWrite
  <2>1. Len(write) + 1 \in Numbers
    BY <1>t DEF Numbers
  <2>2. write' \in Seq(WriteStates) /\ ctrl' \in Seq(Callers \cup Numbers)
    <3>1. /\ Append(write, "queued") \in Seq(WriteStates)
          /\ Append(write, "refused") \in Seq(WriteStates)
          /\ Append(ctrl, Len(write) + 1) \in Seq(Callers \cup Numbers)
      BY <1>t, <2>1, AppendTyped DEF WriteStates
    <3> QED
      BY <1>20, <1>t, <3>1 DEF SendWrite, WriteGoes
  <2>3. UNCHANGED <<pump, term, pid_file, ev, rx, handles, call, kind, stdin, proc>>
    BY <1>20 DEF SendWrite, WriteGoes
  <2> QED
    BY <1>q, <1>t, <2>2, <2>3
<1>21. ASSUME NEW w \in DOMAIN write, WriteIsDropped(w) PROVE TypeOK'
  <2>1. write' \in Seq(WriteStates)
    BY <1>21, <1>t DEF WriteIsDropped, WriteGoes, WriteStates
  <2> QED
    BY <1>21, <1>q, <1>t, <2>1 DEF WriteIsDropped, WriteGoes
<1>22. CASE UNCHANGED vars
  BY <1>22, <1>q, <1>t DEF vars, input
<1> QED
  BY <1>1, <1>2, <1>3, <1>4, <1>5, <1>6, <1>7, <1>8, <1>9, <1>10, <1>11, <1>12, <1>13,
     <1>14, <1>15, <1>16, <1>17, <1>18, <1>23, <1>19, <1>20, <1>21, <1>22
  DEF Next, Pump, Finished

\* The variables of the model keep their types: no counter of lines goes below
\* zero and every queue holds what it should.
THEOREM TypeCorrect == Spec => []TypeOK
<1>1. Init => TypeOK
  BY InitTyped
<1>2. TypeOK /\ [Next]_vars => TypeOK'
  BY StepTyped
<1> QED
  BY <1>1, <1>2, PTL DEF Spec

(***************************************************************************)
(* What it takes for a branch of a select! to be taken.                    *)
(***************************************************************************)
LEMMA Taken ==
  /\ Finish => pump.at \in {"main", "drain"} /\ FinishReady
  /\ DropPending => pump.at = "main" /\ pump.pending_event
  /\ SendPending => pump.at = "main" /\ pump.pending_event /\ rx.open
  /\ CloseEvents => ~rx.open
  /\ ReadLine => pump.at = "main" /\ ~pump.pending_event
  /\ EndOfOutput => pump.at = "main" /\ ~proc.piped /\ ~pump.pending_event
  /\ FlushSend => pump.at = "flush" /\ pump.terminal_events # <<>>
<1>1. /\ Main(4) => pump.at = "main" /\ FinishReady
      /\ Main(5) => pump.at = "main" /\ DropDue
      /\ Main(6) => pump.at = "main" /\ SendReady
      /\ Main(7) => CloseReady
      /\ Main(8) => pump.at = "main" /\ NextReady
  BY DEF Main, First
<1>2. /\ Drain(4) => CloseReady
      /\ Drain(5) => pump.at = "drain" /\ FinishReady
  BY DEF Drain, First
<1>3. /\ Flush(3) => CloseReady
      /\ Flush(4) => pump.at = "flush" /\ pump.terminal_events # <<>>
  BY DEF Flush, First
<1>4. /\ DropDue => pump.pending_event
      /\ SendReady => pump.pending_event /\ rx.open
      /\ CloseReady => ~rx.open
      /\ NextReady => ~pump.pending_event /\ (proc.pipe > 0 \/ ~proc.piped)
  BY DEF DropDue, SendReady, HasPermit, CloseReady, NextReady
<1>5. /\ Finish => Main(4) \/ Drain(5)
      /\ DropPending => Main(5)
      /\ SendPending => Main(6)
      /\ CloseEvents => Main(7) \/ Drain(4) \/ Flush(3)
      /\ ReadLine => Main(8)
      /\ EndOfOutput => Main(8) /\ proc.pipe = 0
      /\ FlushSend => Flush(4)
  BY DEF Finish, DropPending, SendPending, CloseEvents, ReadLine, EndOfOutput, FlushSend
<1>6. proc.pipe = 0 => ~(proc.pipe > 0)
  OBVIOUS
<1> HIDE DEF Main, Drain, Flush
<1> QED
  BY <1>1, <1>2, <1>3, <1>4, <1>5, <1>6, Zenon

(***************************************************************************)
(* The exit of the child, its outcome and the pid file.                    *)
(***************************************************************************)
Settled ==
  /\ proc.finish # "none" => ~proc.alive
  /\ pump.finish_output # "none" => term # "none" /\ proc.finish # "none"
  /\ pump.at # "main" => ~proc.piped
  /\ pump.at \in {"cleanup", "flush", "gone"} => pump.finish_output # "none"
  /\ ~pid_file => pump.at \in {"flush", "gone"}

LEMMA SettledImplies == Settled => PidFileOutlivesTheChild
BY DEF Settled, PidFileOutlivesTheChild, Gone

LEMMA SettledInit == Init => Settled
BY DEF Init, Settled

LEMMA SettledStep ==
  ASSUME TypeOK, Settled, [Next]_vars PROVE Settled'
<1> USE DEF Settled
<1>t. pump \in Locals /\ proc \in Procs /\ pid_file \in BOOLEAN
  BY DEF TypeOK, Procs
<1>d. /\ \A p \in Locals : Dying(p).at = p.at /\ Dying(p).finish_output = p.finish_output
      /\ \A t : [pump EXCEPT !.hard_kill_at = t].at = pump.at
      /\ \A t : [pump EXCEPT !.hard_kill_at = t].finish_output = pump.finish_output
  BY <1>t, DyingTyped DEF Locals
<1>k. ASSUME NEW result, KillAll(result)
      PROVE  UNCHANGED <<proc.alive, proc.piped, proc.finish, proc.pipe>>
  BY <1>k, <1>t DEF KillAll, Procs
<1>1. CASE Abandon
  BY <1>1, <1>t, <1>k DEF Abandon, Locals
<1>2. CASE RecvCtrl
  <2>1. UNCHANGED <<proc.alive, proc.piped, proc.finish, term, pid_file>>
    BY <1>2, <1>k DEF RecvCtrl, HandleKill
  <2>2. pump'.at = pump.at /\ pump'.finish_output = pump.finish_output
    <3>1. CASE ctrl = <<>> /\ pump' = [pump EXCEPT !.ctrl_open = FALSE]
      BY <3>1, <1>t DEF Locals
    <3>2. CASE HandleKill(Head(ctrl))
      <4>1. Sooner \in Countdown /\ Off \in Countdown
        BY SoonerTyped, Countdowns DEF Countdown
      <4>2. \A t \in Countdown : [pump EXCEPT !.hard_kill_at = t] \in Locals
        BY <1>t DEF Locals
      <4>3. PICK p \in {pump, [pump EXCEPT !.hard_kill_at = Sooner],
                         [pump EXCEPT !.hard_kill_at = Off]} : pump' = Dying(p)
        BY <3>2 DEF HandleKill
      <4>4. p \in Locals /\ p.at = pump.at /\ p.finish_output = pump.finish_output
        BY <4>1, <4>2, <4>3, <1>t, <1>d
      <4> QED
        BY <4>3, <4>4, <1>d
    <3> QED
      BY <1>2, <3>1, <3>2 DEF RecvCtrl
  <2> QED
    BY <2>1, <2>2
<1>3. CASE HardKill
  <2>1. [pump EXCEPT !.hard_kill_at = Off] \in Locals
    BY <1>t, Countdowns DEF Locals
  <2> QED
    BY <1>3, <1>d, <1>k, <2>1 DEF HardKill
<1>4. CASE Finish
  <2>1. proc.finish # "none" /\ pump.at \in {"main", "drain"}
    BY <1>4, Taken DEF FinishReady
  <2>2. PICK tail \in Nat, kept \in Nat :
          /\ tail <= proc.pipe /\ kept <= tail
          /\ pump' = [Dying(pump) EXCEPT !.finish_output = proc.finish, !.payload = Payload,
                                         !.stderr_tail = kept,
                                         !.at = IF @ = "drain" THEN "cleanup" ELSE @]
          /\ proc' = [proc EXCEPT !.pipe = @ - tail, !.missed = @ + (tail - kept)]
    BY <1>4, Drained
  <2>3. Dying(pump) \in Locals /\ Dying(pump).at = pump.at
    BY <1>t, DyingTyped
  <2>4. pump'.finish_output = proc.finish /\ pump'.at \in {pump.at, "cleanup"}
        /\ (pump.at = "main" => pump'.at = "main")
    BY <2>2, <2>3 DEF Locals
  <2> QED
    BY <1>4, <1>t, <2>1, <2>2, <2>4 DEF Finish, Procs
<1>5. CASE DropPending
  BY <1>5, <1>t DEF DropPending, Locals
<1>6. CASE SendPending
  BY <1>6, <1>t DEF SendPending, Locals
<1>7. CASE CloseEvents
  BY <1>7, <1>t DEF CloseEvents, Locals
<1>8. CASE ReadLine
  <2>1. UNCHANGED <<pump.at, pump.finish_output, proc.alive, proc.piped, proc.finish>>
    BY <1>8, <1>t DEF ReadLine, Locals, Procs
  <2> QED
    BY <1>8, <2>1 DEF ReadLine
<1>9. CASE EndOfOutput
  BY <1>9, <1>t, Taken DEF EndOfOutput, AfterOutput, Locals
<1>10. CASE Cleanup
  BY <1>10, <1>t DEF Cleanup, Locals
<1>11. CASE FlushSend
  BY <1>11, <1>t DEF FlushSend, Locals
<1>12. CASE FlushGivesUp
  BY <1>12, <1>t DEF FlushGivesUp, Locals
<1>13. CASE Return
  BY <1>13, <1>t DEF Return, Locals
<1>14. CASE Tick
  BY <1>14, <1>t DEF Tick, Locals
<1>15. CASE StdinWriter
  BY <1>15 DEF StdinWriter, WriterTakes, WriteSucceeds, WriteFails, WriterEnds, Writer
<1>16. CASE Write \/ Exit \/ ClosePipes \/ FinishResolves
  BY <1>16, <1>t DEF Write, Exit, ClosePipes, FinishResolves, Process, Procs
<1>17. CASE Receive \/ CloseReceiver \/ DropHandles
  BY <1>17 DEF Receive, CloseReceiver, DropHandles
<1>18. ASSUME NEW c \in Callers, Send(c) \/ ReplyIsDropped(c) \/ Answer(c) PROVE Settled'
  BY <1>18 DEF Send, ReplyIsDropped, Answer, CallGoes
<1>19. CASE SendWrite
  <2>1. UNCHANGED <<pump, term, pid_file, proc>>
    BY <1>19 DEF SendWrite, WriteGoes
  <2> QED
    BY <2>1
<1>20. ASSUME NEW w \in DOMAIN write, WriteIsDropped(w) PROVE Settled'
  BY <1>20 DEF WriteIsDropped, WriteGoes
<1>21. CASE UNCHANGED vars
  BY <1>21 DEF vars
<1> QED
  BY <1>1, <1>2, <1>3, <1>4, <1>5, <1>6, <1>7, <1>8, <1>9, <1>10, <1>11, <1>12, <1>13,
     <1>14, <1>15, <1>16, <1>17, <1>18, <1>19, <1>20, <1>21
  DEF Next, Pump, Finished

LEMMA AlwaysSettled == Spec => [](TypeOK /\ Settled)
<1>1. Init => TypeOK /\ Settled
  BY InitTyped, SettledInit
<1>2. TypeOK /\ Settled /\ [Next]_vars => TypeOK' /\ Settled'
  BY StepTyped, SettledStep
<1> QED
  BY <1>1, <1>2, PTL DEF Spec

\* When the pid file is gone the child has exited, its outcome is published and
\* its pipes are closed (engine.rs 445-491).
THEOREM PidFileOutlivesTheChildHolds == Spec => []PidFileOutlivesTheChild
<1>1. TypeOK /\ Settled => PidFileOutlivesTheChild
  BY SettledImplies
<1> QED
  BY <1>1, AlwaysSettled, PTL

(***************************************************************************)
(* Kills.                                                                  *)
(***************************************************************************)
LEMMA AlreadyExitedStep ==
  ASSUME TypeOK, Settled, NeverAlreadyExited, [Next]_vars PROVE NeverAlreadyExited'
<1> USE DEF NeverAlreadyExited
<1>t. call \in [Callers -> CallStates] /\ term \in Outcomes
  BY DEF TypeOK, CallStates
<1>1. CASE RecvCtrl
  <2>1. CASE UNCHANGED call
    BY <2>1
  <2>2. CASE HandleKill(Head(ctrl))
    <3>1. PICK result : Reply(Head(ctrl), result)
      BY <2>2 DEF HandleKill
    <3> QED
      BY <3>1, <1>t DEF Reply
  <2> QED
    BY <1>1, <2>1, <2>2 DEF RecvCtrl
<1>2. ASSUME NEW c \in Callers, Send(c) \/ ReplyIsDropped(c) \/ Answer(c)
      PROVE  NeverAlreadyExited'
  <2>1. pump.at = "gone" => Rejected(c) # "already_exited"
    BY <1>t DEF Settled, Rejected, Outcomes
  <2>2. \E to \in CallStates : to # "already_exited" /\ call' = [call EXCEPT ![c] = to]
    BY <1>2, <1>t, <2>1 DEF Send, ReplyIsDropped, Answer, CallGoes, Rejected, Outcomes, CallStates
  <2> QED
    BY <1>t, <2>2
<1>3. ASSUME ~RecvCtrl, \A c \in Callers : ~Send(c) /\ ~ReplyIsDropped(c) /\ ~Answer(c)
      PROVE  UNCHANGED call
  BY <1>3 DEF Next, Pump, Abandon, HardKill, Finish, DropPending, SendPending, CloseEvents,
     ReadLine, EndOfOutput, Cleanup, FlushSend, FlushGivesUp, Return, StdinWriter, WriterTakes,
     WriteSucceeds, WriteFails, WriterEnds, Writer, Tick, Write, Exit, ClosePipes,
     FinishResolves, Process, Receive, CloseReceiver, DropHandles, SendWrite, WriteIsDropped,
     WriteGoes, Finished, vars
<1> QED
  BY <1>1, <1>2, <1>3

\* A kill or graceful kill that races the end of the pump never returns
\* AlreadyExited: the pump publishes the outcome before it lets go of its channels
\* (handle.rs 77-99, engine.rs 387-399).
THEOREM NeverAlreadyExitedHolds == Spec => []NeverAlreadyExited
<1>1. Init => NeverAlreadyExited
  BY DEF Init, NeverAlreadyExited
<1>2. TypeOK /\ Settled /\ NeverAlreadyExited /\ [Next]_vars => NeverAlreadyExited'
  BY AlreadyExitedStep
<1> QED
  BY <1>1, <1>2, AlwaysSettled, PTL DEF Spec

(***************************************************************************)
(* Deadlines.                                                              *)
(***************************************************************************)
LEMMA DeadlineStep ==
  ASSUME TypeOK, [Next]_vars, pump.hard_kill_at # Off
  PROVE  \/ pump'.hard_kill_at \in 0 .. pump.hard_kill_at
         \/ pump'.hard_kill_at = Off /\ proc'.kill # "none"
<1>t. pump \in Locals /\ proc \in Procs
  BY DEF TypeOK, Procs
<1>n. pump.hard_kill_at \in Nat /\ pump.hard_kill_at \in 0 .. pump.hard_kill_at
  BY <1>t DEF Locals, Countdown
<1>k. ASSUME NEW result \in KillResults, KillAll(result) PROVE proc'.kill # "none"
  BY <1>k, <1>t DEF KillAll, KillResults, Procs
<1>e. \A t \in Countdown : /\ [pump EXCEPT !.hard_kill_at = t] \in Locals
                           /\ [pump EXCEPT !.hard_kill_at = t].hard_kill_at = t
  BY <1>t DEF Locals
<1>1. CASE Abandon
  <2>1. pump'.hard_kill_at = Off
    BY <1>1, <1>t DEF Abandon, Locals
  <2> QED
    BY <1>1, <1>k, <2>1 DEF Abandon
<1>2. CASE RecvCtrl
  <2>1. CASE HandleKill(Head(ctrl))
    <3>1. Sooner \in Countdown /\ Off \in Countdown /\ Sooner \in 0 .. pump.hard_kill_at
      BY <1>n, SoonerTyped DEF Countdown
    <3>2. CASE pump' = Dying([pump EXCEPT !.hard_kill_at = Sooner])
      BY <3>1, <3>2, <1>e, DyingTyped
    <3>3. ASSUME NEW result \in KillResults, KillAll(result),
                 pump' = Dying([pump EXCEPT !.hard_kill_at = Off]) \/ pump' = Dying(pump)
          PROVE  \/ pump'.hard_kill_at \in 0 .. pump.hard_kill_at
                 \/ pump'.hard_kill_at = Off /\ proc'.kill # "none"
      <4>1. CASE pump' = Dying(pump)
        BY <4>1, <1>n, <1>t, DyingTyped
      <4>2. CASE pump' = Dying([pump EXCEPT !.hard_kill_at = Off])
        <5>1. pump'.hard_kill_at = Off
          BY <4>2, <3>1, <1>e, DyingTyped
        <5> QED
          BY <3>3, <5>1, <1>k
      <4> QED
        BY <3>3, <4>1, <4>2
    <3> QED
      BY <2>1, <3>2, <3>3 DEF HandleKill
  <2>2. CASE pump' = [pump EXCEPT !.ctrl_open = FALSE] \/ UNCHANGED pump
    BY <2>2, <1>t, <1>n DEF Locals
  <2> QED
    BY <1>2, <2>1, <2>2 DEF RecvCtrl
<1>3. CASE HardKill
  <2>1. pump'.hard_kill_at = Off
    BY <1>3, <1>e, DyingTyped, Countdowns DEF HardKill
  <2> QED
    BY <1>3, <1>k, <2>1 DEF HardKill
<1>4. CASE Finish
  <2>1. Dying(pump) \in Locals /\ Dying(pump).hard_kill_at = pump.hard_kill_at
    BY <1>t, DyingTyped
  <2>2. pump'.hard_kill_at = pump.hard_kill_at
    BY <1>4, <2>1 DEF Finish, Locals
  <2> QED
    BY <1>n, <2>2
<1>5. CASE Tick
  <2>1. pump'.hard_kill_at = Less(pump.hard_kill_at)
    BY <1>5, <1>t DEF Tick, Locals
  <2> QED
    BY <1>n, <2>1 DEF Less
<1>6. CASE \/ DropPending \/ SendPending \/ CloseEvents \/ ReadLine \/ EndOfOutput \/ Cleanup
           \/ FlushSend \/ FlushGivesUp \/ Return
  <2>1. pump'.hard_kill_at = pump.hard_kill_at
    BY <1>6, <1>t DEF DropPending, SendPending, CloseEvents, ReadLine, EndOfOutput, Cleanup,
       FlushSend, FlushGivesUp, Return, Locals
  <2> QED
    BY <1>n, <2>1
<1>7. ASSUME ~Pump, ~Tick PROVE UNCHANGED pump
  BY <1>7 DEF Next, StdinWriter, WriterTakes, WriteSucceeds, WriteFails, WriterEnds, Writer,
     Write, Exit, ClosePipes, FinishResolves, Process, Receive, CloseReceiver, DropHandles,
     SendWrite, WriteIsDropped, WriteGoes, Send, ReplyIsDropped, Answer, CallGoes, Finished, vars
<1> QED
  BY <1>1, <1>2, <1>3, <1>4, <1>5, <1>6, <1>7, <1>n DEF Pump

\* A deadline in force only comes nearer; it is cancelled by nothing but the attempt
\* to kill the tree (engine.rs 186-204, 353-386).
THEOREM NeverPostponedHolds == Spec => NeverPostponed
<1>1. TypeOK /\ [Next]_vars =>
        [pump.hard_kill_at # Off =>
           \/ pump'.hard_kill_at \in 0 .. pump.hard_kill_at
           \/ pump'.hard_kill_at = Off /\ proc'.kill # "none"]_vars
  BY DeadlineStep
<1> QED
  BY <1>1, TypeCorrect, PTL DEF Spec, NeverPostponed

(***************************************************************************)
(* The order of the writes: requests in ctrl come after those the writer   *)
(* has accepted, and these after the write in hand and all that succeeded. *)
(***************************************************************************)
Requests == {i \in DOMAIN ctrl : ctrl[i] \in Numbers}

CtrlInOrder ==
  /\ \A i \in Requests : ctrl[i] <= Len(write)
  /\ \A i, j \in Requests : i < j => ctrl[i] < ctrl[j]

QueueInOrder ==
  /\ \A k \in DOMAIN stdin.queue :
       /\ stdin.hand < stdin.queue[k] /\ stdin.queue[k] <= Len(write)
       /\ \A l \in DOMAIN stdin.queue : k < l => stdin.queue[k] < stdin.queue[l]
       /\ \A i \in Requests : stdin.queue[k] < ctrl[i]
  /\ \A i \in Requests : stdin.hand < ctrl[i]
  /\ stdin.hand <= Len(write)

\* Everything that succeeded came before number c.
OkBefore(c) == \A v \in DOMAIN write : write[v] = "ok" => v < c

Successes ==
  /\ stdin.hand # NoWrite => OkBefore(stdin.hand)
  /\ \A k \in DOMAIN stdin.queue : OkBefore(stdin.queue[k])
  /\ \A i \in Requests : OkBefore(ctrl[i])
  /\ stdin.ended \/ \A v \in DOMAIN write : write[v] # "broken"

InOrder == CtrlInOrder /\ QueueInOrder /\ Successes /\ NoHoleInStdin

LEMMA TailElements ==
  ASSUME NEW S, NEW q \in Seq(S), q # <<>>
  PROVE  /\ 1 \in DOMAIN q /\ Head(q) = q[1]
         /\ \A i \in DOMAIN Tail(q) : /\ i + 1 \in DOMAIN q /\ Tail(q)[i] = q[i + 1]
                                     /\ i \in Nat /\ 1 < i + 1
OBVIOUS

LEMMA AppendElements ==
  ASSUME NEW S, NEW q \in Seq(S), NEW s
  PROVE  \A i \in DOMAIN Append(q, s) :
           \/ i \in DOMAIN q /\ Append(q, s)[i] = q[i] /\ i < Len(q) + 1 /\ i \in Nat
           \/ i = Len(q) + 1 /\ Append(q, s)[i] = s
OBVIOUS

LEMMA InOrderInit == Init => InOrder
BY DEF Init, InOrder, CtrlInOrder, QueueInOrder, Successes, NoHoleInStdin, Requests, NoWrite,
       OkBefore

LEMMA InOrderStep ==
  ASSUME TypeOK, InOrder, [Next]_vars PROVE InOrder'
<1> USE DEF InOrder, Requests
<1>t. /\ ctrl \in Seq(Callers \cup Numbers) /\ write \in Seq(WriteStates) /\ stdin \in Stdins
      /\ stdin.queue \in Seq(Numbers) /\ stdin.hand \in Nat
  BY DEF TypeOK, WriteStates, Stdins
<1>n. DOMAIN ctrl = 1 .. Len(ctrl) /\ DOMAIN write = 1 .. Len(write)
      /\ DOMAIN stdin.queue = 1 .. Len(stdin.queue)
      /\ Len(ctrl) \in Nat /\ Len(write) \in Nat /\ Len(stdin.queue) \in Nat
      /\ \A k \in DOMAIN stdin.queue : stdin.queue[k] \in Numbers
      /\ Numbers \subseteq Nat
  BY <1>t DEF Numbers
\* A write that neither succeeds nor breaks, taken from the head of ctrl or not.
<1>1. CASE UNCHANGED <<ctrl, write, stdin>>
  BY <1>1 DEF CtrlInOrder, QueueInOrder, Successes, NoHoleInStdin, OkBefore
<1>2. CASE RecvCtrl
  <2>1. CASE ctrl = <<>> /\ UNCHANGED <<ctrl, input>>
    BY <2>1, <1>1 DEF input
  <2> SUFFICES ASSUME ctrl # <<>>, ctrl' = Tail(ctrl) PROVE InOrder'
    BY <1>2, <2>1 DEF RecvCtrl
  <2>r. /\ 1 \in DOMAIN ctrl /\ Head(ctrl) = ctrl[1]
        /\ \A i \in Requests' : /\ i + 1 \in Requests /\ ctrl'[i] = ctrl[i + 1]
                               /\ i \in Nat /\ 1 < i + 1
    BY <1>t, TailElements
  <2>2. CASE UNCHANGED input
    <3>1. CtrlInOrder' /\ QueueInOrder'
      BY <2>2, <2>r DEF CtrlInOrder, QueueInOrder, input
    <3>2. Successes' /\ NoHoleInStdin'
      BY <2>2, <2>r DEF Successes, NoHoleInStdin, input, OkBefore
    <3> QED
      BY <3>1, <3>2
  <2>3. ASSUME NEW w \in Numbers, w = Head(ctrl), HandleWrite(w) PROVE InOrder'
    <3>1. 1 \in Requests /\ ctrl[1] = w /\ w <= Len(write) /\ w \in DOMAIN write
      BY <2>3, <2>r, <1>n DEF CtrlInOrder, Numbers
    <3>2. /\ Len(write') = Len(write) /\ DOMAIN write' = DOMAIN write
          /\ \A v \in DOMAIN write : v # w => write'[v] = write[v]
          /\ write'[w] # "ok" /\ write'[w] # "broken"
      <4>1. \E s \in {"accepted", "refused"} : write' = [write EXCEPT ![w] = s]
        BY <2>3 DEF HandleWrite
      <4>2. {"accepted", "refused"} \subseteq WriteStates
        BY DEF WriteStates
      <4> QED
        BY <4>1, <4>2, <1>t, <3>1, ExceptTyped
    <3>3. CtrlInOrder'
      BY <2>r, <3>2 DEF CtrlInOrder
    <3>4. \A c : OkBefore(c) => OkBefore(c)'
      BY <3>2 DEF OkBefore
    <3>5. NoHoleInStdin'
      BY <3>2 DEF NoHoleInStdin
    <3>6. CASE UNCHANGED stdin
      <4>1. QueueInOrder'
        BY <3>6, <2>r, <3>2 DEF QueueInOrder
      <4>2. Successes'
        BY <3>6, <2>r, <3>2 DEF Successes, OkBefore
      <4> QED
        BY <3>3, <3>5, <4>1, <4>2
    <3>7. CASE stdin' = [stdin EXCEPT !.queue = Append(@, w)]
      <4>1. /\ stdin'.queue = Append(stdin.queue, w) /\ stdin'.hand = stdin.hand
            /\ stdin'.ended = stdin.ended
        BY <3>7, <1>t DEF Stdins
      <4>2. \A k \in DOMAIN stdin'.queue :
              \/ /\ k \in DOMAIN stdin.queue /\ stdin'.queue[k] = stdin.queue[k]
                 /\ k < Len(stdin.queue) + 1 /\ k \in Nat
              \/ k = Len(stdin.queue) + 1 /\ stdin'.queue[k] = w
        BY <4>1, <1>t, AppendElements
      <4>3. QueueInOrder'
        <5>1. QueueInOrder /\ CtrlInOrder
          BY <2>r
        <5> QED
          BY <5>1, <4>1, <4>2, <3>1, <3>2, <1>n, SMTT(30) DEF QueueInOrder, CtrlInOrder
      <4>4. Successes'
        BY <4>1, <4>2, <3>1, <3>2, <2>r DEF Successes, OkBefore
      <4> QED
        BY <3>3, <3>5, <4>3, <4>4
    <3> QED
      BY <2>3, <3>6, <3>7 DEF HandleWrite
  <2> QED
    BY <1>2, <2>2, <2>3 DEF RecvCtrl
<1>3. CASE WriterTakes
  <2>1. /\ stdin.queue # <<>> /\ stdin'.hand = Head(stdin.queue)
        /\ stdin'.queue = Tail(stdin.queue) /\ stdin'.ended = stdin.ended
        /\ UNCHANGED <<ctrl, write>>
    BY <1>3, <1>t DEF WriterTakes, Writer, Stdins
  <2>2. /\ 1 \in DOMAIN stdin.queue /\ stdin'.hand = stdin.queue[1]
        /\ \A k \in DOMAIN stdin'.queue :
             /\ k + 1 \in DOMAIN stdin.queue /\ stdin'.queue[k] = stdin.queue[k + 1]
             /\ k \in Nat /\ 1 < k + 1
    BY <2>1, <1>t, TailElements
  <2>3. CtrlInOrder' /\ NoHoleInStdin'
    BY <2>1 DEF CtrlInOrder, NoHoleInStdin
  <2>4. QueueInOrder'
    <3>1. \A k \in DOMAIN stdin.queue : stdin.queue[k] \in Nat
      BY <1>n
    <3> QED
      BY <2>1, <2>2, <3>1 DEF QueueInOrder
  <2>5. Successes'
    BY <2>1, <2>2, <1>n DEF Successes, OkBefore
  <2> QED
    BY <2>3, <2>4, <2>5
<1>4. CASE WriteSucceeds
  <2>1. /\ stdin.hand # 0 /\ ~stdin.ended /\ stdin'.hand = 0
        /\ stdin'.queue = stdin.queue /\ stdin'.ended = stdin.ended
        /\ write' = [write EXCEPT ![stdin.hand] = "ok"] /\ ctrl' = ctrl
    BY <1>4, <1>t DEF WriteSucceeds, Writer, Stdins, NoWrite
  <2>2. /\ Len(write') = Len(write) /\ DOMAIN write' = DOMAIN write
        /\ \A v \in DOMAIN write : write'[v] = IF v = stdin.hand THEN "ok" ELSE write[v]
    BY <2>1, <1>t, ExceptTyped DEF WriteStates
  <2>3. \A v \in DOMAIN write : write[v] # "broken" /\ write'[v] # "broken"
    BY <2>1, <2>2 DEF Successes
  <2>4. CtrlInOrder' /\ NoHoleInStdin'
    BY <2>1, <2>2, <2>3 DEF CtrlInOrder, NoHoleInStdin
  <2>5. QueueInOrder'
    <3>1. /\ \A k \in DOMAIN stdin.queue : 0 < stdin.queue[k]
          /\ \A i \in Requests : 0 < ctrl[i]
      BY <1>n DEF Numbers
    <3> QED
      BY <2>1, <2>2, <3>1, <1>n DEF QueueInOrder
  <2>6. Successes'
    BY <2>1, <2>2, <2>3 DEF Successes, QueueInOrder, OkBefore, NoWrite
  <2> QED
    BY <2>4, <2>5, <2>6
<1>5. CASE WriteFails
  <2>1. /\ stdin.hand # 0 /\ ~stdin.ended /\ stdin'.hand = 0 /\ stdin'.queue = <<>>
        /\ stdin'.ended /\ ctrl' = ctrl
    BY <1>5, <1>t DEF WriteFails, Writer, GivesUp, Stdins, NoWrite
  <2>2. /\ DOMAIN write' = DOMAIN write /\ Len(write') = Len(write)
        /\ \A v \in DOMAIN write :
             write'[v] = IF v \in InHandAndQueued THEN "broken" ELSE write[v]
    BY <1>5, <1>t, <1>n DEF WriteFails
  <2>3. \A v \in DOMAIN write : write[v] # "broken"
    BY <2>1 DEF Successes
  <2>4. \A v \in InHandAndQueued, w \in DOMAIN write : write[w] = "ok" => w < v
    BY <2>1 DEF InHandAndQueued, Successes, OkBefore, NoWrite
  <2>5. NoHoleInStdin'
    BY <2>2, <2>3, <2>4, <1>n DEF NoHoleInStdin
  <2>6. CtrlInOrder'
    BY <2>1, <2>2 DEF CtrlInOrder
  <2>7. QueueInOrder'
    BY <2>1, <1>n DEF QueueInOrder, Numbers
  <2>8. Successes'
    BY <2>1, <2>2 DEF Successes, OkBefore, NoWrite
  <2> QED
    BY <2>5, <2>6, <2>7, <2>8
<1>6. CASE WriterEnds \/ Return
  <2>1. /\ stdin'.hand = stdin.hand /\ stdin'.queue = stdin.queue
        /\ stdin'.ended \/ stdin'.ended = stdin.ended
    BY <1>6, <1>t DEF WriterEnds, Writer, Return, Stdins
  <2>2. UNCHANGED <<ctrl, write>>
    BY <1>6 DEF WriterEnds, Writer, Return
  <2> QED
    BY <2>1, <2>2 DEF CtrlInOrder, QueueInOrder, Successes, NoHoleInStdin, OkBefore
<1>7. CASE SendWrite
  <2>1. \E s \in {"queued", "refused"} : write' = Append(write, s)
    BY <1>7 DEF SendWrite, WriteGoes
  <2>2. /\ Len(write') = Len(write) + 1
        /\ \A v \in DOMAIN write' :
             \/ v \in DOMAIN write /\ write'[v] = write[v]
             \/ v = Len(write) + 1 /\ write'[v] # "ok" /\ write'[v] # "broken"
    BY <2>1, <1>t, AppendElements
  <2>3. stdin' = stdin
    BY <1>7 DEF SendWrite, WriteGoes
  <2>4. ctrl' = ctrl \/ ctrl' = Append(ctrl, Len(write) + 1)
    BY <1>7 DEF SendWrite
  <2>5. \A i \in Requests' :
          \/ i \in Requests /\ ctrl'[i] = ctrl[i] /\ i < Len(ctrl) + 1 /\ i \in Nat
          \/ i = Len(ctrl) + 1 /\ ctrl'[i] = Len(write) + 1
    BY <2>4, <1>t, <1>n, AppendElements
  <2>m. \A i \in Requests : ctrl[i] <= Len(write)
    BY DEF CtrlInOrder
  <2>n. /\ \A i \in Requests : ctrl[i] \in Nat
        /\ \A k \in DOMAIN stdin.queue : stdin.queue[k] \in Nat
    BY <1>n DEF Numbers
  <2>6. CtrlInOrder'
    <3>1. \A i \in Requests' : ctrl'[i] <= Len(write) + 1
      BY <2>5, <2>m, <2>n, <1>n
    <3>2. \A i, j \in Requests' : i < j => ctrl'[i] < ctrl'[j]
      BY <2>5, <2>m, <2>n, <1>n DEF CtrlInOrder
    <3> QED
      BY <2>2, <3>1, <3>2 DEF CtrlInOrder
  <2>7. QueueInOrder'
    <3>1. /\ stdin.hand < Len(write) + 1
          /\ \A k \in DOMAIN stdin.queue : stdin.queue[k] < Len(write) + 1
      BY <2>n, <1>n, <1>t DEF QueueInOrder
    <3>2. ASSUME NEW k \in DOMAIN stdin.queue
          PROVE  /\ stdin.hand < stdin.queue[k] /\ stdin.queue[k] <= Len(write')
                 /\ \A l \in DOMAIN stdin.queue : k < l => stdin.queue[k] < stdin.queue[l]
      BY <2>2, <2>n, <3>1, <1>n DEF QueueInOrder
    <3>3. ASSUME NEW k \in DOMAIN stdin.queue, NEW i \in Requests'
          PROVE  stdin.queue[k] < ctrl'[i]
      BY <2>5, <3>1 DEF QueueInOrder
    <3>4. \A i \in Requests' : stdin.hand < ctrl'[i]
      BY <2>5, <3>1 DEF QueueInOrder
    <3>5. stdin.hand <= Len(write')
      BY <2>2, <1>n, <1>t DEF QueueInOrder
    <3> HIDE DEF Requests
    <3> QED
      BY <2>3, <3>2, <3>3, <3>4, <3>5 DEF QueueInOrder
  <2>8. \A c : OkBefore(c) => OkBefore(c)'
    BY <2>2 DEF OkBefore
  <2>9. OkBefore(Len(write) + 1)
    BY <1>n DEF OkBefore
  <2>10. Successes'
    BY <2>2, <2>3, <2>5, <2>8, <2>9 DEF Successes
  <2>11. NoHoleInStdin'
    BY <2>2, <1>n DEF NoHoleInStdin
  <2> QED
    BY <2>6, <2>7, <2>10, <2>11
<1>8. ASSUME NEW w \in DOMAIN write, WriteIsDropped(w) PROVE InOrder'
  <2>1. write' = [write EXCEPT ![w] = "refused"] /\ UNCHANGED <<ctrl, stdin>>
    BY <1>8 DEF WriteIsDropped, WriteGoes
  <2>2. /\ Len(write') = Len(write) /\ DOMAIN write' = DOMAIN write
        /\ \A v \in DOMAIN write : v # w => write'[v] = write[v]
        /\ write'[w] # "ok" /\ write'[w] # "broken"
    BY <2>1, <1>t, ExceptTyped DEF WriteStates
  <2>3. CtrlInOrder' /\ QueueInOrder' /\ NoHoleInStdin'
    BY <2>1, <2>2 DEF CtrlInOrder, QueueInOrder, NoHoleInStdin
  <2>4. Successes'
    BY <2>1, <2>2 DEF Successes, OkBefore
  <2> QED
    BY <2>3, <2>4
<1>9. ASSUME NEW c \in Callers, Send(c) \/ ReplyIsDropped(c) \/ Answer(c) PROVE InOrder'
  <2>1. UNCHANGED input /\ (ctrl' = ctrl \/ ctrl' = Append(ctrl, c))
    BY <1>9 DEF Send, ReplyIsDropped, Answer, CallGoes
  <2>2. c \notin Numbers
    BY DEF Numbers
  <2>3. \A i \in Requests' : i \in Requests /\ ctrl'[i] = ctrl[i]
    BY <2>1, <2>2, <1>t, AppendElements
  <2> QED
    BY <2>1, <2>3 DEF CtrlInOrder, QueueInOrder, Successes, NoHoleInStdin, OkBefore, input
<1>10. ASSUME ~RecvCtrl, ~WriterTakes, ~WriteSucceeds, ~WriteFails, ~WriterEnds, ~Return,
              ~SendWrite, \A w \in DOMAIN write : ~WriteIsDropped(w),
              \A c \in Callers : ~Send(c) /\ ~ReplyIsDropped(c) /\ ~Answer(c)
       PROVE  UNCHANGED <<ctrl, write, stdin>>
  BY <1>10 DEF Next, Pump, Abandon, HardKill, Finish, DropPending, SendPending, CloseEvents,
     ReadLine, EndOfOutput, Cleanup, FlushSend, FlushGivesUp, StdinWriter, Tick, Write, Exit,
     ClosePipes, FinishResolves, Process, Receive, CloseReceiver, DropHandles, Finished, vars,
     input
<1> QED
  BY <1>1, <1>2, <1>3, <1>4, <1>5, <1>6, <1>7, <1>8, <1>9, <1>10

LEMMA AlwaysInOrder == Spec => []InOrder
<1>1. Init => InOrder
  BY InOrderInit
<1>2. TypeOK /\ InOrder /\ [Next]_vars => InOrder'
  BY InOrderStep
<1> QED
  BY <1>1, <1>2, TypeCorrect, PTL DEF Spec

\* A write that broke off is never followed by one that reaches the child, however
\* many were queued behind it (engine.rs 164-176, 221-231).
THEOREM NoHoleInStdinHolds == Spec => []NoHoleInStdin
<1>1. InOrder => NoHoleInStdin
  BY DEF InOrder
<1> QED
  BY <1>1, AlwaysInOrder, PTL

(***************************************************************************)
(* No request is forgotten and none is answered twice.                     *)
(***************************************************************************)
In(x, q) == \E i \in DOMAIN q : q[i] = x
Queued(r) == In(r, ctrl)
Kept(w) == w = stdin.hand \/ In(w, stdin.queue)
Waits(r) == IF r \in Callers THEN call[r] = "queued" ELSE write[r] = "queued"

\* Who waits for the pump is in its queue as long as there is a pump, and a write
\* that was accepted is with the writer until it has its answer: none is left
\* when the writer ends (engine.rs 156-176, 221-231, 387-399).
NothingIsForgotten ==
  /\ pump.at # "gone" =>
       /\ \A c \in Callers : call[c] = "queued" => Queued(c)
       /\ \A w \in DOMAIN write : write[w] = "queued" => Queued(w)
  /\ \A w \in DOMAIN write : write[w] = "accepted" => ~stdin.ended /\ Kept(w)

\* A request is queued once, and nobody in the queue was answered before
\* (handle.rs 66-99).
NothingIsAnsweredTwice ==
  /\ \A i, j \in DOMAIN ctrl : ctrl[i] = ctrl[j] => i = j
  /\ pump.at # "gone" => \A i \in DOMAIN ctrl : Waits(ctrl[i])

Remembered ==
  NothingIsForgotten /\ NothingIsAnsweredTwice /\ (stdin.ended => ~stdin.open)

LEMMA StaysGone ==
  ASSUME TypeOK, [Next]_vars, pump.at = "gone" PROVE pump'.at = "gone"
<1>t. pump \in Locals
  BY DEF TypeOK
<1>1. CASE Tick
  BY <1>1, <1>t DEF Tick, Locals
<1>2. ~Pump
  BY DEF Pump, Abandon, RecvCtrl, HardKill, Finish, DropPending, SendPending, CloseEvents,
         ReadLine, EndOfOutput, Cleanup, FlushSend, FlushGivesUp, Return, Main, Drain, Flush
<1>3. CASE ~Tick
  BY <1>2, <1>3 DEF Next, StdinWriter, WriterTakes, WriteSucceeds, WriteFails, WriterEnds,
     Writer, Write, Exit, ClosePipes, FinishResolves, Process, Receive, CloseReceiver,
     DropHandles, SendWrite, WriteIsDropped, WriteGoes, Send, ReplyIsDropped, Answer, CallGoes,
     Finished, vars
<1> QED
  BY <1>1, <1>3

LEMMA TailKeeps ==
  ASSUME NEW S, NEW q \in Seq(S), q # <<>>
  PROVE  /\ \A x : In(x, q) => x = Head(q) \/ In(x, Tail(q))
         /\ \A i, j \in DOMAIN Tail(q) : i + 1 = j + 1 => i = j
<1>1. /\ DOMAIN q = 1 .. Len(q) /\ Len(q) \in Nat /\ Head(q) = q[1]
      /\ DOMAIN Tail(q) = 1 .. Len(q) - 1
      /\ \A j \in 1 .. Len(q) - 1 : Tail(q)[j] = q[j + 1]
  OBVIOUS
<1>2. ASSUME NEW x, NEW i \in DOMAIN q, q[i] = x, i # 1 PROVE In(x, Tail(q))
  <2>1. i - 1 \in 1 .. Len(q) - 1 /\ (i - 1) + 1 = i
    BY <1>1, <1>2
  <2>2. Tail(q)[i - 1] = x
    BY <1>1, <1>2, <2>1
  <2> QED
    BY <1>1, <2>1, <2>2 DEF In
<1> QED
  BY <1>1, <1>2 DEF In

LEMMA AppendKeeps ==
  ASSUME NEW S, NEW q \in Seq(S), NEW s
  PROVE  /\ \A i \in DOMAIN q : i \in DOMAIN Append(q, s) /\ Append(q, s)[i] = q[i]
         /\ \A x : In(x, q) => In(x, Append(q, s))
         /\ In(s, Append(q, s))
<1>1. /\ DOMAIN q = 1 .. Len(q) /\ Len(q) \in Nat
      /\ DOMAIN Append(q, s) = 1 .. Len(q) + 1
      /\ \A i \in 1 .. Len(q) : Append(q, s)[i] = q[i]
      /\ Append(q, s)[Len(q) + 1] = s
  OBVIOUS
<1> QED
  BY <1>1 DEF In

\* The pump takes the request at the head of its queue and answers it, or hands the
\* write on.
LEMMA TakenOnce ==
  ASSUME TypeOK, InOrder, Remembered, RecvCtrl PROVE Remembered'
<1> USE DEF Remembered
<1>t. /\ ctrl \in Seq(Callers \cup Numbers) /\ write \in Seq(WriteStates) /\ stdin \in Stdins
      /\ stdin.queue \in Seq(Numbers) /\ call \in [Callers -> CallStates]
  BY DEF TypeOK, WriteStates, Stdins, CallStates
<1>g. pump.at # "gone"
  BY DEF RecvCtrl, Main, Drain, Flush
<1>1. CASE ctrl = <<>> /\ UNCHANGED <<ctrl, call, input>>
  <2>1. UNCHANGED <<ctrl, call, write, stdin>>
    BY <1>1 DEF input
  <2> QED
    BY <2>1, <1>g DEF NothingIsForgotten, NothingIsAnsweredTwice, Queued, Kept, Waits
<1> SUFFICES ASSUME ctrl # <<>>, ctrl' = Tail(ctrl) PROVE Remembered'
  BY <1>1 DEF RecvCtrl
<1>h. PICK r : r = Head(ctrl)
  OBVIOUS
<1>2. /\ 1 \in DOMAIN ctrl /\ r = ctrl[1] /\ Waits(r)
      /\ \A i \in DOMAIN ctrl' : /\ i + 1 \in DOMAIN ctrl /\ ctrl'[i] = ctrl[i + 1]
                                 /\ 1 # i + 1
  BY <1>h, <1>t, <1>g, TailElements DEF NothingIsAnsweredTwice
<1>3. /\ \A i, j \in DOMAIN ctrl' : ctrl'[i] = ctrl'[j] => i = j
      /\ \A i \in DOMAIN ctrl' : ctrl'[i] # r /\ Waits(ctrl'[i])
  BY <1>2, <1>g, <1>t, TailKeeps DEF NothingIsAnsweredTwice
<1>4. \A x : x # r /\ Queued(x) => Queued(x)'
  BY <1>h, <1>t, TailKeeps DEF Queued
<1>5. CASE r \in Callers /\ HandleKill(r) /\ UNCHANGED input
  <2>1. /\ call'[r] # "queued" /\ \A c \in Callers : c # r => call'[c] = call[c]
        /\ UNCHANGED <<write, stdin>>
    BY <1>5, <1>t DEF HandleKill, Reply, input
  <2>2. r \notin Numbers
    BY <1>5 DEF Numbers
  <2>3. NothingIsForgotten'
    <3>1. DOMAIN write \subseteq Numbers
      BY <1>t DEF Numbers
    <3> QED
      BY <2>1, <2>2, <3>1, <1>4, <1>g DEF NothingIsForgotten, Kept
  <2>4. NothingIsAnsweredTwice'
    BY <2>1, <1>3 DEF NothingIsAnsweredTwice, Waits
  <2> QED
    BY <2>1, <2>3, <2>4
<1>6. CASE r \in Numbers /\ HandleWrite(r) /\ UNCHANGED <<pump, call, proc>>
  <2>1. r \notin Callers
    BY <1>6 DEF Numbers
  <2>2. /\ r \in DOMAIN write /\ \A i \in DOMAIN ctrl : ctrl[i] \in Callers \cup DOMAIN write
        /\ DOMAIN write = 1 .. Len(write) /\ Len(write) \in Nat
    <3>1. \A i \in DOMAIN ctrl : \/ ctrl[i] \in Callers
                                 \/ ctrl[i] \in Numbers /\ ctrl[i] <= Len(write)
      BY <1>t DEF InOrder, CtrlInOrder, Requests
    <3> QED
      BY <3>1, <2>1, <1>2, <1>t DEF Numbers
  <2>3. \/ /\ stdin' = [stdin EXCEPT !.queue = Append(@, r)] /\ stdin.open
           /\ write' = [write EXCEPT ![r] = "accepted"]
        \/ stdin' = stdin /\ write' = [write EXCEPT ![r] = "refused"]
    BY <1>6 DEF HandleWrite
  <2>4. /\ DOMAIN write' = DOMAIN write
        /\ \A v \in DOMAIN write : v # r => write'[v] = write[v]
        /\ write'[r] # "queued"
    BY <2>2, <2>3, <1>t
  <2>5. /\ stdin'.ended = stdin.ended /\ stdin'.open = stdin.open
        /\ \A w : Kept(w) => Kept(w)'
        /\ write'[r] = "accepted" => ~stdin.ended /\ Kept(r)'
    <3>1. CASE stdin' = stdin /\ write' = [write EXCEPT ![r] = "refused"]
      BY <3>1, <2>2, <1>t DEF Kept
    <3>2. CASE stdin' = [stdin EXCEPT !.queue = Append(@, r)] /\ stdin.open
      <4>1. /\ stdin'.queue = Append(stdin.queue, r) /\ stdin'.hand = stdin.hand
            /\ stdin'.ended = stdin.ended /\ stdin'.open = stdin.open
        BY <3>2, <1>t DEF Stdins
      <4>2. \A w : In(w, stdin.queue) => In(w, stdin'.queue)
        BY <4>1, <1>t, AppendKeeps
      <4>3. In(r, stdin'.queue)
        BY <4>1, <1>t, AppendKeeps
      <4> QED
        BY <4>1, <4>2, <4>3, <3>2 DEF Kept
    <3> QED
      BY <2>3, <3>1, <3>2
  <2>6. NothingIsForgotten'
    <3>1. \A c \in Callers : call'[c] = "queued" => Queued(c)'
      BY <1>6, <2>1, <1>4, <1>g DEF NothingIsForgotten
    <3>2. \A w \in DOMAIN write' : write'[w] = "queued" => Queued(w)'
      BY <2>4, <1>4, <1>g DEF NothingIsForgotten
    <3>3. \A w \in DOMAIN write' : write'[w] = "accepted" => ~stdin'.ended /\ Kept(w)'
      BY <2>4, <2>5 DEF NothingIsForgotten
    <3> QED
      BY <3>1, <3>2, <3>3 DEF NothingIsForgotten
  <2>7. (\A i \in DOMAIN ctrl : Waits(ctrl[i]))'
    BY <1>2, <1>3, <1>6, <2>2, <2>4 DEF Waits
  <2> QED
    BY <1>3, <2>5, <2>6, <2>7 DEF NothingIsAnsweredTwice
<1> QED
  BY <1>h, <1>5, <1>6 DEF RecvCtrl

\* The writer takes an accepted write, and answers what it holds.
LEMMA WriterKeeps ==
  ASSUME TypeOK, InOrder, Remembered, StdinWriter PROVE Remembered'
<1> USE DEF Remembered
<1>t. /\ ctrl \in Seq(Callers \cup Numbers) /\ write \in Seq(WriteStates) /\ stdin \in Stdins
      /\ stdin.queue \in Seq(Numbers) /\ stdin.hand \in Nat
      /\ \A k \in DOMAIN stdin.queue : stdin.queue[k] \in Numbers
      /\ DOMAIN write = 1 .. Len(write) /\ Len(write) \in Nat
  BY DEF TypeOK, WriteStates, Stdins
<1>u. /\ UNCHANGED <<ctrl, call, pump>>
  BY DEF StdinWriter, WriterTakes, WriteSucceeds, WriteFails, WriterEnds, Writer
<1>a. \A i \in DOMAIN ctrl : ctrl[i] \in Callers \cup Numbers
  BY <1>t
\* What is with the writer is in the queue of requests no more.
<1>o. \A i \in DOMAIN ctrl : ctrl[i] \in Numbers =>
        ctrl[i] \in DOMAIN write /\ ctrl[i] # stdin.hand /\ ctrl[i] \notin InHandAndQueued
  <2> SUFFICES ASSUME NEW i \in DOMAIN ctrl, ctrl[i] \in Numbers
               PROVE  ctrl[i] \in DOMAIN write /\ ctrl[i] # stdin.hand
                      /\ ctrl[i] \notin InHandAndQueued
    OBVIOUS
  <2>1. /\ ctrl[i] <= Len(write) /\ stdin.hand < ctrl[i]
        /\ \A k \in DOMAIN stdin.queue : stdin.queue[k] < ctrl[i]
    BY DEF InOrder, CtrlInOrder, QueueInOrder, Requests
  <2> QED
    BY <2>1, <1>t DEF InHandAndQueued, Numbers
<1>1. CASE WriterTakes
  <2>1. /\ stdin.queue # <<>> /\ stdin.hand = 0 /\ stdin'.hand = Head(stdin.queue)
        /\ stdin'.queue = Tail(stdin.queue) /\ stdin'.ended = stdin.ended
        /\ stdin'.open = stdin.open /\ write' = write
    BY <1>1, <1>t DEF WriterTakes, Writer, Stdins, NoWrite
  <2>2. \A w \in DOMAIN write : Kept(w) => Kept(w)'
    BY <2>1, <1>t, TailKeeps, TailElements DEF Kept
  <2> QED
    BY <2>1, <2>2, <1>u DEF NothingIsForgotten, NothingIsAnsweredTwice, Queued, Waits
<1>2. CASE WriteSucceeds
  <2>1. /\ stdin'.queue = stdin.queue /\ stdin'.ended = stdin.ended
        /\ stdin'.open = stdin.open /\ write' = [write EXCEPT ![stdin.hand] = "ok"]
    BY <1>2, <1>t DEF WriteSucceeds, Writer, Stdins
  <2>2. /\ DOMAIN write' = DOMAIN write
        /\ \A v \in DOMAIN write : write'[v] = IF v = stdin.hand THEN "ok" ELSE write[v]
    BY <2>1, <1>t
  <2>3. NothingIsForgotten'
    BY <2>1, <2>2, <1>u DEF NothingIsForgotten, Kept, Queued
  <2>4. NothingIsAnsweredTwice'
    BY <2>2, <1>u, <1>o, <1>a DEF NothingIsAnsweredTwice, Waits
  <2> QED
    BY <2>1, <2>3, <2>4
<1>3. CASE WriteFails
  <2>1. stdin'.ended /\ ~stdin'.open
    BY <1>3, <1>t DEF WriteFails, GivesUp, Stdins
  <2>2. /\ DOMAIN write' = DOMAIN write /\ ~stdin.ended
        /\ \A v \in DOMAIN write :
             write'[v] = IF v \in InHandAndQueued THEN "broken" ELSE write[v]
    BY <1>3, <1>t DEF WriteFails, Writer
  <2>3. NothingIsForgotten'
    BY <2>2, <1>u DEF NothingIsForgotten, Kept, In, Queued, InHandAndQueued
  <2>4. NothingIsAnsweredTwice'
    BY <2>2, <1>u, <1>o, <1>a DEF NothingIsAnsweredTwice, Waits
  <2> QED
    BY <2>1, <2>3, <2>4
<1>4. CASE WriterEnds
  <2>1. /\ stdin.queue = <<>> /\ stdin.hand = 0 /\ write' = write
        /\ stdin'.ended /\ ~stdin'.open
    BY <1>4, <1>t DEF WriterEnds, Writer, Stdins, NoWrite
  <2>2. \A w \in DOMAIN write : ~Kept(w)
    BY <2>1, <1>t DEF Kept, In
  <2> QED
    BY <2>1, <2>2, <1>u DEF NothingIsForgotten, NothingIsAnsweredTwice, Queued, Waits
<1> QED
  BY <1>1, <1>2, <1>3, <1>4 DEF StdinWriter

\* A request is queued behind the others while there is a pump, and refused
\* otherwise; what the pump left behind is answered by nobody else.
LEMMA UsersKeep ==
  ASSUME TypeOK, InOrder, Remembered,
         \/ SendWrite \/ \E w \in DOMAIN write : WriteIsDropped(w)
         \/ \E c \in Callers : Send(c) \/ ReplyIsDropped(c) \/ Answer(c)
  PROVE  Remembered'
<1> USE DEF Remembered
<1>t. /\ ctrl \in Seq(Callers \cup Numbers) /\ write \in Seq(WriteStates)
      /\ call \in [Callers -> CallStates]
      /\ DOMAIN write = 1 .. Len(write) /\ Len(write) \in Nat
      /\ DOMAIN ctrl = 1 .. Len(ctrl) /\ Len(ctrl) \in Nat
  BY DEF TypeOK, WriteStates, CallStates
<1>u. stdin' = stdin /\ pump' = pump
  BY DEF SendWrite, WriteIsDropped, WriteGoes, Send, ReplyIsDropped, Answer, CallGoes, input
<1>o. \A i \in DOMAIN ctrl : ctrl[i] \in Callers \/ ctrl[i] \in DOMAIN write
  <2>1. \A i \in DOMAIN ctrl : \/ ctrl[i] \in Callers
                               \/ ctrl[i] \in Numbers /\ ctrl[i] <= Len(write)
    BY <1>t DEF InOrder, CtrlInOrder, Requests
  <2> QED
    BY <2>1, <1>t DEF Numbers
<1>1. CASE SendWrite
  <2>n. PICK n : n = Len(write) + 1
    OBVIOUS
  <2>1. /\ call' = call
        /\ \/ /\ pump.at # "gone" /\ write' = Append(write, "queued")
              /\ ctrl' = Append(ctrl, n)
           \/ pump.at = "gone" /\ write' = Append(write, "refused") /\ ctrl' = ctrl
    BY <2>n, <1>1 DEF SendWrite, WriteGoes
  <2>2. /\ n \in DOMAIN write' /\ n \notin DOMAIN write /\ n \notin Callers
        /\ DOMAIN write' = DOMAIN write \cup {n}
        /\ \A w \in DOMAIN write : write'[w] = write[w]
        /\ write'[n] = IF pump.at = "gone" THEN "refused" ELSE "queued"
    <3>1. n \in Nat /\ n \notin Callers
      BY <2>n, <1>t, PumpAssumption
    <3>2. \A q \in {"queued", "refused"} :
            /\ DOMAIN Append(write, q) = 1 .. n /\ Append(write, q)[n] = q
            /\ \A w \in 1 .. Len(write) : Append(write, q)[w] = write[w]
      BY <2>n, <1>t
    <3>3. n \notin 1 .. Len(write) /\ 1 .. n = 1 .. Len(write) \cup {n} /\ n \in 1 .. n
      BY <2>n, <1>t
    <3>4. write' = Append(write, IF pump.at = "gone" THEN "refused" ELSE "queued")
      BY <2>1
    <3> QED
      BY <3>1, <3>2, <3>3, <3>4, <1>t
  <2>3. \A i \in DOMAIN ctrl : ctrl[i] # n
    BY <2>2, <1>o
  <2>4. /\ \A i \in DOMAIN ctrl : i \in DOMAIN ctrl' /\ ctrl'[i] = ctrl[i]
        /\ \A i \in DOMAIN ctrl' :
             \/ i \in DOMAIN ctrl /\ ctrl'[i] = ctrl[i]
             \/ i = Len(ctrl) + 1 /\ ctrl'[i] = n /\ pump.at # "gone"
    BY <2>1, <1>t, AppendElements, AppendKeeps
  <2>5. pump.at # "gone" => Queued(n)'
    <3>1. In(n, Append(ctrl, n))
      BY <1>t, AppendKeeps
    <3> QED
      BY <2>1, <3>1 DEF Queued
  <2>6. NothingIsForgotten'
    <3>1. \A x : Queued(x) => Queued(x)'
      BY <2>4 DEF Queued, In
    <3>2. \A w : Kept(w)' <=> Kept(w)
      BY <1>u DEF Kept
    <3> QED
      BY <2>1, <2>2, <2>5, <3>1, <3>2, <1>u DEF NothingIsForgotten
  <2>7. NothingIsAnsweredTwice'
    <3>1. \A i, j \in DOMAIN ctrl' : ctrl'[i] = ctrl'[j] => i = j
      BY <2>3, <2>4 DEF NothingIsAnsweredTwice
    <3>2. pump'.at # "gone" => (\A i \in DOMAIN ctrl : Waits(ctrl[i]))'
      BY <2>1, <2>2, <2>4, <1>o, <1>u DEF NothingIsAnsweredTwice, Waits
    <3> QED
      BY <3>1, <3>2 DEF NothingIsAnsweredTwice
  <2> QED
    BY <2>6, <2>7, <1>u
<1>2. ASSUME NEW w \in DOMAIN write, WriteIsDropped(w) PROVE Remembered'
  <2>1. /\ pump.at = "gone" /\ write' = [write EXCEPT ![w] = "refused"]
        /\ ctrl' = ctrl /\ call' = call
    BY <1>2 DEF WriteIsDropped, WriteGoes
  <2>2. /\ DOMAIN write' = DOMAIN write
        /\ \A v \in DOMAIN write : write'[v] = "accepted" => write[v] = "accepted"
    BY <2>1, <1>t
  <2> QED
    BY <2>1, <2>2, <1>u DEF NothingIsForgotten, NothingIsAnsweredTwice, Kept
<1>3. ASSUME NEW c \in Callers, Send(c) PROVE Remembered'
  <2>1. /\ write' = write /\ call[c] = "idle"
        /\ \/ /\ pump.at # "gone" /\ call' = [call EXCEPT ![c] = "queued"]
              /\ ctrl' = Append(ctrl, c)
           \/ pump.at = "gone" /\ call' = [call EXCEPT ![c] = Rejected(c)] /\ ctrl' = ctrl
    BY <1>3 DEF Send, CallGoes, input
  <2>2. /\ \A i \in DOMAIN ctrl : i \in DOMAIN ctrl' /\ ctrl'[i] = ctrl[i]
        /\ \A i \in DOMAIN ctrl' :
             \/ i \in DOMAIN ctrl /\ ctrl'[i] = ctrl[i]
             \/ i = Len(ctrl) + 1 /\ ctrl'[i] = c /\ pump.at # "gone"
    BY <2>1, <1>t, AppendElements, AppendKeeps
  <2>3. pump.at # "gone" => Queued(c)' /\ call'[c] = "queued"
    <3>1. In(c, Append(ctrl, c)) /\ call'[c] = IF pump.at # "gone" THEN "queued" ELSE Rejected(c)
      BY <2>1, <1>t, AppendKeeps
    <3> QED
      BY <2>1, <3>1 DEF Queued
  <2>4. \A d \in Callers : d # c => call'[d] = call[d]
    BY <2>1, <1>t
  <2>5. pump.at # "gone" => \A i \in DOMAIN ctrl : ctrl[i] # c
    BY <2>1 DEF NothingIsAnsweredTwice, Waits
  <2>6. NothingIsForgotten'
    <3>1. \A x : Queued(x) => Queued(x)'
      BY <2>2 DEF Queued, In
    <3>2. \A w : Kept(w)' <=> Kept(w)
      BY <1>u DEF Kept
    <3> QED
      BY <2>1, <2>3, <2>4, <3>1, <3>2, <1>u DEF NothingIsForgotten
  <2>7. NothingIsAnsweredTwice'
    <3>1. \A i, j \in DOMAIN ctrl' : ctrl'[i] = ctrl'[j] => i = j
      BY <2>2, <2>5 DEF NothingIsAnsweredTwice
    <3>2. pump'.at # "gone" => (\A i \in DOMAIN ctrl : Waits(ctrl[i]))'
      BY <2>1, <2>2, <2>3, <2>4, <2>5, <1>o, <1>u DEF NothingIsAnsweredTwice, Waits
    <3> QED
      BY <3>1, <3>2 DEF NothingIsAnsweredTwice
  <2> QED
    BY <2>6, <2>7, <1>u
<1>4. ASSUME NEW c \in Callers, ReplyIsDropped(c) \/ Answer(c) PROVE Remembered'
  <2>1. /\ write' = write /\ ctrl' = ctrl /\ term \in Outcomes
        /\ \/ pump.at = "gone" /\ call' = [call EXCEPT ![c] = Rejected(c)]
           \/ call[c] = "replied" /\ call' = [call EXCEPT ![c] = term]
    BY <1>4 DEF ReplyIsDropped, Answer, CallGoes, input, TypeOK
  <2>2. CASE pump.at = "gone"
    BY <2>1, <2>2, <1>u DEF NothingIsForgotten, NothingIsAnsweredTwice, Kept
  <2>3. CASE pump.at # "gone"
    <3>1. /\ call[c] = "replied" /\ call'[c] # "queued"
          /\ \A d \in Callers : d # c => call'[d] = call[d]
      BY <2>1, <2>3, <1>t DEF Outcomes
    <3> QED
      BY <2>1, <3>1, <1>u DEF NothingIsForgotten, NothingIsAnsweredTwice, Kept, Queued, Waits
  <2> QED
    BY <2>2, <2>3
<1> QED
  BY <1>1, <1>2, <1>3, <1>4

LEMMA RememberedStep ==
  ASSUME TypeOK, InOrder, Remembered, [Next]_vars PROVE Remembered'
<1>1. CASE UNCHANGED <<ctrl, call, write, stdin>>
  BY <1>1, StaysGone
     DEF Remembered, NothingIsForgotten, NothingIsAnsweredTwice, Queued, Kept, Waits
<1>2. CASE Return
  <2>1. /\ pump'.at = "gone" /\ UNCHANGED <<ctrl, write>>
        /\ stdin'.queue = stdin.queue /\ stdin'.hand = stdin.hand
        /\ stdin'.ended = stdin.ended /\ stdin'.open = stdin.open
    BY <1>2 DEF Return, TypeOK, Locals
  <2> QED
    BY <2>1 DEF Remembered, NothingIsForgotten, NothingIsAnsweredTwice, Kept
<1>3. ASSUME ~RecvCtrl, ~StdinWriter, ~Return, ~SendWrite,
             \A w \in DOMAIN write : ~WriteIsDropped(w),
             \A c \in Callers : ~Send(c) /\ ~ReplyIsDropped(c) /\ ~Answer(c)
      PROVE  UNCHANGED <<ctrl, call, write, stdin>>
  BY <1>3 DEF Next, Pump, Abandon, HardKill, Finish, DropPending, SendPending, CloseEvents,
     ReadLine, EndOfOutput, Cleanup, FlushSend, FlushGivesUp, Tick, Write, Exit,
     ClosePipes, FinishResolves, Process, Receive, CloseReceiver, DropHandles, Finished, vars,
     input
<1> QED
  BY <1>1, <1>2, <1>3, TakenOnce, WriterKeeps, UsersKeep

LEMMA AlwaysRemembered == Spec => []Remembered
<1>1. Init => Remembered
  <2> SUFFICES ASSUME Init PROVE Remembered
    OBVIOUS
  <2>1. /\ DOMAIN ctrl = {} /\ DOMAIN write = {}
        /\ \A c \in Callers : call[c] = "idle"
    BY DEF Init
  <2>2. stdin.ended = ~PipeStdin /\ stdin.open = PipeStdin
    BY DEF Init
  <2> QED
    BY <2>1, <2>2, Zenon DEF Remembered, NothingIsForgotten, NothingIsAnsweredTwice
<1>2. TypeOK /\ InOrder /\ Remembered /\ [Next]_vars => Remembered'
  BY RememberedStep
<1> QED
  BY <1>1, <1>2, TypeCorrect, AlwaysInOrder, PTL DEF Spec

\* Whoever waits for the pump is in its queue, and an accepted write is with the
\* writer, which holds none when it ends: the safety half of the answer that
\* every call gets, for every number of callers, writes and places in the queue
\* (engine.rs 156-176, 221-231, 387-399).
THEOREM NothingIsForgottenHolds == Spec => []NothingIsForgotten
<1>1. Remembered => NothingIsForgotten
  BY DEF Remembered
<1> QED
  BY <1>1, AlwaysRemembered, PTL

\* No request is answered twice, neither by the pump nor by the writer it was
\* handed to (handle.rs 66-99, engine.rs 206-233).
THEOREM NothingIsAnsweredTwiceHolds == Spec => []NothingIsAnsweredTwice
<1>1. Remembered => NothingIsAnsweredTwice
  BY DEF Remembered
<1> QED
  BY <1>1, AlwaysRemembered, PTL

(***************************************************************************)
(* The accounts of the output.  Everything on its way to the receiver is   *)
(* in the queue: the channel, then what flush has still to send.           *)
(***************************************************************************)
Early == {"main", "drain", "cleanup"}
Coming == ev \o pump.terminal_events
InHand == IF pump.pending_event THEN 1 ELSE 0

OnlyLines == \A i \in DOMAIN ev : ev[i] = "line"
\* The lines written that the pump is to get, or got.
NotMissed == proc.written - proc.missed
Balanced ==
  rx.got + Len(ev) + InHand + pump.dropped_output_events + pump.stderr_tail + proc.pipe
    = NotMissed

\* While the pump reads: nothing but lines was sent, and each line written is
\* somewhere.
Reading ==
  pump.at \in Early =>
    /\ ~rx.ended /\ rx.reported = 0 /\ pump.terminal_events = <<>>
    /\ pump.finish_output = "none" => pump.stderr_tail = 0
    /\ pump.at # "main" => ~pump.pending_event /\ proc.pipe = 0
    /\ rx.open => pump.events_open /\ OnlyLines /\ Balanced

\* In the end: lines first, then the loss if there was one, Terminated at the end.
LinesFirst(q, k) == \A i \in DOMAIN q : q[i] = "line" <=> i <= k
EndsTerminated(q) ==
  q # <<>> => \A i \in DOMAIN q : q[i] = "terminated" <=> i = Len(q)

Flushing ==
  pump.at \in {"flush", "gone"} /\ rx.open =>
    /\ \E k \in 0 .. Len(Coming) :
         /\ LinesFirst(Coming, k)
         /\ rx.got + k + pump.dropped_output_events = NotMissed
    /\ EndsTerminated(Coming)
    /\ \/ rx.reported = pump.dropped_output_events
       \/ \E i \in DOMAIN Coming : Coming[i] = "lost"
    /\ rx.ended => Coming = <<>>

Ended ==
  rx.ended => pump.at \in {"flush", "gone"} /\ rx.got + rx.reported = NotMissed

Accounts == Reading /\ Flushing /\ Ended

LEMMA MoveHead ==
  ASSUME NEW S, NEW q \in Seq(S), NEW r \in Seq(S), r # <<>>
  PROVE  Append(q, Head(r)) \o Tail(r) = q \o r
OBVIOUS

LEMMA TakeHead ==
  ASSUME NEW S, NEW q \in Seq(S), NEW r \in Seq(S), q # <<>>
  PROVE  /\ q \o r \in Seq(S) /\ q \o r # <<>> /\ Head(q) = (q \o r)[1]
         /\ Tail(q) \o r = Tail(q \o r)
OBVIOUS

LEMMA Concatenated ==
  ASSUME NEW S, NEW q \in Seq(S), NEW r \in Seq(S)
  PROVE  /\ q \o r \in Seq(S) /\ Len(q \o r) = Len(q) + Len(r)
         /\ \A i \in DOMAIN q : (q \o r)[i] = q[i]
         /\ \A i \in DOMAIN r : (q \o r)[Len(q) + i] = r[i]
         /\ \A i \in DOMAIN (q \o r) :
              i \in DOMAIN q \/ (i - Len(q) \in DOMAIN r /\ (q \o r)[i] = r[i - Len(q)])
OBVIOUS

LEMMA TerminalOrder ==
  ASSUME TypeOK
  PROVE  /\ TerminalEvents \in Seq(EventKinds) /\ TerminalEvents # <<>>
         /\ pump.stderr_tail \in 0 .. Len(TerminalEvents)
         /\ LinesFirst(TerminalEvents, pump.stderr_tail)
         /\ EndsTerminated(TerminalEvents)
         /\ pump.dropped_output_events > 0 =>
              \E i \in DOMAIN TerminalEvents : TerminalEvents[i] = "lost"
<1> DEFINE t == pump.stderr_tail
           lines == [i \in 1 .. t |-> "line"]
           lost == When(pump.dropped_output_events > 0, "lost")
           error == When(pump.finish_output = "err", "error")
           Body(q) == /\ q \in Seq(EventKinds) /\ t <= Len(q) /\ LinesFirst(q, t)
                      /\ \A i \in DOMAIN q : q[i] # "terminated"
           Lost(q) == \E i \in DOMAIN q : q[i] = "lost"
<1>1. t \in Nat
  BY DEF TypeOK, Locals
<1>2. /\ "line" \in EventKinds /\ "lost" \in EventKinds /\ "error" \in EventKinds
      /\ "terminated" \in EventKinds
  BY DEF EventKinds
<1>3. Body(lines)
  BY <1>1, <1>2 DEF LinesFirst
<1>4. ASSUME NEW q, Body(q), NEW e \in {"lost", "error"}
      PROVE  /\ q \o <<>> = q
             /\ Body(q \o <<e>>) /\ (Lost(q) => Lost(q \o <<e>>))
             /\ e = "lost" => Lost(q \o <<e>>)
  <2>1. q \o <<e>> = Append(q, e) /\ Append(q, e) \in Seq(EventKinds)
    BY <1>2, <1>4
  <2>2. Len(Append(q, e)) = Len(q) + 1 /\ DOMAIN Append(q, e) = 1 .. Len(q) + 1
        /\ DOMAIN q = 1 .. Len(q) /\ Len(q) \in Nat /\ Append(q, e)[Len(q) + 1] = e
        /\ \A i \in DOMAIN q : Append(q, e)[i] = q[i]
    BY <1>4
  <2>3. LinesFirst(Append(q, e), t)
    BY <1>1, <1>4, <2>2 DEF LinesFirst
  <2>4. \A i \in DOMAIN Append(q, e) : Append(q, e)[i] # "terminated"
    BY <1>4, <2>2
  <2>5. Body(Append(q, e))
    BY <1>1, <1>4, <2>1, <2>2, <2>3, <2>4
  <2>6. (Lost(q) => Lost(Append(q, e))) /\ (e = "lost" => Lost(Append(q, e)))
    BY <2>2
  <2>7. q \o <<>> = q
    BY <1>4
  <2> QED
    BY <2>1, <2>5, <2>6, <2>7
<1>5. /\ lost = IF pump.dropped_output_events > 0 THEN <<"lost">> ELSE <<>>
      /\ error = IF pump.finish_output = "err" THEN <<"error">> ELSE <<>>
  BY DEF When
<1> HIDE DEF lines, lost, error, Body, Lost, t
<1>6. Body(lines \o lost) /\ (pump.dropped_output_events > 0 => Lost(lines \o lost))
  BY <1>3, <1>4, <1>5
<1>7. Body(lines \o lost \o error)
      /\ (pump.dropped_output_events > 0 => Lost(lines \o lost \o error))
  BY <1>4, <1>5, <1>6
<1>8. ASSUME NEW q, Body(q)
      PROVE  LET r == q \o <<"terminated">> IN
             /\ r \in Seq(EventKinds) /\ r # <<>> /\ t \in 0 .. Len(r)
             /\ LinesFirst(r, t) /\ EndsTerminated(r) /\ (Lost(q) => Lost(r))
  <2> DEFINE r == Append(q, "terminated")
  <2>1. q \o <<"terminated">> = r /\ r \in Seq(EventKinds)
    BY <1>2, <1>8 DEF Body
  <2>2. Len(r) = Len(q) + 1 /\ DOMAIN r = 1 .. Len(q) + 1 /\ DOMAIN q = 1 .. Len(q)
        /\ Len(q) \in Nat /\ r[Len(q) + 1] = "terminated"
        /\ \A i \in DOMAIN q : r[i] = q[i]
    BY <1>8 DEF Body
  <2> HIDE DEF r
  <2>3. t <= Len(q) /\ LinesFirst(q, t) /\ \A i \in DOMAIN q : q[i] # "terminated"
    BY <1>8 DEF Body
  <2>4. LinesFirst(r, t)
    BY <1>1, <2>2, <2>3 DEF LinesFirst, t
  <2>5. EndsTerminated(r)
    BY <2>2, <2>3 DEF EndsTerminated
  <2>6. r # <<>> /\ t \in 0 .. Len(r) /\ (Lost(q) => Lost(r))
    BY <1>1, <2>1, <2>2, <2>3 DEF Lost, t
  <2> QED
    BY <2>1, <2>4, <2>5, <2>6
<1>9. TerminalEvents = lines \o lost \o error \o <<"terminated">>
  BY DEF TerminalEvents, lines, lost, error, t
<1>10. Lost(TerminalEvents) => \E i \in DOMAIN TerminalEvents : TerminalEvents[i] = "lost"
  BY DEF Lost
<1>11. /\ TerminalEvents \in Seq(EventKinds) /\ TerminalEvents # <<>>
       /\ t \in 0 .. Len(TerminalEvents)
       /\ LinesFirst(TerminalEvents, t) /\ EndsTerminated(TerminalEvents)
       /\ (pump.dropped_output_events > 0 => Lost(TerminalEvents))
  BY <1>7, <1>8, <1>9
<1> QED
  BY <1>10, <1>11 DEF t

LEMMA AccountsInit == Init => Accounts
BY DEF Init, Accounts, Reading, NotMissed, OnlyLines, Balanced, Flushing, Ended, Early, InHand

\* What the accounts are about.
Account ==
  <<pump.pending_event, pump.events_open, pump.finish_output, pump.stderr_tail,
    pump.terminal_events, pump.dropped_output_events, proc.pipe, NotMissed, ev, rx>>
Phase == IF pump.at \in {"flush", "gone"} THEN "late" ELSE pump.at

LEMMA SameAccounts ==
  ASSUME Accounts, pump.at \in Ats, pump'.at \in Ats, UNCHANGED <<Account, Phase>>
  PROVE  Accounts'
<1>1. /\ UNCHANGED pump.pending_event /\ UNCHANGED pump.events_open
      /\ UNCHANGED pump.finish_output /\ UNCHANGED pump.stderr_tail
      /\ UNCHANGED pump.terminal_events /\ UNCHANGED pump.dropped_output_events
      /\ UNCHANGED proc.pipe /\ UNCHANGED NotMissed /\ UNCHANGED ev /\ UNCHANGED rx
  BY DEF Account
<1>2. /\ pump'.at \in Early <=> pump.at \in Early
      /\ pump'.at \in {"flush", "gone"} <=> pump.at \in {"flush", "gone"}
      /\ pump'.at = "main" <=> pump.at = "main"
  BY DEF Phase, Ats, Early
<1>3. Coming' = Coming /\ InHand' = InHand
  BY <1>1 DEF Coming, InHand
<1>4. Reading'
  BY <1>1, <1>2, <1>3 DEF Accounts, Reading, OnlyLines, Balanced
<1>5. Flushing' /\ Ended'
  BY <1>1, <1>2, <1>3 DEF Accounts, Flushing, Ended, LinesFirst, EndsTerminated
<1> QED
  BY <1>4, <1>5 DEF Accounts

LEMMA AccountsStep ==
  ASSUME TypeOK, Settled, Accounts, [Next]_vars PROVE Accounts'
<1>t. /\ pump \in Locals /\ proc \in Procs /\ rx \in Receivers /\ ev \in Seq(EventKinds)
      /\ pump.at \in Ats /\ pump.terminal_events \in Seq(EventKinds)
  BY DEF TypeOK, Procs, Receivers, Locals, Ats
<1> USE DEF NotMissed
<1>n. /\ proc.pipe \in Nat /\ NotMissed \in Int /\ rx.got \in Nat /\ rx.reported \in Nat
      /\ pump.dropped_output_events \in Nat /\ pump.stderr_tail \in Nat /\ Len(ev) \in Nat
      /\ DOMAIN ev = 1 .. Len(ev) /\ InHand \in {0, 1}
  BY <1>t DEF Procs, Receivers, Locals, InHand
<1>c. Coming \in Seq(EventKinds) /\ DOMAIN Coming = 1 .. Len(Coming) /\ Len(Coming) \in Nat
  BY <1>t, Concatenated DEF Coming
<1>e. /\ Early = {"main", "drain", "cleanup"} /\ Ats = Early \cup {"flush", "gone"}
  BY DEF Early, Ats
<1>d. ASSUME NEW p \in Locals, pump' = Dying(p), p.at = pump.at,
             p.pending_event = pump.pending_event, p.events_open = pump.events_open,
             p.finish_output = pump.finish_output, p.stderr_tail = pump.stderr_tail,
             p.terminal_events = pump.terminal_events,
             p.dropped_output_events = pump.dropped_output_events,
             UNCHANGED <<proc.pipe, NotMissed, ev, rx>>
      PROVE  Accounts'
  <2>1. UNCHANGED <<Account, Phase>> /\ pump'.at = pump.at
    BY <1>d, DyingTyped DEF Account, Phase
  <2> QED
    BY <2>1, <1>t, SameAccounts
<1>k. ASSUME NEW result, KillAll(result) PROVE UNCHANGED <<proc.pipe, NotMissed>>
  BY <1>k, <1>t DEF KillAll, Procs
<1>1. CASE Abandon
  <2>1. UNCHANGED <<Account, Phase>> /\ pump'.at = pump.at
    BY <1>1, <1>t, <1>k DEF Abandon, Account, Phase, Locals
  <2> QED
    BY <2>1, <1>t, SameAccounts
<1>2. CASE RecvCtrl
  <2>0. UNCHANGED <<ev, rx>>
    BY <1>2 DEF RecvCtrl
  <2>1. CASE HandleKill(Head(ctrl))
    <3>1. Sooner \in Countdown /\ Off \in Countdown
      BY SoonerTyped, Countdowns DEF Countdown
    <3>2. UNCHANGED <<proc.pipe, NotMissed>>
      BY <2>1, <1>k DEF HandleKill
    <3>3. PICK p \in {pump} \cup {[pump EXCEPT !.hard_kill_at = t] : t \in {Sooner, Off}} :
            pump' = Dying(p)
      BY <2>1 DEF HandleKill
    <3>4. /\ p \in Locals /\ p.at = pump.at
          /\ p.pending_event = pump.pending_event /\ p.events_open = pump.events_open
          /\ p.finish_output = pump.finish_output /\ p.stderr_tail = pump.stderr_tail
          /\ p.terminal_events = pump.terminal_events
          /\ p.dropped_output_events = pump.dropped_output_events
      <4>1. CASE p = pump
        BY <4>1, <1>t
      <4>2. CASE \E t \in Countdown : p = [pump EXCEPT !.hard_kill_at = t]
        BY <4>2, <1>t DEF Locals
      <4> QED
        BY <3>1, <3>3, <4>1, <4>2
    <3> QED
      BY <2>0, <3>2, <3>3, <3>4, <1>d
  <2>2. CASE /\ pump' = [pump EXCEPT !.ctrl_open = FALSE] \/ UNCHANGED pump
             /\ UNCHANGED proc
    <3>1. UNCHANGED <<Account, Phase>> /\ pump'.at = pump.at
      BY <2>0, <2>2, <1>t DEF Account, Phase, Locals
    <3> QED
      BY <3>1, <1>t, SameAccounts
  <2> QED
    BY <1>2, <2>1, <2>2 DEF RecvCtrl
<1>3. CASE HardKill
  <2>1. [pump EXCEPT !.hard_kill_at = Off] \in Locals
    BY <1>t, Countdowns DEF Locals
  <2>2. UNCHANGED <<proc.pipe, NotMissed, ev, rx>>
    BY <1>3, <1>k DEF HardKill
  <2> QED
    BY <1>3, <1>t, <2>1, <2>2, <1>d DEF HardKill, Locals
<1>4. CASE Finish
  <2>1. pump.at \in {"main", "drain"} /\ pump.finish_output = "none" /\ proc.finish # "none"
    BY <1>4, Taken DEF FinishReady
  <2>2. PICK tail \in Nat, kept \in Nat :
          /\ tail <= proc.pipe /\ kept <= tail
          /\ pump' = [Dying(pump) EXCEPT !.finish_output = proc.finish, !.payload = Payload,
                                         !.stderr_tail = kept,
                                         !.at = IF @ = "drain" THEN "cleanup" ELSE @]
          /\ proc' = [proc EXCEPT !.pipe = @ - tail, !.missed = @ + (tail - kept)]
    BY <1>4, Drained
  <2> DEFINE p == Dying(pump)
  <2>3. /\ p \in Locals /\ p.at = pump.at /\ p.pending_event = pump.pending_event
        /\ p.events_open = pump.events_open /\ p.terminal_events = pump.terminal_events
        /\ p.dropped_output_events = pump.dropped_output_events
    BY <1>t, DyingTyped
  <2> HIDE DEF p
  <2>4. /\ pump'.finish_output = proc.finish /\ pump'.stderr_tail = kept
        /\ pump'.at = IF pump.at = "drain" THEN "cleanup" ELSE pump.at
        /\ pump'.pending_event = pump.pending_event /\ pump'.events_open = pump.events_open
        /\ pump'.terminal_events = pump.terminal_events
        /\ pump'.dropped_output_events = pump.dropped_output_events
    <3>1. pump' = [p EXCEPT !.finish_output = proc.finish, !.payload = Payload,
                            !.stderr_tail = kept,
                            !.at = IF p.at = "drain" THEN "cleanup" ELSE p.at]
      BY <2>2, <2>3 DEF p, Locals
    <3> QED
      BY <3>1, <2>3 DEF Locals
  <2>5. /\ proc'.pipe = proc.pipe - tail /\ NotMissed' = NotMissed - (tail - kept)
        /\ UNCHANGED <<ev, rx>>
    <3>1. proc.missed \in Nat /\ proc.written \in Nat
      BY <1>t DEF Procs
    <3>2. /\ proc'.pipe = proc.pipe - tail /\ proc'.written = proc.written
          /\ proc'.missed = proc.missed + (tail - kept)
      BY <2>2, <1>t DEF Procs
    <3> QED
      BY <1>4, <2>2, <3>1, <3>2 DEF Finish
  <2>6. InHand' = InHand /\ pump.stderr_tail = 0
    BY <2>1, <2>4, <1>e DEF InHand, Accounts, Reading
  <2>7. Reading'
    <3>1. Balanced => Balanced'
      <4> HIDE DEF NotMissed
      <4> DEFINE g == rx.got   l == Len(ev)   h == InHand   d == pump.dropped_output_events
                 q == proc.pipe   w == NotMissed
      <4>1. /\ g \in Nat /\ l \in Nat /\ h \in Int /\ d \in Nat /\ q \in Nat /\ w \in Int
            /\ tail \in Int /\ kept \in Int
        BY <1>n, <2>1
      <4>2. Balanced => g + l + h + d + 0 + q = w
        BY <2>6 DEF Balanced
      <4>3. Balanced' <=> g + l + h + d + kept + (q - tail) = w - (tail - kept)
        BY <2>4, <2>5, <2>6 DEF Balanced
      <4> HIDE DEF g, l, h, d, q, w
      <4>4. g + l + h + d + 0 + q = w => g + l + h + d + kept + (q - tail) = w - (tail - kept)
        BY <4>1
      <4> QED
        BY <4>2, <4>3, <4>4
    <3>2. proc.pipe = 0 => proc'.pipe = 0
      BY <2>2, <2>5
    <3> QED
      BY <2>1, <2>4, <2>5, <3>1, <3>2, <1>e DEF Accounts, Reading, OnlyLines
  <2>8. Flushing' /\ Ended'
    BY <2>1, <2>4, <2>5, <1>e DEF Accounts, Reading, Flushing, Ended
  <2> QED
    BY <2>7, <2>8 DEF Accounts
<1>5. CASE DropPending
  <2>1. pump.at = "main" /\ pump.pending_event
    BY <1>5, Taken
  <2>2. /\ pump'.pending_event = FALSE
        /\ pump'.dropped_output_events = pump.dropped_output_events + 1
        /\ pump'.at = pump.at /\ pump'.events_open = pump.events_open
        /\ pump'.finish_output = pump.finish_output /\ pump'.stderr_tail = pump.stderr_tail
        /\ pump'.terminal_events = pump.terminal_events
        /\ UNCHANGED <<proc, ev, rx>>
    BY <1>5, <1>t DEF DropPending, Counted, Locals
  <2>3. InHand = 1 /\ InHand' = 0
    BY <2>1, <2>2 DEF InHand
  <2>4. Balanced => Balanced'
    <3>1. rx'.got = rx.got /\ Len(ev') = Len(ev) /\ proc'.pipe = proc.pipe
          /\ NotMissed' = NotMissed
      BY <2>2
    <3>2. SUFFICES ASSUME Balanced PROVE Balanced'
      OBVIOUS
    <3>3. rx.got + Len(ev) + 1 + pump.dropped_output_events + pump.stderr_tail + proc.pipe
            = NotMissed
      BY <2>3, <3>2 DEF Balanced
    <3> HIDE DEF NotMissed
    <3>4. rx.got + Len(ev) + 0 + (pump.dropped_output_events + 1) + pump.stderr_tail
            + proc.pipe = NotMissed
      <4> DEFINE g == rx.got   l == Len(ev)   d == pump.dropped_output_events
                 e == pump.stderr_tail   p == proc.pipe   w == NotMissed
      <4>1. g \in Nat /\ l \in Nat /\ d \in Nat /\ e \in Nat /\ p \in Nat /\ w \in Int
        BY <1>n
      <4>2. g + l + 1 + d + e + p = w
        BY <3>3
      <4> HIDE DEF g, l, d, e, p, w
      <4>3. g + l + 0 + (d + 1) + e + p = w
        BY <4>1, <4>2
      <4> QED
        BY <4>3 DEF g, l, d, e, p, w
    <3> QED
      BY <2>2, <2>3, <3>1, <3>4 DEF Balanced
  <2>5. Reading'
    BY <2>1, <2>2, <2>4, <1>e DEF Accounts, Reading, OnlyLines
  <2>6. Flushing' /\ Ended'
    BY <2>1, <2>2, <1>e DEF Accounts, Reading, Flushing, Ended
  <2> QED
    BY <2>5, <2>6 DEF Accounts
<1>6. CASE SendPending
  <2>1. pump.at = "main" /\ pump.pending_event
    BY <1>6, Taken
  <2>2. /\ pump'.pending_event = FALSE
        /\ pump'.dropped_output_events = pump.dropped_output_events
        /\ pump'.at = pump.at /\ pump'.events_open = pump.events_open
        /\ pump'.finish_output = pump.finish_output /\ pump'.stderr_tail = pump.stderr_tail
        /\ pump'.terminal_events = pump.terminal_events
        /\ ev' = Append(ev, "line") /\ UNCHANGED <<proc, rx>>
    BY <1>6, <1>t DEF SendPending, Locals
  <2>3. InHand = 1 /\ InHand' = 0
    BY <2>1, <2>2 DEF InHand
  <2>4. /\ Len(ev') = Len(ev) + 1
        /\ \A i \in DOMAIN ev' : (i \in DOMAIN ev /\ ev'[i] = ev[i]) \/ ev'[i] = "line"
    BY <2>2, <1>t, AppendElements
  <2>5. Balanced => Balanced'
    <3>1. /\ rx'.got = rx.got /\ proc'.pipe = proc.pipe /\ NotMissed' = NotMissed
          /\ pump'.dropped_output_events = pump.dropped_output_events
          /\ pump'.stderr_tail = pump.stderr_tail /\ Len(ev') = Len(ev) + 1
      BY <2>2, <2>4
    <3>2. SUFFICES ASSUME Balanced PROVE Balanced'
      OBVIOUS
    <3>3. rx.got + Len(ev) + 1 + pump.dropped_output_events + pump.stderr_tail + proc.pipe
            = NotMissed
      BY <2>3, <3>2 DEF Balanced
    <3> HIDE DEF NotMissed
    <3>4. rx.got + (Len(ev) + 1) + 0 + pump.dropped_output_events + pump.stderr_tail
            + proc.pipe = NotMissed
      <4> DEFINE g == rx.got   l == Len(ev)   d == pump.dropped_output_events
                 e == pump.stderr_tail   p == proc.pipe   w == NotMissed
      <4>1. g \in Nat /\ l \in Nat /\ d \in Nat /\ e \in Nat /\ p \in Nat /\ w \in Int
        BY <1>n
      <4>2. g + l + 1 + d + e + p = w
        BY <3>3
      <4> HIDE DEF g, l, d, e, p, w
      <4>3. g + (l + 1) + 0 + d + e + p = w
        BY <4>1, <4>2
      <4> QED
        BY <4>3 DEF g, l, d, e, p, w
    <3> QED
      BY <2>3, <3>1, <3>4 DEF Balanced
  <2>6. OnlyLines => OnlyLines'
    BY <2>4 DEF OnlyLines
  <2>7. Reading'
    BY <2>1, <2>2, <2>5, <2>6, <1>e DEF Accounts, Reading
  <2>8. Flushing' /\ Ended'
    BY <2>1, <2>2, <1>e DEF Accounts, Reading, Flushing, Ended
  <2> QED
    BY <2>7, <2>8 DEF Accounts
<1>7. CASE CloseEvents
  <2>1. ~rx.open
    BY <1>7, Taken
  <2>2. /\ pump'.at = pump.at /\ pump'.finish_output = pump.finish_output
        /\ pump'.stderr_tail = pump.stderr_tail
        /\ pump'.terminal_events = pump.terminal_events
        /\ pump.at # "main" /\ ~pump.pending_event => ~pump'.pending_event
        /\ UNCHANGED <<proc, ev, rx>>
    BY <1>7, <1>t DEF CloseEvents, Locals
  <2> QED
    BY <2>1, <2>2 DEF Accounts, Reading, Flushing, Ended
<1>8. CASE ReadLine
  <2>1. pump.at = "main" /\ ~pump.pending_event /\ proc.pipe > 0
    BY <1>8, Taken DEF ReadLine
  <2>2. /\ pump'.at = pump.at /\ pump'.events_open = pump.events_open
        /\ pump'.finish_output = pump.finish_output /\ pump'.stderr_tail = pump.stderr_tail
        /\ pump'.terminal_events = pump.terminal_events
        /\ proc'.pipe = proc.pipe - 1 /\ NotMissed' = NotMissed /\ UNCHANGED <<ev, rx>>
    BY <1>8, <1>t DEF ReadLine, Locals, Procs
  <2>3. \/ /\ pump'.dropped_output_events = pump.dropped_output_events + 1
           /\ pump'.pending_event = pump.pending_event
        \/ /\ pump'.dropped_output_events = pump.dropped_output_events
           /\ pump'.pending_event = pump.events_open
    BY <1>8, <1>t DEF ReadLine, Counted, Locals
  <2>4. /\ InHand = 0
        /\ pump.events_open => InHand' + pump'.dropped_output_events
                                 = pump.dropped_output_events + 1
    BY <2>1, <2>3, <1>n DEF InHand
  <2>5. pump'.dropped_output_events \in Nat /\ InHand' \in {0, 1}
    BY <2>3, <1>n DEF InHand
  <2>6. pump.events_open /\ Balanced => Balanced'
    <3>1. /\ rx'.got = rx.got /\ Len(ev') = Len(ev) /\ pump'.stderr_tail = pump.stderr_tail
          /\ proc'.pipe = proc.pipe - 1 /\ NotMissed' = NotMissed
      BY <2>2
    <3>2. pump'.dropped_output_events \in Nat /\ InHand' \in Nat
      BY <2>5
    <3>3. pump.events_open =>
            InHand' + pump'.dropped_output_events = InHand + pump.dropped_output_events + 1
      BY <2>4, <1>n
    <3>4. SUFFICES ASSUME pump.events_open, Balanced PROVE Balanced'
      OBVIOUS
    <3>5. rx.got + Len(ev) + InHand + pump.dropped_output_events + pump.stderr_tail
            + proc.pipe = NotMissed
      BY <3>4 DEF Balanced
    <3>6. rx.got + Len(ev) + InHand' + pump'.dropped_output_events + pump.stderr_tail
            + (proc.pipe - 1) = NotMissed
      <4>1. /\ InHand \in Nat /\ InHand' + pump'.dropped_output_events
                                   = InHand + pump.dropped_output_events + 1
        BY <3>3, <3>4, <1>n
      <4> DEFINE g == rx.got   l == Len(ev)   h == InHand   d == pump.dropped_output_events
                 e == pump.stderr_tail   p == proc.pipe   w == NotMissed
                 h2 == InHand'   d2 == pump'.dropped_output_events
      <4>2. /\ g \in Nat /\ l \in Nat /\ h \in Nat /\ d \in Nat /\ e \in Nat /\ p \in Nat
            /\ w \in Int
        BY <1>n
      <4>3. h2 \in Nat /\ d2 \in Nat /\ h2 + d2 = h + d + 1
        BY <3>2, <4>1
      <4>4. g + l + h + d + e + p = w
        BY <3>5
      <4> HIDE DEF g, l, h, d, e, p, w, h2, d2
      <4>5. g + l + h2 + d2 + e + (p - 1) = w
        BY <4>2, <4>3, <4>4
      <4> QED
        BY <4>5 DEF g, l, h2, d2, e, p, w
    <3> QED
      BY <3>1, <3>6 DEF Balanced
  <2>7. Reading'
    BY <2>1, <2>2, <2>6, <1>e DEF Accounts, Reading, OnlyLines
  <2>8. Flushing' /\ Ended'
    BY <2>1, <2>2, <1>e DEF Accounts, Reading, Flushing, Ended
  <2> QED
    BY <2>7, <2>8 DEF Accounts
<1>9. CASE EndOfOutput
  <2>1. pump.at = "main" /\ ~pump.pending_event /\ proc.pipe = 0
    BY <1>9, Taken DEF EndOfOutput
  <2>2. /\ pump'.at \in {"drain", "cleanup"} /\ pump'.events_open = pump.events_open
        /\ pump'.finish_output = pump.finish_output /\ pump'.stderr_tail = pump.stderr_tail
        /\ pump'.terminal_events = pump.terminal_events
        /\ pump'.pending_event = pump.pending_event
        /\ pump'.dropped_output_events = pump.dropped_output_events
        /\ UNCHANGED <<proc, ev, rx>>
    BY <1>9, <1>t DEF EndOfOutput, AfterOutput, Locals
  <2>3. InHand' = InHand
    BY <2>2 DEF InHand
  <2>4. Reading'
    BY <2>1, <2>2, <2>3, <1>e DEF Accounts, Reading, OnlyLines, Balanced
  <2>5. Flushing' /\ Ended'
    BY <2>1, <2>2, <1>e DEF Accounts, Reading, Flushing, Ended
  <2> QED
    BY <2>4, <2>5 DEF Accounts
<1>10. CASE Cleanup
  <2>1. pump.at = "cleanup" /\ ~pump.pending_event /\ proc.pipe = 0 /\ InHand = 0
        /\ ~rx.ended /\ rx.reported = 0
    BY <1>10, <1>e DEF Cleanup, Accounts, Reading, InHand
  <2>2. /\ pump'.at = "flush" /\ pump'.terminal_events = TerminalEvents
        /\ pump'.dropped_output_events = pump.dropped_output_events
        /\ UNCHANGED <<proc, ev, rx>>
    BY <1>10, <1>t, TerminalTyped DEF Cleanup, Locals
  <2>3. Reading' /\ Ended'
    BY <2>1, <2>2, <1>e DEF Reading, Ended
  <2>4. ASSUME rx.open PROVE Flushing'
    <3> DEFINE T == TerminalEvents
               Q == ev \o T
               t == pump.stderr_tail
    <3>1. /\ T \in Seq(EventKinds) /\ T # <<>> /\ t \in 0 .. Len(T)
          /\ LinesFirst(T, t) /\ EndsTerminated(T)
          /\ pump.dropped_output_events > 0 => \E i \in DOMAIN T : T[i] = "lost"
      BY TerminalOrder
    <3> HIDE DEF T
    <3>2. \A i \in DOMAIN ev : ev[i] = "line"
      BY <2>1, <2>4, <1>e DEF Accounts, Reading, OnlyLines
    <3>3. /\ Q \in Seq(EventKinds) /\ Len(Q) = Len(ev) + Len(T) /\ DOMAIN Q = 1 .. Len(Q)
          /\ \A i \in DOMAIN ev : Q[i] = "line"
          /\ \A i \in DOMAIN T : Q[Len(ev) + i] = T[i] /\ Len(ev) + i \in DOMAIN Q
          /\ \A i \in DOMAIN Q :
               i \in DOMAIN ev \/ (i - Len(ev) \in DOMAIN T /\ Q[i] = T[i - Len(ev)])
      <4>1. /\ Q \in Seq(EventKinds) /\ Len(Q) = Len(ev) + Len(T)
            /\ \A i \in DOMAIN ev : Q[i] = ev[i]
            /\ \A i \in DOMAIN T : Q[Len(ev) + i] = T[i]
            /\ \A i \in DOMAIN Q :
                 i \in DOMAIN ev \/ (i - Len(ev) \in DOMAIN T /\ Q[i] = T[i - Len(ev)])
        BY <3>1, <1>t, Concatenated
      <4> HIDE DEF Q
      <4>2. DOMAIN Q = 1 .. Len(Q) /\ DOMAIN T = 1 .. Len(T) /\ Len(T) \in Nat
        BY <3>1, <4>1
      <4>3. \A i \in DOMAIN T : Len(ev) + i \in DOMAIN Q
        BY <4>1, <4>2, <1>n
      <4> QED
        BY <3>2, <4>1, <4>2, <4>3
    <3>4. DOMAIN T = 1 .. Len(T) /\ Len(T) \in Nat /\ Len(T) > 0
      BY <3>1
    <3> HIDE DEF Q, NotMissed
    <3>5. LinesFirst(Q, Len(ev) + t)
      <4> SUFFICES ASSUME NEW i \in DOMAIN Q PROVE Q[i] = "line" <=> i <= Len(ev) + t
        BY DEF LinesFirst
      <4>1. CASE i \in DOMAIN ev
        BY <4>1, <3>1, <3>3, <3>4, <1>n
      <4>2. CASE i - Len(ev) \in DOMAIN T /\ Q[i] = T[i - Len(ev)]
        <5>1. T[i - Len(ev)] = "line" <=> i - Len(ev) <= t
          BY <4>2, <3>1 DEF LinesFirst
        <5>2. i \in Int /\ Len(ev) \in Int /\ t \in Int
          BY <3>1, <3>3, <3>4, <1>n
        <5> QED
          BY <4>2, <5>1, <5>2
      <4> QED
        BY <4>1, <4>2, <3>3
    <3>6. EndsTerminated(Q)
      <4>1. Len(ev) \in Nat /\ DOMAIN ev = 1 .. Len(ev)
        BY <1>n
      <4>2. \A i \in DOMAIN T : T[i] = "terminated" <=> i = Len(T)
        BY <3>1, <3>4 DEF EndsTerminated
      <4> SUFFICES ASSUME NEW i \in DOMAIN Q PROVE Q[i] = "terminated" <=> i = Len(Q)
        BY DEF EndsTerminated
      <4>3. CASE i \in DOMAIN ev
        BY <4>1, <4>3, <3>3, <3>4
      <4>4. CASE i - Len(ev) \in DOMAIN T /\ Q[i] = T[i - Len(ev)]
        BY <4>1, <4>2, <4>4, <3>3, <3>4
      <4> QED
        BY <4>3, <4>4, <3>3
    <3>7. rx.got + (Len(ev) + t) + pump.dropped_output_events = NotMissed
      BY <2>1, <2>4, <1>n, <1>e DEF Accounts, Reading, Balanced
    <3>8. rx.reported = pump.dropped_output_events \/ \E i \in DOMAIN Q : Q[i] = "lost"
      BY <2>1, <3>1, <3>3, <1>n
    <3>9. Coming' = Q /\ Len(ev) + t \in 0 .. Len(Q)
      BY <2>2, <3>1, <3>3, <3>4, <1>n DEF Coming, Q, T
    <3> QED
      BY <2>1, <2>2, <3>5, <3>6, <3>7, <3>8, <3>9 DEF Flushing, NotMissed
  <2>5. ~rx.open => Flushing'
    BY <2>2 DEF Flushing
  <2> QED
    BY <2>3, <2>4, <2>5 DEF Accounts
<1>11. CASE FlushSend
  <2>1. pump.at = "flush" /\ pump.terminal_events # <<>>
    BY <1>11, Taken
  <2>2. /\ pump'.at = pump.at /\ pump'.terminal_events = Tail(pump.terminal_events)
        /\ pump'.dropped_output_events = pump.dropped_output_events
        /\ ev' = Append(ev, Head(pump.terminal_events)) /\ UNCHANGED <<proc, rx>>
    BY <1>11, <1>t DEF FlushSend, Locals
  <2>3. Coming' = Coming
    BY <2>1, <2>2, <1>t, MoveHead DEF Coming
  <2> QED
    BY <2>1, <2>2, <2>3, <1>e DEF Accounts, Reading, Flushing, Ended, LinesFirst, EndsTerminated
<1>12. CASE FlushGivesUp
  <2>1. pump.at = "flush"
    BY <1>12 DEF FlushGivesUp, Flush
  <2>2. /\ pump'.at = pump.at /\ pump'.terminal_events = pump.terminal_events
        /\ pump'.dropped_output_events = pump.dropped_output_events /\ UNCHANGED <<proc, rx, ev>>
    BY <1>12, <1>t DEF FlushGivesUp, Locals
  <2>3. Coming' = Coming
    BY <2>2 DEF Coming
  <2> QED
    BY <2>1, <2>2, <2>3, <1>e DEF Accounts, Reading, Flushing, Ended, LinesFirst, EndsTerminated
<1>13. CASE Return
  <2>1. UNCHANGED <<Account, Phase>> /\ pump'.at = "gone"
    BY <1>13, <1>t DEF Return, Account, Phase, Locals
  <2> QED
    BY <2>1, <1>t, <1>e, SameAccounts
<1>14. CASE Tick
  <2>1. UNCHANGED <<Account, Phase>> /\ pump'.at = pump.at
    BY <1>14, <1>t DEF Tick, Account, Phase, Locals
  <2> QED
    BY <2>1, <1>t, SameAccounts
<1>15. CASE Write
  \* The ring is full: a line comes and a line goes.
  <2>1. CASE ~(proc.pipe < Ring)
    <3>1. /\ proc'.pipe = proc.pipe /\ NotMissed' = NotMissed
          /\ UNCHANGED <<pump, ev, rx>>
      BY <1>15, <1>t, <1>n, <2>1 DEF Write, Process, Procs
    <3> QED
      BY <3>1, <1>t, SameAccounts DEF Account, Phase
  <2>2. CASE proc.pipe < Ring
    <3>1. proc.piped /\ pump.at = "main"
      BY <1>15, <1>t, <1>e DEF Write, Settled
    <3>2. /\ proc'.pipe = proc.pipe + 1 /\ NotMissed' = NotMissed + 1
          /\ UNCHANGED <<pump, ev, rx>>
      BY <1>15, <1>t, <1>n, <2>2 DEF Write, Process, Procs
    <3>3. InHand' = InHand
      BY <3>2 DEF InHand
    <3>4. Balanced => Balanced'
      <4>1. /\ rx'.got = rx.got /\ Len(ev') = Len(ev) /\ pump'.stderr_tail = pump.stderr_tail
            /\ pump'.dropped_output_events = pump.dropped_output_events
            /\ proc'.pipe = proc.pipe + 1 /\ NotMissed' = NotMissed + 1
        BY <3>2
      <4>2. SUFFICES ASSUME Balanced PROVE Balanced'
        OBVIOUS
      <4>3. rx.got + Len(ev) + InHand + pump.dropped_output_events + pump.stderr_tail
              + proc.pipe = NotMissed
        BY <4>2 DEF Balanced
      <4>4. rx.got + Len(ev) + InHand + pump.dropped_output_events + pump.stderr_tail
              + (proc.pipe + 1) = NotMissed + 1
        <5> DEFINE g == rx.got   l == Len(ev)   h == InHand   d == pump.dropped_output_events
                   e == pump.stderr_tail   p == proc.pipe   w == NotMissed
        <5>1. /\ g \in Nat /\ l \in Nat /\ h \in Nat /\ d \in Nat /\ e \in Nat /\ p \in Nat
              /\ w \in Int
          BY <1>n
        <5>2. g + l + h + d + e + p = w
          BY <4>3
        <5> HIDE DEF g, l, h, d, e, p, w
        <5>3. g + l + h + d + e + (p + 1) = w + 1
          BY <5>1, <5>2
        <5> QED
          BY <5>3 DEF g, l, h, d, e, p, w
      <4> QED
        BY <3>3, <4>1, <4>4 DEF Balanced
    <3>5. Reading'
      BY <3>1, <3>2, <3>4, <1>e DEF Accounts, Reading, OnlyLines
    <3>6. Flushing' /\ Ended'
      BY <3>1, <3>2, <1>e DEF Accounts, Reading, Flushing, Ended
    <3> QED
      BY <3>5, <3>6 DEF Accounts
  <2> QED
    BY <2>1, <2>2
<1>16. CASE Exit \/ ClosePipes \/ FinishResolves
  <2>1. UNCHANGED <<proc.pipe, NotMissed, pump, ev, rx>>
    BY <1>16, <1>t DEF Exit, ClosePipes, FinishResolves, Process, Procs
  <2>2. UNCHANGED <<Account, Phase>> /\ pump'.at = pump.at
    BY <2>1 DEF Account, Phase
  <2> QED
    BY <2>2, <1>t, SameAccounts
<1>17. CASE CloseReceiver
  <2>1. ~rx'.open /\ rx'.ended = rx.ended /\ rx'.got = rx.got /\ rx'.reported = rx.reported
        /\ UNCHANGED <<pump, proc>>
    BY <1>17, <1>t DEF CloseReceiver, Receivers
  <2> QED
    BY <2>1 DEF Accounts, Reading, Flushing, Ended
<1>18. CASE Receive
  <2> DEFINE Q == Coming
             k0 == pump.dropped_output_events
  <2>1. /\ rx.open /\ ev # <<>> /\ ev' = Tail(ev) /\ UNCHANGED <<pump, proc>>
        /\ rx' = CASE Head(ev) = "line" -> [rx EXCEPT !.got = @ + 1]
                   [] Head(ev) = "lost" -> [rx EXCEPT !.reported = pump.dropped_output_events]
                   [] Head(ev) = "terminated" -> [rx EXCEPT !.ended = TRUE]
                   [] OTHER -> rx
    BY <1>18 DEF Receive
  <2>2. /\ rx'.open = rx.open
        /\ rx'.got = IF Head(ev) = "line" THEN rx.got + 1 ELSE rx.got
        /\ rx'.reported = IF Head(ev) = "lost" THEN pump.dropped_output_events ELSE rx.reported
        /\ rx'.ended = (rx.ended \/ Head(ev) = "terminated")
    BY <2>1, <1>t DEF Receivers
  <2>3. InHand' = InHand
    BY <2>1 DEF InHand
  <2>4. CASE pump.at \in Early
    <3>1. OnlyLines /\ Balanced /\ ~rx.ended
      BY <2>1, <2>4 DEF Accounts, Reading
    <3>2. Head(ev) = "line" /\ Head(ev) = ev[1] /\ Len(ev') = Len(ev) - 1
          /\ \A i \in DOMAIN ev' : ev'[i] = ev[i + 1] /\ i + 1 \in DOMAIN ev
      <4>1. ev[1] = "line"
        BY <2>1, <3>1, <1>n, <1>t, TailElements DEF OnlyLines
      <4>2. Len(ev') = Len(ev) - 1
        BY <2>1, <1>t
      <4>3. /\ Head(ev) = ev[1]
            /\ \A i \in DOMAIN ev' : ev'[i] = ev[i + 1] /\ i + 1 \in DOMAIN ev
        BY <2>1, <1>t, TailElements
      <4> QED
        BY <4>1, <4>2, <4>3
    <3>3. OnlyLines'
      BY <3>1, <3>2 DEF OnlyLines
    <3>4. Balanced'
      <4>1. rx'.got = rx.got + 1 /\ proc'.pipe = proc.pipe /\ NotMissed' = NotMissed
            /\ pump'.stderr_tail = pump.stderr_tail
            /\ pump'.dropped_output_events = pump.dropped_output_events
        BY <2>1, <2>2, <3>2
      <4> QED
        BY <2>3, <3>1, <3>2, <4>1, <1>n, SMTT(60) DEF Balanced
    <3>5. Reading'
      BY <2>1, <2>2, <2>4, <3>1, <3>2, <3>3, <3>4 DEF Accounts, Reading
    <3>6. Flushing' /\ Ended'
      BY <2>1, <2>2, <2>4, <3>1, <3>2, <1>e DEF Flushing, Ended
    <3> QED
      BY <3>5, <3>6 DEF Accounts
  <2>5. CASE pump.at \in {"flush", "gone"}
    <3>1. Q \in Seq(EventKinds) /\ Q # <<>> /\ Head(ev) = Q[1] /\ Coming' = Tail(Q)
      <4> DEFINE T == pump.terminal_events
      <4>1. /\ ev \o T \in Seq(EventKinds) /\ ev \o T # <<>>
            /\ Head(ev) = (ev \o T)[1] /\ Tail(ev) \o T = Tail(ev \o T)
        <5>1. T \in Seq(EventKinds) /\ ev \in Seq(EventKinds) /\ ev # <<>>
          BY <2>1, <1>t DEF Locals
        <5> HIDE DEF T
        <5> QED
          BY <5>1, TakeHead
      <4> QED
        BY <2>1, <4>1 DEF Coming
    <3>2. /\ Len(Q) \in Nat /\ Len(Q) > 0 /\ Len(Coming') = Len(Q) - 1
          /\ DOMAIN Coming' = 1 .. Len(Coming') /\ DOMAIN Q = 1 .. Len(Q)
          /\ \A i \in DOMAIN Coming' : Coming'[i] = Q[i + 1] /\ i + 1 \in DOMAIN Q
      BY <3>1, <1>c, TailElements
    <3>3. PICK k \in 0 .. Len(Q) :
            /\ LinesFirst(Q, k)
            /\ rx.got + k + pump.dropped_output_events = NotMissed
      BY <2>1, <2>5 DEF Accounts, Flushing
    <3>4. /\ EndsTerminated(Q) /\ ~rx.ended
          /\ \/ rx.reported = pump.dropped_output_events
             \/ \E i \in DOMAIN Q : Q[i] = "lost"
      BY <2>1, <2>5, <3>1 DEF Accounts, Flushing
    <3> HIDE DEF Q
    <3>5. \E k2 \in 0 .. Len(Coming') :
             /\ LinesFirst(Coming', k2)
             /\ rx'.got + k2 + pump'.dropped_output_events = NotMissed'
      <4>1. CASE Head(ev) = "line"
        <5>1. k >= 1 /\ k - 1 \in 0 .. Len(Coming')
          BY <4>1, <3>1, <3>2, <3>3 DEF LinesFirst
        <5>2. LinesFirst(Coming', k - 1)
          BY <5>1, <3>2, <3>3 DEF LinesFirst
        <5>3. rx'.got = rx.got + 1 /\ rx'.got + (k - 1) + pump'.dropped_output_events = NotMissed'
          <6>1. /\ rx'.got = rx.got + 1 /\ NotMissed' = NotMissed
                /\ pump'.dropped_output_events = pump.dropped_output_events
            BY <2>1, <2>2, <4>1, <1>t DEF Receivers
          <6> HIDE DEF NotMissed
          <6> DEFINE g == rx.got   d == pump.dropped_output_events   w == NotMissed
          <6>2. g \in Nat /\ d \in Nat /\ w \in Int /\ k \in Nat /\ g + k + d = w
            BY <3>2, <3>3, <1>n
          <6> HIDE DEF g, d, w
          <6>3. g + 1 + (k - 1) + d = w
            BY <6>2
          <6> QED
            BY <6>1, <6>3 DEF g, d, w
        <5> QED
          BY <5>1, <5>2, <5>3
      <4>2. CASE Head(ev) # "line"
        <5>1. k = 0
          BY <4>2, <3>1, <3>2, <3>3 DEF LinesFirst
        <5>2. LinesFirst(Coming', 0) /\ 0 \in 0 .. Len(Coming')
          BY <5>1, <3>2, <3>3 DEF LinesFirst
        <5> QED
          BY <2>1, <2>2, <4>2, <3>3, <5>1, <5>2
      <4> QED
        BY <4>1, <4>2
    <3>6. EndsTerminated(Coming')
      BY <3>2, <3>4 DEF EndsTerminated
    <3>7. \/ rx'.reported = pump'.dropped_output_events
          \/ \E i \in DOMAIN Coming' : Coming'[i] = "lost"
      <4>1. CASE Head(ev) = "lost"
        BY <2>1, <2>2, <4>1
      <4>2. CASE Head(ev) # "lost" /\ \E i \in DOMAIN Q : Q[i] = "lost"
        <5>1. PICK i \in DOMAIN Q : Q[i] = "lost"
          BY <4>2
        <5>2. i # 1
          BY <4>2, <5>1, <3>1
        <5>3. i - 1 \in DOMAIN Coming' /\ Coming'[i - 1] = Q[i]
          BY <5>1, <5>2, <3>2
        <5> QED
          BY <5>1, <5>3
      <4>3. CASE Head(ev) # "lost" /\ rx.reported = pump.dropped_output_events
        BY <2>1, <2>2, <4>3
      <4> QED
        BY <3>4, <4>1, <4>2, <4>3
    <3>8. Head(ev) = "terminated" => /\ Coming' = <<>>
                                     /\ rx.got + rx.reported = NotMissed
      <4> SUFFICES ASSUME Head(ev) = "terminated"
                   PROVE  Coming' = <<>> /\ rx.got + rx.reported = NotMissed
        OBVIOUS
      <4>1. Len(Q) = 1
        BY <3>1, <3>2, <3>4 DEF EndsTerminated
      <4>2. Coming' = <<>>
        BY <4>1, <3>1, <3>2
      <4>3. k = 0
        BY <4>1, <3>1, <3>2, <3>3 DEF LinesFirst
      <4>4. rx.reported = pump.dropped_output_events
        BY <4>1, <3>1, <3>2, <3>4
      <4> QED
        BY <4>2, <4>3, <4>4, <3>3, <1>n
    <3>9. Flushing'
      BY <2>1, <2>2, <3>4, <3>5, <3>6, <3>7, <3>8 DEF Flushing
    <3>10. Reading' /\ Ended'
      BY <2>1, <2>2, <2>5, <3>4, <3>8, <1>e DEF Reading, Ended
    <3> QED
      BY <3>9, <3>10 DEF Accounts
  <2> QED
    BY <2>4, <2>5, <1>t, <1>e
<1>19. ASSUME ~Pump, ~Tick, ~Write, ~Exit, ~ClosePipes, ~FinishResolves, ~CloseReceiver, ~Receive
       PROVE  UNCHANGED <<pump, proc, ev, rx>>
  BY <1>19 DEF Next, StdinWriter, WriterTakes, WriteSucceeds, WriteFails, WriterEnds, Writer,
     DropHandles, SendWrite, WriteIsDropped, WriteGoes, Send, ReplyIsDropped, Answer, CallGoes,
     Finished, vars
<1>20. CASE UNCHANGED <<pump, proc, ev, rx>>
  <2>1. UNCHANGED <<Account, Phase>> /\ pump'.at = pump.at
    BY <1>20 DEF Account, Phase
  <2> QED
    BY <2>1, <1>t, SameAccounts
<1> QED
  BY <1>1, <1>2, <1>3, <1>4, <1>5, <1>6, <1>7, <1>8, <1>9, <1>10, <1>11, <1>12, <1>13,
     <1>14, <1>15, <1>16, <1>17, <1>18, <1>19, <1>20 DEF Pump

\* When the receiver takes Terminated it has every line the pump was handed, or was
\* told how many are missing, for every capacity, every size of the ring, deadline and
\* number of lines (engine.rs 55, 119-132, 400-446, 493-541).
THEOREM EverythingBeforeTerminatedHolds == Spec => []EverythingBeforeTerminated
<1>1. Init => Accounts
  BY AccountsInit
<1>2. TypeOK /\ Settled /\ Accounts /\ [Next]_vars => Accounts'
  BY AccountsStep
<1>3. TypeOK /\ Accounts => EverythingBeforeTerminated
  <2>1. TypeOK => /\ proc.written \in Nat /\ proc.missed \in Nat
                  /\ rx.got \in Nat /\ rx.reported \in Nat
    BY DEF TypeOK
  <2> QED
    BY <2>1 DEF Accounts, Ended, EverythingBeforeTerminated, NotMissed
<1> QED
  BY <1>1, <1>2, <1>3, AlwaysSettled, PTL DEF Spec

(***************************************************************************)
(* The receiver cannot hold up the end of a child.                         *)
(***************************************************************************)
\* A pump whose child is being killed or has exited knows that it is dying, and a
\* dying pump waits for room in the channel with a deadline armed: in the main
\* loop for a line, which nobody but an open receiver is waited for, and at the
\* end for each terminal event.  Otherwise a receiver that never takes an event
\* would keep the exit from being cleaned up (engine.rs 347-352, 371-446, 507-541).
StallIsBounded ==
  /\ pump.at = "main" =>
       /\ pump.finish_output # "none" \/ proc.kill # "none" => pump.dying
       /\ HasTimeout /\ pump.hard_kill_at = Off => pump.dying
       /\ pump.pending_event => pump.events_open /\ ~pump.drop_output
       /\ pump.dying /\ pump.pending_event => pump.drop_pending_at \in 0 .. Stall
  /\ pump.at = "flush" => pump.flush_deadline \in 0 .. Stall

Armed == StallIsBounded /\ pump.drop_pending_at \in {Off} \cup 0 .. Stall

LEMMA DyingArms ==
  ASSUME NEW p \in Locals
  PROVE  /\ p.at = "main" => Dying(p).dying /\ Dying(p).drop_pending_at = ArmDrop(p)
         /\ p.at # "main" => Dying(p) = p
         /\ Dying(p).drop_output = p.drop_output /\ Dying(p).flush_deadline = p.flush_deadline
BY DEF Dying, Locals

\* Being told that it dies arms the deadline of a waiting line.
LEMMA StaysArmed ==
  ASSUME TypeOK, Armed, NEW p \in Locals, pump' = Dying(p),
         p.at = pump.at, p.drop_pending_at = pump.drop_pending_at,
         p.pending_event = pump.pending_event, p.events_open = pump.events_open,
         p.drop_output = pump.drop_output, p.flush_deadline = pump.flush_deadline
  PROVE  Armed'
BY DyingTyped, DyingArms, PumpAssumption DEF Armed, StallIsBounded, ArmDrop, Off

LEMMA ArmedStep ==
  ASSUME TypeOK, Armed, [Next]_vars PROVE Armed'
<1>t. pump \in Locals /\ proc \in Procs /\ Stall \in Nat
  BY PumpAssumption DEF TypeOK, Procs
<1> USE DEF Armed, StallIsBounded
\* Steps that touch neither what the pump waits for nor the child.
<1>f. ASSUME pump'.at \in {pump.at} \cup {"drain", "cleanup", "gone"},
             \A f \in {"finish_output", "hard_kill_at", "pending_event", "events_open",
                      "drop_output", "dying", "drop_pending_at", "flush_deadline"} :
               pump'[f] = pump[f],
             proc'.kill = proc.kill
      PROVE  Armed'
  BY <1>f
<1>1. CASE Abandon
  <2>1. \/ pump.at = "main" /\ ~pump.events_open
        \/ pump.at # "main"
    <3>1. /\ Main(1) => pump.at = "main" /\ Abandoning
          /\ Drain(1) => pump.at = "drain"
      BY DEF Main, Drain, First
    <3> QED
      BY <1>1, <3>1 DEF Abandon, Abandoning
  <2>2. /\ pump' = [pump EXCEPT !.abandoned = TRUE, !.hard_kill_at = Off,
                                !.dying = @ \/ pump.at = "main"]
    BY <1>1 DEF Abandon
  <2> QED
    BY <2>1, <2>2, <1>t DEF Locals
<1>2. CASE RecvCtrl
  <2>1. CASE pump' = [pump EXCEPT !.ctrl_open = FALSE] /\ UNCHANGED proc
    BY <2>1, <1>f, <1>t DEF Locals
  <2>2. CASE UNCHANGED <<pump, proc>>
    BY <2>2, <1>f
  <2>3. ASSUME NEW c, HandleKill(c) PROVE Armed'
    <3>1. CASE pump' = Dying([pump EXCEPT !.hard_kill_at = Sooner])
      <4>1. [pump EXCEPT !.hard_kill_at = Sooner] \in Locals
        BY <1>t, SoonerTyped DEF Locals, Countdown
      <4> QED
        BY <3>1, <4>1, <1>t, StaysArmed DEF Locals
    <3>2. CASE pump' = Dying([pump EXCEPT !.hard_kill_at = Off])
      <4>1. [pump EXCEPT !.hard_kill_at = Off] \in Locals
        BY <1>t, Countdowns DEF Locals
      <4> QED
        BY <3>2, <4>1, <1>t, StaysArmed DEF Locals
    <3>3. CASE pump' = Dying(pump)
      BY <3>3, <1>t, StaysArmed
    <3> QED
      BY <2>3, <3>1, <3>2, <3>3 DEF HandleKill
  <2> QED
    BY <1>2, <2>1, <2>2, <2>3 DEF RecvCtrl
<1>3. CASE HardKill
  <2>1. [pump EXCEPT !.hard_kill_at = Off] \in Locals
    BY <1>t, Countdowns DEF Locals
  <2> QED
    BY <1>3, <2>1, <1>t, StaysArmed DEF HardKill, Locals
<1>4. CASE Finish
  <2>1. PICK tail \in Nat, kept \in Nat :
          pump' = [Dying(pump) EXCEPT !.finish_output = proc.finish, !.payload = Payload,
                                      !.stderr_tail = kept,
                                      !.at = IF @ = "drain" THEN "cleanup" ELSE @]
    BY <1>4, Drained
  <2>2. pump.at \in {"main", "drain"}
    BY <1>4 DEF Finish, Main, Drain
  <2>3. /\ Dying(pump) \in Locals /\ Dying(pump).at = pump.at
        /\ Dying(pump).pending_event = pump.pending_event
        /\ Dying(pump).events_open = pump.events_open
        /\ Dying(pump).drop_output = pump.drop_output
        /\ pump.at = "main" => Dying(pump).dying /\ Dying(pump).drop_pending_at = ArmDrop(pump)
        /\ pump.at # "main" => Dying(pump) = pump
    BY <1>t, DyingTyped, DyingArms
  <2>4. /\ pump'.at = IF pump.at = "drain" THEN "cleanup" ELSE pump.at
        /\ pump'.pending_event = Dying(pump).pending_event
        /\ pump'.events_open = Dying(pump).events_open
        /\ pump'.drop_output = Dying(pump).drop_output
        /\ pump'.dying = Dying(pump).dying
        /\ pump'.drop_pending_at = Dying(pump).drop_pending_at
    BY <2>1, <2>3 DEF Locals
  <2> QED
    BY <2>2, <2>3, <2>4, <1>t DEF ArmDrop, Off
<1>5. CASE DropPending \/ SendPending
  <2>1. /\ pump'.at = "main" /\ ~pump'.pending_event /\ pump'.drop_pending_at = Off
        /\ pump'.finish_output = pump.finish_output /\ pump'.dying = pump.dying
        /\ pump'.hard_kill_at = pump.hard_kill_at /\ pump.at = "main" /\ proc' = proc
    BY <1>5, <1>t, Taken DEF DropPending, SendPending, Locals
  <2> QED
    BY <2>1
<1>6. CASE CloseEvents
  BY <1>6, <1>t DEF CloseEvents, Main, Drain, Flush, Locals
<1>7. CASE ReadLine
  BY <1>7, <1>t DEF ReadLine, Main, First, NextReady, Locals, Procs, Off
<1>8. CASE EndOfOutput
  BY <1>8, <1>t DEF EndOfOutput, AfterOutput, Main, Locals
<1>9. CASE Cleanup
  BY <1>9, <1>t DEF Cleanup, Locals
<1>10. CASE FlushSend
  <2>1. /\ pump'.at = "flush" /\ pump'.flush_deadline = Stall
        /\ pump'.drop_pending_at = pump.drop_pending_at
    BY <1>10, <1>t DEF FlushSend, Flush, Locals
  <2> QED
    BY <2>1, <1>t
<1>11. CASE FlushGivesUp \/ Return
  BY <1>11, <1>t DEF FlushGivesUp, Flush, Return, Locals
<1>12. CASE Tick
  <2>1. /\ pump'.at = pump.at /\ pump'.pending_event = pump.pending_event
        /\ pump'.finish_output = pump.finish_output /\ pump'.events_open = pump.events_open
        /\ pump'.drop_output = pump.drop_output /\ pump'.dying = pump.dying
        /\ pump'.hard_kill_at = Less(pump.hard_kill_at)
        /\ pump'.drop_pending_at = Less(pump.drop_pending_at)
        /\ pump'.flush_deadline = Less(pump.flush_deadline)
        /\ UNCHANGED proc
    BY <1>12, <1>t DEF Tick, Locals
  <2>2. \A x \in Countdown : Less(x) = Off <=> x = Off
    BY DEF Less, Off, Countdown
  <2>3. /\ \A x \in 0 .. Stall : Less(x) \in 0 .. Stall
        /\ Less(Off) = Off
    BY <1>t DEF Less, Off
  <2>4. pump.hard_kill_at \in Countdown
    BY <1>t DEF Locals
  <2> QED
    BY <2>1, <2>2, <2>3, <2>4
<1>13. CASE Write \/ Exit \/ ClosePipes \/ FinishResolves
  BY <1>13, <1>f, <1>t DEF Write, Exit, ClosePipes, FinishResolves, Process, Procs
<1>14. CASE \/ StdinWriter \/ Receive \/ CloseReceiver \/ DropHandles \/ SendWrite
            \/ \E w \in DOMAIN write : WriteIsDropped(w)
            \/ \E c \in Callers : Send(c) \/ ReplyIsDropped(c) \/ Answer(c)
            \/ Finished \/ UNCHANGED vars
  <2>1. UNCHANGED <<pump, proc>>
    BY <1>14 DEF StdinWriter, WriterTakes, WriteSucceeds, WriteFails, WriterEnds, Writer,
       Receive, CloseReceiver, DropHandles, SendWrite, WriteIsDropped, WriteGoes, Send,
       ReplyIsDropped, Answer, CallGoes, Finished, vars
  <2> QED
    BY <2>1, <1>f
<1> QED
  BY <1>1, <1>2, <1>3, <1>4, <1>5, <1>6, <1>7, <1>8, <1>9, <1>10, <1>11, <1>12, <1>13, <1>14
     DEF Next, Pump

\* A dying pump never waits for its receiver without a deadline, for every capacity
\* of the channel, grace period and timeout: what PumpEnds and KillReturns need
\* besides fairness (engine.rs 347-352, 371-446, 507-541).
THEOREM StallIsBoundedHolds == Spec => []StallIsBounded
<1>1. Init => Armed
  <2> SUFFICES ASSUME Init PROVE Armed
    OBVIOUS
  <2>1. /\ pump.at = "main" /\ pump.finish_output = "none" /\ proc.kill = "none"
        /\ pump.hard_kill_at = IF HasTimeout THEN Timeout ELSE Off
        /\ pump.pending_event = FALSE /\ pump.drop_pending_at = Off
    BY DEF Init
  <2> QED
    BY <2>1, PumpAssumption DEF Armed, StallIsBounded, Off
<1>2. TypeOK /\ Armed /\ [Next]_vars => Armed'
  BY ArmedStep
<1>3. Armed => StallIsBounded
  BY DEF Armed
<1> QED
  BY <1>1, <1>2, <1>3, TypeCorrect, PTL DEF Spec
=============================================================================
