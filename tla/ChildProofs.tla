----------------------------- MODULE ChildProofs -----------------------------
(***************************************************************************)
(* Proof that the pump, its callers and the process tree keep the contract *)
(* the supervisor is written against: every step of ProcessPump is a step  *)
(* of ManagedChild's child, or none at all.                                *)
(***************************************************************************)
EXTENDS PumpProofs

Asked == proc.kill # "none" \/ pump.hard_kill_at # Off

(***************************************************************************)
(* What Terminated says: how the child exited, or nothing.                 *)
(***************************************************************************)
Honest ==
  /\ proc.alive <=> proc.outcome = "unknown"
  /\ pump.payload \in {"unknown", proc.outcome}

\* Only the exit and finish() have a say in it.
LEMMA NothingElseTells ==
  ASSUME TypeOK, [Next]_vars, ~Finish, ~Exit
  PROVE  UNCHANGED <<proc.alive, proc.outcome, pump.payload>>
<1>t. pump \in Locals /\ proc \in Procs
  BY DEF TypeOK, Procs
<1>k. ASSUME NEW result, KillAll(result) PROVE UNCHANGED <<proc.alive, proc.outcome>>
  BY <1>k, <1>t DEF KillAll, Procs
<1>e. ASSUME NEW t \in Countdown
      PROVE  /\ [pump EXCEPT !.hard_kill_at = t] \in Locals
             /\ Dying([pump EXCEPT !.hard_kill_at = t]).payload = pump.payload
  <2>1. /\ [pump EXCEPT !.hard_kill_at = t] \in Locals
        /\ [pump EXCEPT !.hard_kill_at = t].payload = pump.payload
    BY <1>t DEF Locals
  <2> QED
    BY <2>1, DyingTyped
<1>1. CASE Abandon
  BY <1>1, <1>t, <1>k DEF Abandon, Locals
<1>2. CASE RecvCtrl
  <2>1. UNCHANGED <<proc.alive, proc.outcome>>
    BY <1>2, <1>k DEF RecvCtrl, HandleKill
  <2>2. CASE HandleKill(Head(ctrl))
    <3>1. Sooner \in Countdown /\ Off \in Countdown
      BY SoonerTyped, Countdowns DEF Countdown
    <3>2. PICK q \in {pump, [pump EXCEPT !.hard_kill_at = Sooner],
                       [pump EXCEPT !.hard_kill_at = Off]} : pump' = Dying(q)
      BY <2>2 DEF HandleKill
    <3>3. Dying(q).payload = pump.payload
      BY <3>1, <3>2, <1>e, <1>t, DyingTyped
    <3> QED
      BY <2>1, <3>2, <3>3
  <2>3. CASE pump' = [pump EXCEPT !.ctrl_open = FALSE] \/ UNCHANGED pump
    BY <2>1, <2>3, <1>t DEF Locals
  <2> QED
    BY <1>2, <2>2, <2>3 DEF RecvCtrl
<1>3. CASE HardKill
  BY <1>3, <1>k, <1>e, Countdowns DEF HardKill
<1>4. CASE \/ DropPending \/ SendPending \/ CloseEvents \/ EndOfOutput
           \/ Cleanup \/ FlushSend \/ FlushGivesUp \/ Return \/ Tick
  BY <1>4, <1>t DEF DropPending, SendPending, CloseEvents, EndOfOutput, Cleanup,
     FlushSend, FlushGivesUp, Return, Tick, Locals
<1>5. CASE ReadLine
  BY <1>5, <1>t DEF ReadLine, Locals, Procs
<1>6. CASE Write \/ ClosePipes \/ FinishResolves
  BY <1>6, <1>t DEF Write, ClosePipes, FinishResolves, Process, Procs
<1>7. \/ Pump \/ Tick \/ Write \/ FinishResolves \/ ClosePipes \/ UNCHANGED <<pump, proc>>
  BY DEF Next, StdinWriter, WriterTakes, WriteSucceeds, WriteFails, WriterEnds, Writer,
     Receive, CloseReceiver, DropHandles, SendWrite, WriteIsDropped, WriteGoes, Send,
     ReplyIsDropped, Answer, CallGoes, Finished, vars
<1> QED
  BY <1>1, <1>2, <1>3, <1>4, <1>5, <1>6, <1>7 DEF Pump

LEMMA HonestStep ==
  ASSUME TypeOK, Settled, Honest, [Next]_vars PROVE Honest'
<1>t. pump \in Locals /\ proc \in Procs
  BY DEF TypeOK, Procs
<1>1. CASE Finish
  <2>1. proc.finish # "none" /\ ~proc.alive
    BY <1>1, Taken DEF FinishReady, Settled
  <2>2. Dying(pump) \in Locals
    BY <1>t, DyingTyped
  <2>3. pump'.payload = Payload /\ UNCHANGED <<proc.alive, proc.outcome>>
    BY <1>1, <1>t, <2>2 DEF Finish, Locals, Procs
  <2> QED
    BY <2>1, <2>3 DEF Honest, Payload
<1>2. CASE Exit
  <2>1. /\ proc.alive /\ ~proc'.alive /\ proc'.outcome \in {"clean", "failed"}
        /\ UNCHANGED pump
    BY <1>2, <1>t, EndingsAssumption DEF Exit, Process, Procs
  <2> QED
    BY <2>1 DEF Honest
<1>3. CASE ~Finish /\ ~Exit
  BY <1>3, NothingElseTells DEF Honest
<1> QED
  BY <1>1, <1>2, <1>3

LEMMA AlwaysHonest == Spec => [](TypeOK /\ Settled /\ Honest)
<1>1. Init => Honest
  BY DEF Init, Honest
<1>2. TypeOK /\ Settled /\ Honest /\ [Next]_vars => Honest'
  BY HonestStep
<1> QED
  BY <1>1, <1>2, AlwaysSettled, PTL DEF Spec

(***************************************************************************)
(* The refinement.                                                         *)
(***************************************************************************)
LEMMA Singleton ==
  /\ \A a, b : <<a>>[1] = a /\ [<<a>> EXCEPT ![1] = b] = <<b>>
  /\ Child!Children = {1}
BY DEF Child!Children

\* A step that leaves the phase and the outcome alone is nothing to the
\* supervisor, or hands the child its end.
LEMMA AskOrNot ==
  ASSUME UNCHANGED <<ChildPhase, proc.outcome, term>>, Asked => Asked'
  PROVE  [Child!ChildNext]_(Child!childVars)
<1>1. CASE Asked' = Asked
  BY <1>1 DEF Asked, Child!childVars
<1>2. CASE ~Asked /\ Asked'
  <2>1. Child!Ask(1)
    BY <1>2, Singleton DEF Child!Ask, Asked
  <2> QED
    BY <2>1, Singleton DEF Child!ChildNext
<1> QED
  BY <1>1, <1>2 DEF Asked

LEMMA SamePhase ==
  ASSUME UNCHANGED <<proc.alive, proc.piped, proc.outcome, pump.payload, pump.at,
                     pump.terminal_events, term>>,
         Asked => Asked'
  PROVE  [Child!ChildNext]_(Child!childVars)
<1>1. ChildPhase' = ChildPhase
  BY DEF ChildPhase, Gone, Told
<1> QED
  BY <1>1, AskOrNot

\* The other steps leave the requests alone.
LEMMA PhaseMoves ==
  ASSUME proc'.kill = proc.kill, pump'.hard_kill_at = pump.hard_kill_at,
         \/ /\ proc'.outcome \in {"clean", "failed"} /\ term' = term
            /\ ChildPhase = "running" /\ ChildPhase' \in {"orphaned", "exited"}
         \/ /\ proc'.outcome = proc.outcome /\ term' = term
            /\ ChildPhase = "orphaned" /\ ChildPhase' = "exited"
         \/ /\ proc'.outcome = proc.outcome /\ term = "none" /\ term' # "none"
            /\ ChildPhase \in {"orphaned", "exited"} /\ ChildPhase' = ChildPhase
         \/ /\ proc'.outcome = proc.outcome /\ term' = term /\ term # "none"
            /\ ChildPhase = "exited" /\ ChildPhase' \in {"delivered", "blank", "lost"}
  PROVE  Child!ChildNext
<1> USE Singleton DEF Child!ChildNext, Child!ChildStep
<1>1. CASE ChildPhase = "running"
  <2>1. Child!Exit(1)
    BY <1>1 DEF Child!Exit
  <2> QED
    BY <2>1
<1>2. CASE ChildPhase = "orphaned" /\ ChildPhase' = "exited"
  <2>1. Child!Disband(1)
    BY <1>2 DEF Child!Disband
  <2> QED
    BY <2>1
<1>3. CASE term = "none" /\ term' # "none" /\ ChildPhase' = ChildPhase
  <2>1. Child!Report(1)
    BY <1>3 DEF Child!Report
  <2> QED
    BY <2>1
<1>4. CASE term # "none" /\ ChildPhase' \in {"delivered", "blank"}
  <2>1. Child!Deliver(1)
    BY <1>4 DEF Child!Deliver, Child!Ending
  <2> QED
    BY <2>1
<1>5. CASE term # "none" /\ ChildPhase' = "lost"
  <2>1. Child!Lose(1)
    BY <1>5 DEF Child!Lose, Child!Ending
  <2> QED
    BY <2>1
<1> QED
  BY <1>1, <1>2, <1>3, <1>4, <1>5

LEMMA StepOfTheChild ==
  ASSUME TypeOK, Settled, Honest, [Next]_vars
  PROVE  [Child!ChildNext]_(Child!childVars)
<1>t. pump \in Locals /\ proc \in Procs
  BY DEF TypeOK, Procs
<1>h. ~proc.alive => Told \in {"delivered", "blank"}
  BY DEF Honest, Told
<1>s. /\ proc.finish # "none" => ~proc.alive
      /\ pump.finish_output # "none" => term # "none" /\ proc.finish # "none"
      /\ pump.at # "main" => ~proc.piped
      /\ pump.at \in {"cleanup", "flush", "gone"} => pump.finish_output # "none"
  BY DEF Settled
<1>k. ASSUME NEW result \in KillResults, KillAll(result)
      PROVE  /\ UNCHANGED <<proc.alive, proc.piped>>
             /\ proc'.kill # "none"
  BY <1>k, <1>t DEF KillAll, KillResults, Procs
<1>e. \A t \in Countdown : /\ [pump EXCEPT !.hard_kill_at = t] \in Locals
                           /\ [pump EXCEPT !.hard_kill_at = t].hard_kill_at = t
                           /\ [pump EXCEPT !.hard_kill_at = t].at = pump.at
                           /\ [pump EXCEPT !.hard_kill_at = t].terminal_events
                                = pump.terminal_events
  BY <1>t DEF Locals
<1>1. CASE Finish
  <2>1. /\ proc.finish # "none" /\ pump.at \in {"main", "drain"} /\ ~proc.alive
        /\ term' = proc.finish
    BY <1>1, <1>s, Taken DEF FinishReady, Finish
  <2>2. Dying(pump) \in Locals /\ Dying(pump).at = pump.at
        /\ Dying(pump).hard_kill_at = pump.hard_kill_at
    BY <1>t, DyingTyped
  <2>3. /\ pump'.at \in {"main", "drain", "cleanup"}
        /\ pump'.hard_kill_at = pump.hard_kill_at
    BY <1>1, <2>1, <2>2 DEF Finish, Locals
  <2>4. UNCHANGED <<proc.alive, proc.piped, proc.kill, proc.outcome>>
    BY <1>1, <1>t DEF Finish, Procs
  <2>5. ChildPhase \in {"orphaned", "exited"} /\ ChildPhase' = ChildPhase
    BY <2>1, <2>3, <2>4 DEF ChildPhase, Gone
  <2>6. CASE term = "none"
    BY <2>1, <2>3, <2>4, <2>5, <2>6, PhaseMoves
  <2>7. CASE term # "none"
    <3>1. <<term # "none">>' = <<term # "none">> /\ <<ChildPhase>>' = <<ChildPhase>>
      BY <2>1, <2>5, <2>7
    <3> QED
      BY <2>3, <2>4, <2>5, <3>1 DEF Child!childVars
  <2> QED
    BY <2>6, <2>7
<1>2. CASE Exit
  <2>1. /\ proc.alive /\ ~proc'.alive /\ proc'.outcome \in {"clean", "failed"}
        /\ UNCHANGED <<proc.piped, proc.kill, pump, term>>
    BY <1>2, <1>t, EndingsAssumption DEF Exit, Process, Procs
  <2>2. pump.at \notin {"flush", "gone"}
    BY <2>1, <1>s
  <2>3. ChildPhase = "running" /\ ChildPhase' \in {"orphaned", "exited"}
    BY <2>1, <2>2 DEF ChildPhase, Gone
  <2> QED
    BY <2>1, <2>3, PhaseMoves
\* What Terminated says stays from here on.
<1> SUFFICES ASSUME ~Finish, ~Exit PROVE [Child!ChildNext]_(Child!childVars)
  BY <1>1, <1>2
<1>u. UNCHANGED <<proc.alive, proc.outcome, pump.payload>>
  BY NothingElseTells
<1>3. CASE Abandon
  <2>1. UNCHANGED <<pump.at, pump.terminal_events, term>>
    BY <1>3, <1>t DEF Abandon, Locals
  <2>2. UNCHANGED <<proc.alive, proc.piped>> /\ Asked'
    BY <1>3, <1>k DEF Abandon, Asked
  <2> QED
    BY <2>1, <2>2, <1>u, SamePhase
<1>4. CASE RecvCtrl
  <2>1. CASE HandleKill(Head(ctrl))
    <3>1. Sooner \in Countdown /\ Off \in Countdown /\ Sooner # Off
      BY SoonerTyped, Countdowns DEF Countdown, Off
    <3>2. CASE pump' = Dying([pump EXCEPT !.hard_kill_at = Sooner]) /\ UNCHANGED proc
      <4>1. UNCHANGED <<pump.at, pump.terminal_events>> /\ pump'.hard_kill_at = Sooner
        BY <3>1, <3>2, <1>e, DyingTyped
      <4> QED
        BY <1>4, <3>1, <3>2, <4>1, <1>u, SamePhase DEF RecvCtrl, Asked
    <3>3. ASSUME NEW result \in KillResults, KillAll(result),
                 pump' = Dying([pump EXCEPT !.hard_kill_at = Off]) \/ pump' = Dying(pump)
          PROVE  [Child!ChildNext]_(Child!childVars)
      <4>1. UNCHANGED <<pump.at, pump.terminal_events>>
        <5>1. CASE pump' = Dying([pump EXCEPT !.hard_kill_at = Off])
          BY <5>1, <3>1, <1>e, DyingTyped
        <5>2. CASE pump' = Dying(pump)
          BY <5>2, <1>t, DyingTyped
        <5> QED
          BY <3>3, <5>1, <5>2
      <4>2. UNCHANGED <<proc.alive, proc.piped>> /\ Asked'
        BY <3>3, <1>k DEF Asked
      <4> QED
        BY <1>4, <4>1, <4>2, <1>u, SamePhase DEF RecvCtrl
    <3> QED
      BY <2>1, <3>2, <3>3 DEF HandleKill
  <2>2. CASE (pump' = [pump EXCEPT !.ctrl_open = FALSE] \/ UNCHANGED pump)
             /\ UNCHANGED <<proc, term>>
    <3>1. UNCHANGED <<pump.at, pump.terminal_events, pump.hard_kill_at>>
      BY <2>2, <1>t DEF Locals
    <3> QED
      BY <2>2, <3>1, <1>u, SamePhase DEF Asked
  <2> QED
    BY <1>4, <2>1, <2>2 DEF RecvCtrl
<1>5. CASE HardKill
  <2>1. UNCHANGED <<pump.at, pump.terminal_events>>
    <3>1. [pump EXCEPT !.hard_kill_at = Off] \in Locals
      BY <1>e, Countdowns
    <3>2. pump' = Dying([pump EXCEPT !.hard_kill_at = Off])
      BY <1>5 DEF HardKill
    <3> QED
      BY <3>1, <3>2, <1>e, DyingTyped, Countdowns
  <2>2. UNCHANGED <<proc.alive, proc.piped>> /\ Asked'
    BY <1>5, <1>k DEF HardKill, Asked
  <2> QED
    BY <1>5, <2>1, <2>2, <1>u, SamePhase DEF HardKill
<1>6. CASE \/ DropPending \/ SendPending \/ CloseEvents \/ FlushGivesUp
  <2>1. UNCHANGED <<pump.at, pump.terminal_events, pump.hard_kill_at, proc, term>>
    BY <1>6, <1>t DEF DropPending, SendPending, CloseEvents, FlushGivesUp, Locals
  <2> QED
    BY <2>1, <1>u, SamePhase DEF Asked
<1>7. CASE ReadLine
  <2>1. UNCHANGED <<pump.at, pump.terminal_events, pump.hard_kill_at, term>>
    BY <1>7, <1>t DEF ReadLine, Locals
  <2>2. UNCHANGED <<proc.alive, proc.piped, proc.kill>>
    BY <1>7, <1>t DEF ReadLine, Procs
  <2> QED
    BY <2>1, <2>2, <1>u, SamePhase DEF Asked
<1>8. CASE EndOfOutput
  <2>1. /\ pump.at = "main" /\ pump'.at \in {"drain", "cleanup"}
        /\ UNCHANGED <<pump.hard_kill_at, proc, term>>
    BY <1>8, <1>t, Taken DEF EndOfOutput, AfterOutput, Locals
  <2>2. ChildPhase' = ChildPhase
    BY <2>1 DEF ChildPhase, Gone
  <2> QED
    BY <2>1, <2>2, <1>u, AskOrNot DEF Asked
<1>9. CASE Cleanup
  <2>1. /\ pump.at = "cleanup" /\ pump'.at = "flush"
        /\ UNCHANGED <<pump.hard_kill_at, proc, term>>
    BY <1>9, <1>t DEF Cleanup, Locals
  <2>2. /\ ~proc.alive /\ term # "none"
        /\ ChildPhase = "exited" /\ ChildPhase' \in {"exited", "delivered", "blank"}
    BY <2>1, <1>s, <1>h, <1>u DEF ChildPhase, Gone, Told
  <2>3. CASE ChildPhase' = "exited"
    BY <2>1, <2>2, <2>3, <1>u, AskOrNot DEF Asked
  <2>4. CASE ChildPhase' \in {"delivered", "blank"}
    BY <2>1, <2>2, <2>4, <1>u, PhaseMoves
  <2> QED
    BY <2>2, <2>3, <2>4
<1>10. CASE FlushSend
  <2>1. /\ pump.at = "flush" /\ pump.terminal_events # <<>> /\ pump'.at = "flush"
        /\ UNCHANGED <<pump.hard_kill_at, proc, term>>
    BY <1>10, <1>t, Taken DEF FlushSend, Locals
  <2>2. /\ ~proc.alive /\ term # "none"
        /\ ChildPhase = "exited" /\ ChildPhase' \in {"exited", "delivered", "blank"}
    BY <2>1, <1>s, <1>h, <1>u DEF ChildPhase, Gone, Told
  <2>3. CASE ChildPhase' = "exited"
    BY <2>1, <2>2, <2>3, <1>u, AskOrNot DEF Asked
  <2>4. CASE ChildPhase' \in {"delivered", "blank"}
    BY <2>1, <2>2, <2>4, <1>u, PhaseMoves
  <2> QED
    BY <2>2, <2>3, <2>4
<1>11. CASE Return
  <2>1. /\ pump.at = "flush" /\ pump'.at = "gone"
        /\ UNCHANGED <<pump.terminal_events, pump.hard_kill_at, proc, term>>
    BY <1>11, <1>t DEF Return, Locals
  <2>2. ~proc.alive /\ ~proc.piped /\ term # "none"
    BY <2>1, <1>s
  <2>3. CASE pump.terminal_events = <<>>
    <3>1. ChildPhase' = ChildPhase
      BY <2>1, <2>2, <2>3, <1>u DEF ChildPhase, Gone, Told
    <3> QED
      BY <2>1, <3>1, <1>u, AskOrNot DEF Asked
  <2>4. CASE pump.terminal_events # <<>>
    <3>1. ChildPhase = "exited" /\ ChildPhase' = "lost"
      BY <2>1, <2>2, <2>4 DEF ChildPhase, Gone
    <3> QED
      BY <2>1, <2>2, <3>1, <1>u, PhaseMoves
  <2> QED
    BY <2>3, <2>4
<1>12. CASE Tick
  <2>1. UNCHANGED <<pump.at, pump.terminal_events, proc, term>>
    BY <1>12, <1>t DEF Tick, Locals
  <2>2. pump'.hard_kill_at = Less(pump.hard_kill_at)
    BY <1>12, <1>t DEF Tick, Locals
  <2>3. pump.hard_kill_at # Off => pump'.hard_kill_at # Off
    BY <2>2, <1>t DEF Less, Locals, Countdown, Off
  <2> QED
    BY <2>1, <2>3, <1>u, SamePhase DEF Asked
<1>13. CASE Write \/ FinishResolves
  <2>1. UNCHANGED <<proc.alive, proc.piped, proc.kill, pump, term>>
    BY <1>13, <1>t DEF Write, FinishResolves, Process, Procs
  <2> QED
    BY <2>1, <1>u, SamePhase DEF Asked
<1>14. CASE ClosePipes
  <2>1. /\ proc.piped /\ ~proc'.piped
        /\ UNCHANGED <<proc.alive, proc.kill, pump, term>>
    BY <1>14, <1>t DEF ClosePipes, Process, Procs
  <2>2. pump.at = "main"
    BY <2>1, <1>s
  <2>3. CASE proc.alive
    <3>1. ChildPhase' = ChildPhase
      BY <2>1, <2>3 DEF ChildPhase
    <3> QED
      BY <2>1, <3>1, <1>u, AskOrNot DEF Asked
  <2>4. CASE ~proc.alive
    <3>1. ChildPhase = "orphaned" /\ ChildPhase' = "exited"
      BY <2>1, <2>2, <2>4 DEF ChildPhase, Gone
    <3> QED
      BY <2>1, <2>4, <3>1, <1>u, PhaseMoves
  <2> QED
    BY <2>3, <2>4
<1>15. CASE UNCHANGED <<pump, proc, term>>
  BY <1>15, <1>u, SamePhase DEF Asked
<1>16. \/ Pump \/ Tick \/ Write \/ FinishResolves \/ Exit \/ ClosePipes
       \/ UNCHANGED <<pump, proc, term>>
  BY DEF Next, StdinWriter, WriterTakes, WriteSucceeds, WriteFails, WriterEnds, Writer,
     Receive, CloseReceiver, DropHandles, SendWrite, WriteIsDropped, WriteGoes, Send,
     ReplyIsDropped, Answer, CallGoes, Finished, vars
<1> QED
  BY <1>3, <1>4, <1>5, <1>6, <1>7, <1>8, <1>9, <1>10, <1>11, <1>12, <1>13, <1>14, <1>15,
     <1>16 DEF Pump

\* Every step of the pump and of what surrounds it is a step of the child the
\* supervisor is written against: the outcome is published after the exit, and the
\* channel ends after that, without Terminated, or with one that says how the child
\* exited, or with one that says nothing (engine.rs 124-145, 327-543).
THEOREM ImplementsChildHolds == Spec => ImplementsChild
<1>1. TypeOK /\ Settled /\ Honest /\ [Next]_vars => [Child!ChildNext]_(Child!childVars)
  BY StepOfTheChild
<1> QED
  BY <1>1, AlwaysHonest, PTL DEF Spec, ImplementsChild
=============================================================================
