----------------------------- MODULE ProcessPump -----------------------------
(***************************************************************************)
(* The two tasks behind one child: pump() and write_stdin() of             *)
(* process/engine.rs, with the ProcessHandle calls that reach them         *)
(* (process/handle.rs), the receiver of the events and the process tree.   *)
(*                                                                         *)
(* Output lines are alike: only their number matters, because what has to  *)
(* be right is that the pump loses none without accounting for it.  What   *)
(* the ring in front of it evicts, and a lone blank line at the end of     *)
(* stderr, never reaches it.  The writes to stdin are numbered in the      *)
(* order of their requests.  Time is a countdown per armed deadline.       *)
(* processkit is external: finish() may resolve once the direct child has  *)
(* exited and does once the pipes are closed too.                          *)
(***************************************************************************)
EXTENDS Integers, Sequences

CONSTANTS
  Callers,    \* tasks that call kill or graceful_kill, once each
  Capacity,   \* event_channel_capacity
  Ring,       \* lines the output ring holds, 256 KiB in the code
  Grace,      \* kill_grace, in ticks
  HasTimeout, Timeout,   \* the timeout of the command, in ticks
  Stall,      \* DYING_EVENT_STALL, in ticks
  PipeStdin,       \* the command pipes stdin (and the pipe could be taken)
  StdinCapacity,   \* room in the queue of writes, 64 in the code
  KillMayFail,     \* kill_all may report an error
  Endings,    \* how the child may exit
  MaxTraffic  \* bound of the model: lines the tree writes and calls of write_stdin

ASSUME PumpAssumption ==
  /\ Capacity \in Nat \ {0}      \* cap.max(1)
  /\ Ring \in Nat \ {0}
  /\ Grace \in Nat /\ Stall \in Nat /\ Timeout \in Nat /\ HasTimeout \in BOOLEAN
  /\ PipeStdin \in BOOLEAN /\ StdinCapacity \in Nat \ {0} /\ KillMayFail \in BOOLEAN
  /\ MaxTraffic \in Nat
  /\ Callers \cap Nat = {}

ASSUME EndingsAssumption == Endings \subseteq {"clean", "failed"}

VARIABLES
  pump,      \* the locals of pump() and where it is
  term,      \* the watch of the outcome: "none", "ok" or "err"
  pid_file,  \* the pid file is published
  ev,        \* the event channel
  rx,        \* its receiver, and what it got out of it
  ctrl,      \* queued requests: a caller, or the number of a write
  handles,   \* some ProcessHandle still exists
  call,      \* per caller: how its call is going
  kind,      \* per caller: what it called
  write,     \* how each write goes, in the order of the requests
  stdin,     \* the locals of the task write_stdin() and its queue
  proc       \* the process tree and its pipes

input == <<write, stdin>>
vars == <<pump, term, pid_file, ev, rx, ctrl, handles, call, kind, input, proc>>

Off == -1
Countdown == Nat \cup {Off}
Kills == {"kill", "graceful_kill"}
Numbers == Nat \ {0}
NoWrite == 0
EventKinds == {"line", "lost", "error", "terminated"}
Outcomes == {"none", "ok", "err"}
Exits == {"unknown", "clean", "failed"}    \* "clean" is exit code 0

Locals ==
  [at : {"main", "drain", "cleanup", "flush", "gone"},
   finish_output : Outcomes,
   payload : Exits,               \* what Terminated will say
   pending_event : BOOLEAN,       \* a line waits for room in the channel
   hard_kill_at : Countdown, drop_pending_at : Countdown, flush_deadline : Countdown,
   events_open : BOOLEAN, ctrl_open : BOOLEAN, dying : BOOLEAN,
   drop_output : BOOLEAN, abandoned : BOOLEAN,
   dropped_output_events : Nat,
   stderr_tail : Nat,             \* lines finish() drained before next() saw them
   terminal_events : Seq(EventKinds)]

TypeOK ==
  /\ pump \in Locals /\ term \in Outcomes /\ pid_file \in BOOLEAN
  /\ ev \in Seq(EventKinds) /\ ctrl \in Seq(Callers \cup Numbers) /\ handles \in BOOLEAN
  /\ rx \in [open : BOOLEAN, got : Nat, reported : Nat, ended : BOOLEAN]
  /\ call \in [Callers -> {"idle", "queued", "replied", "ok", "err", "already_exited"}]
  /\ kind \in [Callers -> Kills \cup {"none"}]
  \* "refused" and "broken" are the same error; a broken write was accepted.
  /\ write \in Seq({"queued", "accepted", "ok", "refused", "broken"})
  /\ stdin \in [tx : BOOLEAN,     \* stdin_tx, held by the pump
                queue : Seq(Numbers), open : BOOLEAN,
                hand : Nat,       \* the write in progress
                ended : BOOLEAN]
  /\ proc \in [alive : BOOLEAN,   \* the direct child
               piped : BOOLEAN,   \* it or a descendant holds the pipes
               kill : {"none", "failed", "sent"},   \* what kill_all has done
               outcome : Exits,   \* how it exited
               finish : Outcomes,
               pipe : Nat,        \* lines in the ring, not read yet
               written : Nat,
               missed : Nat]      \* lines nobody hands to the pump

Init ==
  /\ pump = [at |-> "main", finish_output |-> "none", payload |-> "unknown",
             pending_event |-> FALSE,
             hard_kill_at |-> IF HasTimeout THEN Timeout ELSE Off,
             drop_pending_at |-> Off, flush_deadline |-> Off,
             events_open |-> TRUE, ctrl_open |-> TRUE, dying |-> FALSE,
             drop_output |-> FALSE, abandoned |-> FALSE, dropped_output_events |-> 0,
             stderr_tail |-> 0, terminal_events |-> <<>>]
  /\ term = "none" /\ pid_file = TRUE
  /\ ev = <<>> /\ rx = [open |-> TRUE, got |-> 0, reported |-> 0, ended |-> FALSE]
  /\ ctrl = <<>> /\ handles = TRUE
  /\ call = [c \in Callers |-> "idle"] /\ kind = [c \in Callers |-> "none"]
  /\ write = <<>>
  /\ stdin = [tx |-> PipeStdin, queue |-> <<>>, open |-> PipeStdin, hand |-> NoWrite,
              ended |-> ~PipeStdin]
  /\ proc = [alive |-> TRUE, piped |-> TRUE, kill |-> "none", outcome |-> "unknown",
             finish |-> "none", pipe |-> 0, written |-> 0, missed |-> 0]

Gone == ~proc.alive /\ ~proc.piped

(***************************************************************************)
(* What the branches of the three select! wait for.  Each select! is       *)
(* biased: a branch is taken when no earlier one is ready.                 *)
(***************************************************************************)
InMainOnly == /\ ~pump.events_open /\ ~pump.ctrl_open /\ ~pump.abandoned   \* mutant
              /\ pump.at = "main"
Abandoning == ~pump.events_open /\ ~pump.ctrl_open /\ ~pump.abandoned   \* before select!
CtrlReady == pump.ctrl_open /\ (ctrl # <<>> \/ ~handles)
KillDue == pump.hard_kill_at = 0
FinishReady == pump.finish_output = "none" /\ proc.finish # "none"
DropDue ==
  pump.dying /\ ~pump.drop_output /\ pump.pending_event /\ pump.drop_pending_at = 0
HasPermit == rx.open /\ Len(ev) < Capacity
SendReady == pump.events_open /\ pump.pending_event /\ ~pump.drop_output /\ HasPermit
CloseReady == pump.events_open /\ ~rx.open
NextReady == ~pump.pending_event /\ (proc.pipe > 0 \/ ~proc.piped)

First(ready, branch) == ready[branch] /\ \A b \in 1 .. branch - 1 : ~ready[b]

Main(branch) ==
  /\ pump.at = "main"
  /\ First(<<Abandoning, CtrlReady, KillDue, FinishReady, DropDue, SendReady,
             CloseReady, NextReady>>, branch)
Drain(branch) ==
  /\ pump.at = "drain"
  /\ First(<<Abandoning, CtrlReady, KillDue, CloseReady, FinishReady>>, branch)
Flush(branch) ==
  /\ pump.at = "flush" /\ pump.events_open /\ pump.terminal_events # <<>>
  /\ First(<<CtrlReady, KillDue, CloseReady, HasPermit, pump.flush_deadline = 0>>, branch)

(***************************************************************************)
(* The branches.                                                           *)
(***************************************************************************)
KillResults == IF KillMayFail THEN {"sent", "failed"} ELSE {"sent"}
\* A tree that was sent SIGKILL stays killed.
KillAll(result) == proc' = [proc EXCEPT !.kill = IF @ = "sent" THEN @ ELSE result]

NeverArms(p) == p.drop_pending_at                             \* mutant
\* A line that waits when the child starts dying may stall it only so long.
ArmDrop(p) ==
  IF p.pending_event /\ p.drop_pending_at = Off THEN Stall ELSE p.drop_pending_at

\* In the main loop a kill, a deadline and the exit make the pump "dying".
Dying(p) ==
  IF p.at = "main" THEN [p EXCEPT !.dying = TRUE, !.drop_pending_at = ArmDrop(p)] ELSE p

\* Both halves of the owner are gone: nobody can stop this child any more.
Abandon ==
  /\ Main(1) \/ Drain(1)
  /\ pump' = [pump EXCEPT !.abandoned = TRUE, !.hard_kill_at = Off,
                          !.dying = @ \/ pump.at = "main"]
  /\ \E result \in KillResults : KillAll(result)      \* the error is ignored
  /\ UNCHANGED <<term, pid_file, ev, rx, ctrl, handles, call, kind, input>>

Restarted == Grace                                            \* mutant
OnlyIfArmed ==                                                \* mutant
  IF pump.hard_kill_at # Off /\ Grace < pump.hard_kill_at THEN Grace ELSE pump.hard_kill_at
\* A grace period never postpones a deadline in force.
Sooner ==
  IF pump.hard_kill_at = Off \/ Grace < pump.hard_kill_at THEN Grace ELSE pump.hard_kill_at

\* handle_ctrl, kill and graceful_kill: an error is the reply, and the call
\* returns it.  SIGTERM may fail, and then the tree is killed at once.
Reply(c, result) ==
  call' = [call EXCEPT ![c] = IF result = "failed" THEN "err" ELSE "replied"]

HandleKill(c) ==
  \/ /\ kind[c] = "graceful_kill"
     /\ pump' = Dying([pump EXCEPT !.hard_kill_at = Sooner])
     /\ Reply(c, "sent") /\ UNCHANGED proc
  \/ \E result \in KillResults :
       /\ pump' = Dying(IF kind[c] = "kill" THEN [pump EXCEPT !.hard_kill_at = Off]
                                          ELSE pump)
       /\ KillAll(result) /\ Reply(c, result)

InTurn == stdin.tx => stdin.hand = NoWrite /\ stdin.queue = <<>>  \* mutant: in the pump
\* try_send comes back at once.
TrySendReturns == TRUE

\* handle_ctrl, write_stdin.
HandleWrite(w) ==
  /\ TrySendReturns
  /\ \/ /\ stdin.tx /\ stdin.open /\ Len(stdin.queue) < StdinCapacity
        /\ stdin' = [stdin EXCEPT !.queue = Append(@, w)]
        /\ write' = [write EXCEPT ![w] = "accepted"]
     \/ /\ ~stdin.tx \/ ~stdin.open \/ Len(stdin.queue) >= StdinCapacity
        /\ write' = [write EXCEPT ![w] = "refused"] /\ UNCHANGED stdin

RecvCtrl ==
  /\ Main(2) \/ Drain(2) \/ Flush(1)
  /\ \/ /\ ctrl # <<>> /\ ctrl' = Tail(ctrl)
        /\ \/ Head(ctrl) \in Callers /\ HandleKill(Head(ctrl)) /\ UNCHANGED input
           \/ Head(ctrl) \in Numbers /\ HandleWrite(Head(ctrl)) /\ UNCHANGED <<pump, call, proc>>
     \/ /\ ctrl = <<>>
        /\ pump' = [pump EXCEPT !.ctrl_open = FALSE]
        /\ UNCHANGED <<ctrl, call, input, proc>>
  /\ UNCHANGED <<term, pid_file, ev, rx, handles, kind>>

HardKill ==
  /\ Main(3) \/ Drain(3) \/ Flush(2)
  /\ pump' = Dying([pump EXCEPT !.hard_kill_at = Off])
  /\ \E result \in KillResults : KillAll(result)      \* the error is ignored
  /\ UNCHANGED <<term, pid_file, ev, rx, ctrl, handles, call, kind, input>>

\* An error of finish() leaves neither an exit code nor a signal.
Payload == IF proc.finish = "ok" THEN proc.outcome ELSE "unknown"

\* split_stderr_tail takes a lone blank line for none.
Split(tail) == IF tail = 1 THEN {0, 1} ELSE {tail}

\* The outcome is published at once, before the output is drained; finish()
\* may have drained lines of stderr that next() will not see any more.
Finish ==
  /\ Main(4) \/ Drain(5)
  /\ \E tail \in 0 .. proc.pipe : \E kept \in Split(tail) :
       /\ proc.finish = "err" => tail = 0
       /\ pump' = [Dying(pump) EXCEPT !.finish_output = proc.finish, !.payload = Payload,
                                      !.stderr_tail = kept,
                                      !.at = IF @ = "drain" THEN "cleanup" ELSE @]
       /\ proc' = [proc EXCEPT !.pipe = @ - tail, !.missed = @ + (tail - kept)]
  /\ term' = proc.finish
  /\ UNCHANGED <<pid_file, ev, rx, ctrl, handles, call, kind, input>>

CountedDown == pump.dropped_output_events - 1                 \* mutant
Counted == pump.dropped_output_events + 1

DropPending ==
  /\ Main(5)
  /\ pump' = [pump EXCEPT !.drop_pending_at = Off, !.pending_event = FALSE,
                          !.dropped_output_events = Counted, !.drop_output = TRUE]
  /\ UNCHANGED <<term, pid_file, ev, rx, ctrl, handles, call, kind, input, proc>>

SendPending ==
  /\ Main(6)
  /\ ev' = Append(ev, "line")
  /\ pump' = [pump EXCEPT !.pending_event = FALSE, !.drop_pending_at = Off]
  /\ UNCHANGED <<term, pid_file, rx, ctrl, handles, call, kind, input, proc>>

\* The receiver is gone: closed() resolves, or reserve() fails.
CloseEvents ==
  /\ Main(7) \/ Drain(4) \/ Flush(3)
  /\ pump' = [pump EXCEPT !.events_open = FALSE,
                          !.pending_event = @ /\ pump.at # "main",
                          !.drop_pending_at = IF pump.at = "main" THEN Off ELSE @]
  /\ UNCHANGED <<term, pid_file, ev, rx, ctrl, handles, call, kind, input, proc>>

\* A line is dropped, offered to the receiver, or of no interest to anybody.
ReadLine ==
  /\ Main(8) /\ proc.pipe > 0
  /\ proc' = [proc EXCEPT !.pipe = @ - 1]
  /\ pump' = IF pump.drop_output
             THEN [pump EXCEPT !.dropped_output_events = Counted]
             ELSE [pump EXCEPT !.pending_event = pump.events_open,
                               !.drop_pending_at =
                                  IF pump.events_open /\ pump.dying THEN Stall ELSE @]
  /\ UNCHANGED <<term, pid_file, ev, rx, ctrl, handles, call, kind, input>>

SkipsDrain == "cleanup"                                       \* mutant
AfterOutput == IF pump.finish_output = "none" THEN "drain" ELSE "cleanup"

\* The pipes can close while the child lives on: the drain loop waits for it.
EndOfOutput ==
  /\ Main(8) /\ proc.pipe = 0
  /\ pump' = [pump EXCEPT !.at = AfterOutput]
  /\ UNCHANGED <<term, pid_file, ev, rx, ctrl, handles, call, kind, input, proc>>

When(condition, event) == IF condition THEN <<event>> ELSE <<>>

TailLast ==                                                   \* mutant
  When(pump.dropped_output_events > 0, "lost") \o <<"terminated">>
    \o [i \in 1 .. pump.stderr_tail |-> "line"]
TerminalEvents ==
  [i \in 1 .. pump.stderr_tail |-> "line"]
    \o When(pump.dropped_output_events > 0, "lost")
    \o When(pump.finish_output = "err", "error") \o <<"terminated">>

Cleanup ==
  /\ pump.at = "cleanup"
  /\ pid_file' = FALSE
  /\ pump' = [pump EXCEPT !.at = "flush", !.terminal_events = TerminalEvents,
                          !.stderr_tail = 0, !.flush_deadline = Stall]
  /\ UNCHANGED <<term, ev, rx, ctrl, handles, call, kind, input, proc>>

FlushSend ==
  /\ Flush(4)
  /\ ev' = Append(ev, Head(pump.terminal_events))
  /\ pump' = [pump EXCEPT !.terminal_events = Tail(@), !.flush_deadline = Stall]
  /\ UNCHANGED <<term, pid_file, rx, ctrl, handles, call, kind, input, proc>>

FlushGivesUp ==
  /\ Flush(5)
  /\ pump' = [pump EXCEPT !.events_open = FALSE]
  /\ UNCHANGED <<term, pid_file, ev, rx, ctrl, handles, call, kind, input, proc>>

\* pump() returns and drops its ends of the channels.
Return ==
  /\ pump.at = "flush" /\ (~pump.events_open \/ pump.terminal_events = <<>>)
  /\ pump' = [pump EXCEPT !.at = "gone"]
  /\ stdin' = [stdin EXCEPT !.tx = FALSE]
  /\ UNCHANGED <<term, pid_file, ev, rx, ctrl, handles, call, kind, write, proc>>

Pump ==
  \/ Abandon \/ RecvCtrl \/ HardKill \/ Finish \/ DropPending \/ SendPending
  \/ CloseEvents \/ ReadLine \/ EndOfOutput \/ Cleanup \/ FlushSend \/ FlushGivesUp
  \/ Return

(***************************************************************************)
(* The task write_stdin().  A write waits while the child does not read    *)
(* and fails once its pipe is broken: the child closed it, or is gone.     *)
(***************************************************************************)
Writer ==
  /\ ~stdin.ended
  /\ UNCHANGED <<pump, term, pid_file, ev, rx, ctrl, handles, call, kind, proc>>

WriterTakes ==
  /\ Writer
  /\ stdin.hand = NoWrite /\ stdin.queue # <<>>
  /\ stdin' = [stdin EXCEPT !.hand = Head(stdin.queue), !.queue = Tail(@)]
  /\ UNCHANGED write

WriteSucceeds ==
  /\ Writer
  /\ stdin.hand # NoWrite /\ ~Gone
  /\ write' = [write EXCEPT ![stdin.hand] = "ok"]
  /\ stdin' = [stdin EXCEPT !.hand = NoWrite]

OnlyInHand == {stdin.hand}                                    \* mutant
InHandAndQueued == {stdin.hand} \cup {stdin.queue[i] : i \in DOMAIN stdin.queue}

GoesOn == [stdin EXCEPT !.hand = NoWrite]                     \* mutant
GivesUp == [stdin EXCEPT !.hand = NoWrite, !.queue = <<>>, !.open = FALSE, !.ended = TRUE]

\* The queue is closed before it is drained: nothing is accepted in between.
WriteFails ==
  /\ Writer
  /\ stdin.hand # NoWrite
  /\ write' = [w \in DOMAIN write |-> IF w \in InHandAndQueued THEN "broken" ELSE write[w]]
  /\ stdin' = GivesUp

\* The queue is empty and its sender is gone with the pump.
WriterEnds ==
  /\ Writer
  /\ stdin.hand = NoWrite /\ stdin.queue = <<>> /\ ~stdin.tx
  /\ stdin' = [stdin EXCEPT !.open = FALSE, !.ended = TRUE]
  /\ UNCHANGED write

StdinWriter == WriterTakes \/ WriteSucceeds \/ WriteFails \/ WriterEnds

(***************************************************************************)
(* Time and the process tree.                                              *)
(***************************************************************************)
Less(t) == IF t > 0 THEN t - 1 ELSE t

Tick ==
  /\ pump' = [pump EXCEPT !.hard_kill_at = Less(@), !.drop_pending_at = Less(@),
                          !.flush_deadline = Less(@)]
  /\ pump' # pump
  /\ UNCHANGED <<term, pid_file, ev, rx, ctrl, handles, call, kind, input, proc>>

Process(update) ==
  /\ proc' = update
  /\ UNCHANGED <<pump, term, pid_file, ev, rx, ctrl, handles, call, kind, input>>

MoreTraffic == proc.written + Len(write) < MaxTraffic

\* A full ring, in front of a pump that waits for its receiver or is late, evicts its
\* oldest line and tells nobody.
Write ==
  /\ proc.piped /\ MoreTraffic
  /\ Process(IF proc.pipe < Ring THEN [proc EXCEPT !.written = @ + 1, !.pipe = @ + 1]
                                ELSE [proc EXCEPT !.written = @ + 1, !.missed = @ + 1])
Exit ==
  /\ proc.alive
  /\ \E o \in Endings : Process([proc EXCEPT !.alive = FALSE, !.outcome = o])
ClosePipes == proc.piped /\ Process([proc EXCEPT !.piped = FALSE])
FinishResolves ==
  /\ ~proc.alive /\ proc.finish = "none"
  /\ \E o \in {"ok", "err"} : Process([proc EXCEPT !.finish = o])

(***************************************************************************)
(* The users.                                                              *)
(***************************************************************************)
Receive ==
  /\ rx.open /\ ev # <<>>
  /\ ev' = Tail(ev)
  /\ rx' = CASE Head(ev) = "line" -> [rx EXCEPT !.got = @ + 1]
             [] Head(ev) = "lost" -> [rx EXCEPT !.reported = pump.dropped_output_events]
             [] Head(ev) = "terminated" -> [rx EXCEPT !.ended = TRUE]
             [] OTHER -> rx
  /\ UNCHANGED <<pump, term, pid_file, ctrl, handles, call, kind, input, proc>>

CloseReceiver ==
  /\ rx.open
  /\ rx' = [rx EXCEPT !.open = FALSE] /\ ev' = <<>>
  /\ UNCHANGED <<pump, term, pid_file, ctrl, handles, call, kind, input, proc>>

\* A kill borrows its handle; who waits for a write may have given up.
DropHandles ==
  /\ handles /\ \A c \in Callers : call[c] \notin {"queued", "replied"}
  /\ handles' = FALSE
  /\ UNCHANGED <<pump, term, pid_file, ev, rx, ctrl, call, kind, input, proc>>

CallGoes(c, from, to) ==
  /\ call[c] = from /\ call' = [call EXCEPT ![c] = to]
  /\ UNCHANGED <<pump, term, pid_file, ev, rx, handles, input, proc>>

ForgetsTheWatch(c) == "already_exited"                       \* mutant
\* send_ctrl finds the pump gone, before or after it queued the request; a
\* kill that finds the outcome goes on to wait(), which returns it.
Rejected(c) == IF term = "none" THEN "already_exited" ELSE term

Send(c) ==
  /\ handles
  /\ \E k \in Kills : kind' = [kind EXCEPT ![c] = k]
  /\ \/ pump.at # "gone" /\ CallGoes(c, "idle", "queued") /\ ctrl' = Append(ctrl, c)
     \/ pump.at = "gone" /\ CallGoes(c, "idle", Rejected(c)) /\ UNCHANGED ctrl

ReplyIsDropped(c) ==
  /\ pump.at = "gone" /\ CallGoes(c, "queued", Rejected(c))
  /\ UNCHANGED <<ctrl, kind>>

\* kill and graceful_kill wait for the outcome.
Answer(c) ==
  /\ term # "none"
  /\ CallGoes(c, "replied", term)
  /\ UNCHANGED <<ctrl, kind>>

WriteGoes(update) ==
  /\ write' = update
  /\ UNCHANGED <<pump, term, pid_file, ev, rx, handles, call, kind, stdin, proc>>

SendWrite ==
  /\ handles /\ MoreTraffic
  /\ \/ /\ pump.at # "gone"
        /\ WriteGoes(Append(write, "queued")) /\ ctrl' = Append(ctrl, Len(write) + 1)
     \/ pump.at = "gone" /\ WriteGoes(Append(write, "refused")) /\ UNCHANGED ctrl

\* The receiver of the requests is dropped with those still in it.
WriteIsDropped(w) ==
  /\ pump.at = "gone" /\ write[w] = "queued"
  /\ WriteGoes([write EXCEPT ![w] = "refused"]) /\ UNCHANGED ctrl

Finished == pump.at = "gone" /\ UNCHANGED vars

Next ==
  \/ Pump \/ StdinWriter \/ Tick \/ Write \/ Exit \/ ClosePipes \/ FinishResolves
  \/ Receive \/ CloseReceiver \/ DropHandles
  \/ SendWrite \/ \E w \in DOMAIN write : WriteIsDropped(w)
  \/ \E c \in Callers : Send(c) \/ ReplyIsDropped(c) \/ Answer(c)
  \/ Finished

\* The tasks and the callers are scheduled and time passes; a killed tree dies,
\* a write to nobody fails, and finish() resolves once the pipes are closed.  The
\* receiver owes nothing, and a living child need not read its stdin.
Fairness ==
  /\ WF_vars(Pump) /\ WF_vars(Tick)
  /\ WF_vars(WriterTakes \/ WriterEnds) /\ WF_vars(Gone /\ WriteFails)
  /\ WF_vars(\E w \in DOMAIN write : WriteIsDropped(w))
  /\ WF_vars(proc.kill = "sent" /\ Exit) /\ WF_vars(proc.kill = "sent" /\ ClosePipes)
  /\ WF_vars(~proc.piped /\ FinishResolves)
  /\ \A c \in Callers : WF_vars(ReplyIsDropped(c) \/ Answer(c))

Spec == Init /\ [][Next]_vars
FairSpec == Spec /\ Fairness
=============================================================================
