------------------------------- MODULE MCPump -------------------------------
(***************************************************************************)
(* The properties of ProcessPump.tla and its small instances for TLC.      *)
(***************************************************************************)
EXTENDS ProcessPump, TLC

\* The callers are interchangeable.
CallersAlike == Permutations(Callers)

\* When the receiver takes Terminated it has every line the pump was ever handed, or
\* has been told how many are missing: lines waiting in the ring, in the pump, in the
\* channel, in finish()'s stderr or dropped while dying, each is received or reported
\* once and nothing follows Terminated.  Missed, and told to nobody, are only the
\* lines a full ring evicted and a lone blank line that finish() drained
\* (engine.rs 55, 119-132, 400-446, 493-541, command.rs 97-99, 137-144).
EverythingBeforeTerminated ==
  rx.ended => rx.got + rx.reported + proc.missed = proc.written

\* The pid file is removed only when the child has exited, its outcome is
\* published and its pipes are closed, also when the child closed its output
\* and lives on (engine.rs 445-491).
PidFileOutlivesTheChild == ~pid_file => Gone /\ term # "none"

\* A kill that races the end of the pump returns the outcome and never
\* AlreadyExited, whether the request was queued or refused
\* (handle.rs 77-99, engine.rs 387-399).
NeverAlreadyExited == \A c \in Callers : call[c] # "already_exited"

\* A deadline in force is never cancelled or moved later, except by killing the
\* tree: a graceful kill cannot extend the timeout of the command
\* (engine.rs 196-204).
NeverPostponed ==
  [][pump.hard_kill_at # Off =>
       \/ pump'.hard_kill_at \in 0 .. pump.hard_kill_at
       \/ pump'.hard_kill_at = Off /\ proc'.kill # "none"]_vars

\* A write that broke off is never followed by one that reaches the child: what
\* the child reads has no hole that its sender was not told of before the next
\* bytes went out, although more writes were queued behind the broken one
\* (engine.rs 164-176).
NoHoleInStdin ==
  \A v, w \in DOMAIN write : v < w /\ write[v] = "broken" => write[w] # "ok"

(***************************************************************************)
(* The pump implements the contract the supervisor is written against.     *)
(* Terminated is delivered when the pump put it into the channel; it says  *)
(* how the child exited, or nothing.                                       *)
(***************************************************************************)
Told ==
  CASE pump.payload = "unknown" -> "blank"
    [] pump.payload # "unknown" /\ pump.payload = proc.outcome -> "delivered"
    [] OTHER -> "none"

ChildPhase ==
  CASE proc.alive -> "running"
    [] ~proc.alive /\ proc.piped -> "orphaned"
    [] Gone /\ pump.at \in {"flush", "gone"} /\ pump.terminal_events = <<>> -> Told
    [] Gone /\ pump.at = "gone" /\ pump.terminal_events # <<>> -> "lost"
    [] OTHER -> "exited"

Child == INSTANCE ManagedChild WITH
  MaxSpawns <- 1, MayStall <- TRUE, MayErr <- TRUE,
  phase <- <<ChildPhase>>,
  outcome <- <<proc.outcome>>,
  watch <- <<term # "none">>,
  asked <- <<proc.kill # "none" \/ pump.hard_kill_at # Off>>

\* Every step of the pump, its callers and the process tree is a step of the
\* child of ManagedChild.tla: the outcome is published after the exit, and the
\* channel ends after that, without Terminated, or with one that says how the child
\* exited, or with a blank one (engine.rs 124-145, 327-543).
ImplementsChild == [][Child!ChildNext]_(Child!childVars)

(***************************************************************************)
(* Liveness.                                                               *)
(***************************************************************************)

\* kill and graceful_kill return, although the child ignores SIGTERM, closed
\* its output, or the receiver never takes an event (handle.rs 54-64,
\* engine.rs 178-233).
KillReturns ==
  \A c \in Callers : call[c] = "queued" ~> call[c] \in {"ok", "err"}

\* A deadline, once armed, ends the tree, whichever loop the pump is in
\* (engine.rs 379-386, 475-478, 528-531).
DeadlineKills == (pump.hard_kill_at # Off) ~> Gone

\* Once the tree is gone the pump ends and removes the pid file, even if the
\* receiver keeps the channel open and never drains it (engine.rs 400-406,
\* 507-541).
PumpEnds == Gone ~> (pump.at = "gone" /\ ~pid_file)

\* A child whose handles and receiver are all dropped is killed
\* (engine.rs 353-358, 454-458).
AbandonedDies == (~handles /\ ~rx.open) ~> Gone

Waiting(w) == w \in DOMAIN write /\ write[w] = "queued"

\* However many writes wait for a child that does not read, the pump goes on at
\* once: a request for another one is answered or accepted (engine.rs 221-231).
PumpNeverWaitsForStdin ==
  \A w \in 1 .. MaxTraffic : Waiting(w) ~> ~Waiting(w)

\* Once the tree is gone every write has its answer, those queued behind a broken
\* one too, and the writer ends and lets go of the pipe (engine.rs 156-176).
WritesAreAnswered ==
  Gone ~> (stdin.ended /\ \A w \in DOMAIN write :
                             write[w] \in {"ok", "refused", "broken"})
=============================================================================
