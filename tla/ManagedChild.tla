---------------------------- MODULE ManagedChild ----------------------------
(***************************************************************************)
(* What Command::spawn promises about a child (process/command.rs 133-144, *)
(* process/mod.rs): the supervisor is written against this contract and    *)
(* the event pump of process/engine.rs is what has to honour it.           *)
(*                                                                         *)
(* The k-th child ever spawned is child k, and k is also its pid: pids are *)
(* assumed not to be reused while a supervisor lives.                      *)
(***************************************************************************)
EXTENDS Naturals

CONSTANTS
  MaxSpawns,   \* bound of the model: children that can ever be spawned
  MayStall,    \* the receiver of the events may stop draining for 5 s, so
               \* that the pump gives up and drops the terminal events
  MayErr       \* finish() may fail: Terminated then carries no exit code

ASSUME ChildAssumption ==
  MaxSpawns \in Nat \ {0} /\ MayStall \in BOOLEAN /\ MayErr \in BOOLEAN

Children == 1 .. MaxSpawns

VARIABLES
  phase,      \* where child k and its event channel are
  outcome,    \* how child k exited: "clean" is exit code 0
  watch,      \* ProcessHandle::terminated holds a value
  asked       \* a kill or graceful kill of child k reached its pump

childVars == <<phase, outcome, watch, asked>>

(***************************************************************************)
(* "running"   the process is alive                                        *)
(* "orphaned"  it has exited, a descendant still holds its pipes           *)
(* "exited"    the whole tree has let go of the pipes                      *)
(* "delivered" Terminated with the exit code or signal is the next event   *)
(* "blank"     Terminated with neither is the next event                   *)
(* "lost"      the channel closed without Terminated                       *)
(***************************************************************************)
Phases == {"none", "running", "orphaned", "exited", "delivered", "blank", "lost"}
Over == {"delivered", "blank", "lost"}
Alive == {"running", "orphaned"}
Outcomes == {"unknown", "clean", "failed"}

ChildTypeOK ==
  /\ phase \in [Children -> Phases]
  /\ outcome \in [Children -> Outcomes]
  /\ watch \in [Children -> BOOLEAN]
  /\ asked \in [Children -> BOOLEAN]

ChildInit ==
  /\ phase = [k \in Children |-> "none"]
  /\ outcome = [k \in Children |-> "unknown"]
  /\ watch = [k \in Children |-> FALSE]
  /\ asked = [k \in Children |-> FALSE]

Start(k) ==
  /\ phase[k] = "none"
  /\ phase' = [phase EXCEPT ![k] = "running"]
  /\ UNCHANGED <<outcome, watch, asked>>

\* The direct child exits; descendants may outlive it.
Exit(k) ==
  /\ phase[k] = "running"
  /\ \E p \in {"orphaned", "exited"} : phase' = [phase EXCEPT ![k] = p]
  /\ \E o \in {"clean", "failed"} : outcome' = [outcome EXCEPT ![k] = o]
  /\ UNCHANGED <<watch, asked>>

\* The last descendant holding the pipes is gone.
Disband(k) ==
  /\ phase[k] = "orphaned"
  /\ phase' = [phase EXCEPT ![k] = "exited"]
  /\ UNCHANGED <<outcome, watch, asked>>

\* finish() resolves and the pump publishes the outcome.
Report(k) ==
  /\ phase[k] \in {"orphaned", "exited"} /\ ~watch[k]
  /\ watch' = [watch EXCEPT ![k] = TRUE]
  /\ UNCHANGED <<phase, outcome, asked>>

Ending(k, p) ==
  /\ phase[k] = "exited" /\ watch[k]
  /\ phase' = [phase EXCEPT ![k] = p]
  /\ UNCHANGED <<outcome, watch, asked>>

Deliver(k) == Ending(k, "delivered") \/ (MayErr /\ Ending(k, "blank"))

\* The flush gives up: the channel closes without Terminated.
Lose(k) == MayStall /\ Ending(k, "lost")

\* ProcessHandle::graceful_kill or kill hands its request to the pump.
Ask(k) ==
  /\ asked' = [asked EXCEPT ![k] = TRUE]
  /\ UNCHANGED <<phase, outcome, watch>>

ChildStep(k) == Exit(k) \/ Disband(k) \/ Report(k) \/ Deliver(k) \/ Lose(k)

\* Only a kill makes a child end; once the tree is gone the pump finishes.
ChildFairness ==
  \A k \in Children :
    /\ WF_childVars(asked[k] /\ Exit(k))
    /\ WF_childVars(asked[k] /\ Disband(k))
    /\ WF_childVars(phase[k] = "exited" /\ Report(k))
    /\ WF_childVars(Deliver(k) \/ Lose(k))

ChildNext == \E k \in Children : Start(k) \/ ChildStep(k) \/ Ask(k)
ChildSpec == ChildInit /\ [][ChildNext]_childVars
=============================================================================
