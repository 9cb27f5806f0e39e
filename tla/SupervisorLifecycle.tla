------------------------ MODULE SupervisorLifecycle ------------------------
(***************************************************************************)
(* What the on_event hook of a Supervisor may observe: the order of the    *)
(* SupervisorEvents, how restart attempts are numbered, and what can still *)
(* happen once supervision is cancelled.  This is the promise of the doc   *)
(* comments of SupervisorBuilder::spawn and RestartPolicy; Supervisor.tla  *)
(* is shown to implement it.                                               *)
(***************************************************************************)
EXTENDS Naturals

CONSTANT MaxRestarts


VARIABLES
  last,      \* the last event
  attempt,   \* restarts since the start or the last Ready
  token,     \* supervision is cancelled
  hidden     \* a child was spawned too late to be announced

lifecycle == <<last, attempt, token, hidden>>

LifecycleInit == last = "none" /\ attempt = 0 /\ token \in BOOLEAN /\ ~hidden

Cancelled == ~token /\ token' /\ UNCHANGED <<last, attempt, hidden>>

\* A child is announced once, first of all or after a Restarting.
Started ==
  /\ last \in {"none", "Restarting"} /\ ~hidden
  /\ last' = "Started"
  /\ UNCHANGED <<attempt, token, hidden>>

\* Readiness comes at most once per child and gives the budget back.
Ready ==
  /\ last = "Started"
  /\ last' = "Ready" /\ attempt' = 0
  /\ UNCHANGED <<token, hidden>>

\* A respawn overtaken by the cancellation gives an unannounced child.
SpawnedTooLate ==
  /\ last = "Restarting" /\ token /\ ~hidden
  /\ hidden' = TRUE
  /\ UNCHANGED <<last, attempt, token>>

Exited ==
  /\ \/ last \in {"Started", "Ready"}
     \/ last = "Restarting" /\ hidden
  /\ last' = "Exited"
  /\ UNCHANGED <<attempt, token, hidden>>

\* Restart attempts are numbered without gaps and never exceed the budget.
Restarting ==
  /\ last \in {"Exited", "Restarting"} /\ ~hidden
  /\ attempt < MaxRestarts
  /\ attempt' = attempt + 1
  /\ last' = "Restarting"
  /\ UNCHANGED <<token, hidden>>

\* The budget is spent, or too many exits fell into the storm window.
GaveUp ==
  /\ \/ last \in {"Exited", "Restarting"} /\ attempt = MaxRestarts
        /\ attempt' = attempt + 1
     \/ last = "Exited" /\ UNCHANGED attempt
  /\ ~hidden
  /\ last' = "GaveUp"
  /\ UNCHANGED <<token, hidden>>

Stopped ==
  /\ last \in {"Exited", "Restarting"} /\ token
  /\ last = "Restarting" => ~hidden
  /\ last' = "Stopped"
  /\ UNCHANGED <<attempt, token, hidden>>

LifecycleNext ==
  \/ Cancelled \/ Started \/ Ready \/ SpawnedTooLate
  \/ Exited \/ Restarting \/ GaveUp \/ Stopped

LifecycleSpec == LifecycleInit /\ [][LifecycleNext]_lifecycle
=============================================================================
