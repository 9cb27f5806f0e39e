--------------------------- MODULE MCSupervisor ---------------------------
(***************************************************************************)
(* The properties of Supervisor.tla and its small instances for TLC.       *)
(***************************************************************************)
EXTENDS Supervisor

(***************************************************************************)
(* Safety.                                                                 *)
(***************************************************************************)

\* A child is spawned only when every earlier child is over, descendants
\* included: two generations never run at the same time, whatever cancellation,
\* stop and the kill task do meanwhile (supervisor.rs 355-418 before 473).
OneChildAtATime ==
  \A j, k \in 1 .. n : j < k => phase[j] \in Over

\* When the loop has returned, and so when stop() has returned, no process it
\* started is left: also the one spawned while the cancellation came in
\* (supervisor.rs 215-230, 421-425, 468-483).
DoneMeansNoChild ==
  (pc \in Ended \/ owner = "returned") => \A k \in 1 .. n : phase[k] \in Over

\* The live child always has somebody who can kill it: its handle is shared in
\* `current`, or is held by the loop on its way there, by the kill task, or by
\* stop(), or else the kill was already requested (supervisor.rs 219, 361-365).
NobodyIsOrphaned ==
  n > 0 /\ phase[n] \in Alive =>
    \/ current = n \/ kill_task = n
    \/ stopping = n /\ owner = "killing"
    \/ asked[n]
    \/ pc \in {"greet", "install"}

\* Ready was acknowledged for this very child: an acknowledgement that was
\* queued for an earlier child, or raced with its exit, is not inherited
\* (supervisor.rs 190-213, 379-397).
ReadyWasAcknowledged ==
  Acknowledged /\ event = "Ready" =>
    \E a \in Ackers : acker[a] = "true" /\ ack_pid[a] = n

\* At most one acknowledge_ready call per child returns true (the
\* compare_exchange at supervisor.rs 202).
AcknowledgedOnce ==
  \A a, b \in Ackers :
    a # b /\ acker[a] \in {"send", "true"} /\ acker[b] \in {"send", "true"}
      => ack_pid[a] # ack_pid[b]

\* The storm guard sees every abnormal exit of the trailing window, however
\* often Ready gave the attempt budget back in between: a restart never goes
\* ahead with MaxFailures of them (supervisor.rs 431-442).
StormIsBounded ==
  pc \in {"count", "backoff", "spawn", "install"} /\ crashes # <<>> =>
    Cardinality({i \in DOMAIN crashes :
                   crashes[Len(crashes)] - crashes[i] <= Window}) < MaxFailures

\* Exit code zero ends the supervision, as the doc has it (supervisor.rs 291-292).
CleanExitIsFinal ==
  \A k \in 1 .. n : k < n => outcome[k] # "clean"

\* Exit code zero ends the supervision when Terminated brings it: the loop judges the
\* child by its last event, which is still to come when the watch, the kill task or a
\* cancellation already know of the end, and no later child is judged by it
\* (supervisor.rs 398-429, engine.rs 487-541).
ToldExitIsFinal ==
  \A k \in 1 .. n : k < n /\ phase[k] = "delivered" => outcome[k] # "clean"

\* The n-th restart in a row is delayed by the initial delay doubled n - 1
\* times, never more than the longest delay, give or take a quarter: the
\* closed form of the code agrees with doubling step by step, and the attempt it
\* starts from is the one that was announced (supervisor.rs 95-108, 448-458).
Doubled[k \in 0 .. MaxExponent] ==
  Lesser(MaxDelay, IF k = 0 THEN InitialDelay ELSE 2 * Doubled[k - 1])
BackoffDoubles ==
  event = "Restarting" /\ attempt \in 1 .. MaxExponent =>
    LET base == Doubled[attempt - 1] IN
      \/ 4 * delay \in 3 * base .. 5 * base
      \/ Jitter /\ base = 0 /\ delay = 1

(***************************************************************************)
(* Action properties.                                                      *)
(***************************************************************************)

\* Once supervision is cancelled, and unless a spawn is already in flight, no
\* child is ever spawned again (supervisor.rs 443, 461-471).
NoSpawnBeginsAfterCancel ==
  \A k \in 0 .. MaxSpawns :
    [](token /\ n = k /\ pc \notin {"new", "first", "spawn"} => [](n = k))

\* Cancellation prevents further restarts (supervisor.rs 295).
NoRestartAfterCancel == [][token /\ n > 0 => n' = n]_vars

(***************************************************************************)
(* The hook observes the lifecycle of SupervisorLifecycle.                 *)
(***************************************************************************)
Hidden == announced < n /\ pc \in Watching \cup
            {"wind_up", "judge", "done"}
Lifecycle == INSTANCE SupervisorLifecycle
               WITH last <- event, hidden <- Hidden

ImplementsLifecycle == Lifecycle!LifecycleSpec

(***************************************************************************)
(* Liveness, under FairSpec.                                               *)
(***************************************************************************)

\* stop() returns: neither the kill, nor the join, nor the loop can wait for
\* one another for ever (supervisor.rs 217-230).
StopReturns == owner = "taking" ~> owner = "returned"

\* Cancellation ends the loop, from every state it can interrupt.
CancelEnds == token /\ pc # "new" ~> pc \in Ended

\* A child that is being watched when the cancellation comes is stopped and
\* the loop ends with Stopped (supervisor.rs 295-296).
CancelWhileWatchingEndsStopped ==
  token /\ pc \in Watching ~> pc = "done" /\ event = "Stopped"

\* An acknowledgement that returned true is never lost while its child lives
\* and supervision goes on: the pid was taken out of ready_pending, so there
\* is no second chance (supervisor.rs 200-208, 379-397).
AcknowledgementIsHeard ==
  \A a \in Ackers : \A k \in Children :
    acker[a] = "true" /\ ack_pid[a] = k
      ~> (event = "Ready" /\ n = k) \/ watch[k] \/ token

\* With AliveAfter a child that goes on living becomes ready.
SurvivorBecomesReady ==
  \A k \in Children :
    ~Acknowledged /\ announced = k /\ event = "Started"
      ~> event = "Ready" \/ phase[k] # "running" \/ token

\* A crashed child is replaced, given up on, or the loop ends: it is never
\* left unsupervised (supervisor.rs 398-489).
CrashIsHandled ==
  \A k \in Children : n = k /\ phase[k] = "exited" ~> n > k \/ pc \in Ended
=============================================================================
