--------------------------- MODULE LifecycleProofs ---------------------------
(***************************************************************************)
(* Proof that the supervisor implements SupervisorLifecycle: the hook sees *)
(* the documented order of events, for every number of children, every     *)
(* policy and every interleaving.                                          *)
(***************************************************************************)
EXTENDS SupervisorProofs

(***************************************************************************)
(* What was told last, by place.  The latest child has been announced,     *)
(* except between its spawn and its Started event, and when a cancellation *)
(* overtook its spawn.                                                     *)
(***************************************************************************)
Announced == announced = n

EventByPlace ==
  /\ pc \in {"new", "first", "greet"} => event = "none"
  /\ pc \in Watching \cup {"wind_up"} =>
       IF Announced THEN event \in {"Started", "Ready"} ELSE event = "Restarting"
  /\ pc \in {"judge", "storm"} => event = "Exited"
  /\ pc = "count" => event \in {"Exited", "Restarting"}
  /\ pc \in {"backoff", "spawn", "install", "announce"} => event = "Restarting"

\* Ready comes once: the probe is spent when the loop goes to announce it.
ReadyOnce ==
  /\ pc \in Watching /\ Announced /\ readiness_pending => event = "Started"
  /\ pc = "readied" => Announced /\ event = "Started" /\ ~readiness_pending

AnnouncedByPlace ==
  /\ announced <= n
  /\ pc \in {"storm", "count", "backoff", "spawn"} => Announced
  /\ pc \in {"greet", "install", "announce"} => announced < n
  /\ pc \in Watching \cup {"wind_up", "judge"} /\ ~Announced => token
  /\ cancelled => token

InBudget == pc # "done" => attempt <= MaxRestarts

Told == EventByPlace /\ ReadyOnce /\ AnnouncedByPlace /\ InBudget

LEMMA InitTold == Init => Told /\ Lifecycle!LifecycleInit
BY SupervisorAssumption
   DEF Init, Told, EventByPlace, ReadyOnce, AnnouncedByPlace, InBudget, Announced, Watching,
       Hidden, Lifecycle!LifecycleInit

\* Every step keeps the books and is a step of the lifecycle, or none.
LEMMA StepTold ==
  ASSUME TypeOK, Told, [Next]_vars
  PROVE  Told' /\ [Lifecycle!LifecycleNext]_(Lifecycle!lifecycle)
<1> DEFINE Goal == Told' /\ [Lifecycle!LifecycleNext]_(Lifecycle!lifecycle)
<1> USE DEF Told, EventByPlace, ReadyOnce, AnnouncedByPlace, InBudget, Announced, Watching,
            Hidden, round, books, told, shared, calls, rest, Goto, Emit
<1>t. /\ n \in Nat /\ announced \in Nat /\ attempt \in Nat /\ MaxRestarts \in Nat
  BY ChildAssumption, SupervisorAssumption DEF TypeOK, Pids
<1>b. token \in BOOLEAN /\ cancelled \in BOOLEAN /\ readiness_pending \in BOOLEAN
  BY DEF TypeOK
<1>l. ASSUME UNCHANGED <<event, attempt, token>>, Hidden' = Hidden
      PROVE  [Lifecycle!LifecycleNext]_(Lifecycle!lifecycle)
  <2> HIDE DEF Hidden
  <2> QED
    BY <1>l DEF Lifecycle!lifecycle
<1>1. CASE BuilderChecksToken \/ FirstSpawn \/ FirstSpawnFails
  <2>1. Told' /\ UNCHANGED <<event, attempt, token>> /\ Hidden' = Hidden
    BY <1>1, <1>t DEF BuilderChecksToken, FirstSpawn, FirstSpawnFails, SpawnOk
  <2> QED
    BY <2>1, <1>l
<1>2. CASE FirstStarted \/ Announce
  <2>1. Told' /\ UNCHANGED <<attempt, token>>
    BY <1>2, <1>t DEF FirstStarted, Announce, StoreAndStart
  <2>2. Lifecycle!Started
    BY <1>2, <1>t DEF FirstStarted, Announce, StoreAndStart, Lifecycle!Started
  <2> QED
    BY <2>1, <2>2 DEF Lifecycle!LifecycleNext
<1>3. CASE PollCancelled \/ PollEvent
  <2>1. Told' /\ UNCHANGED <<event, attempt, token>> /\ Hidden' = Hidden
    BY <1>3, <1>t DEF PollCancelled, PollEvent
  <2> QED
    BY <2>1, <1>l
<1>4. CASE PollTimer
  <2>1. Passes(current) => ~token
    BY DEF Passes
  <2>2. Told' /\ UNCHANGED <<event, attempt, token>> /\ Hidden' = Hidden
    BY <1>4, <1>t, <2>1 DEF PollTimer
  <2> QED
    BY <2>2, <1>l
<1>5. CASE PollAcknowledged
  <2>1. Passes(Head(ready_rx)) => ~token
    BY DEF Passes
  <2>2. /\ UNCHANGED <<n, cancelled, books, told, token>> /\ pc = "ready"
        /\ \/ pc' = "readied" /\ ~token /\ readiness_pending /\ ~readiness_pending'
           \/ pc' \in {"watch", "event"} /\ (readiness_pending' => readiness_pending)
    BY <1>5, <2>1, <1>b DEF PollAcknowledged
  <2>3. Told' /\ UNCHANGED <<event, attempt, token>> /\ Hidden' = Hidden
    BY <2>2, <1>t
  <2> QED
    BY <2>3, <1>l
<1>6. CASE BecomeReady
  <2>1. Told'
    BY <1>6, <1>t DEF BecomeReady
  <2>2. Lifecycle!Ready
    BY <1>6, <1>t DEF BecomeReady, Lifecycle!Ready
  <2> QED
    BY <2>1, <2>2 DEF Lifecycle!LifecycleNext
<1>7. CASE WindUp
  <2>1. Told'
    BY <1>7, <1>t DEF WindUp
  <2>2. Lifecycle!Exited
    BY <1>7, <1>t DEF WindUp, Lifecycle!Exited
  <2> QED
    BY <2>1, <2>2 DEF Lifecycle!LifecycleNext
<1>8. CASE Judge
  <2>1. Told'
    BY <1>8, <1>t DEF Judge, Interrupted
  <2>2. CASE Interrupted /\ event' = "Stopped" /\ pc' = "done"
    <3>1. Lifecycle!Stopped
      BY <1>8, <2>2, <1>t DEF Judge, Interrupted, Lifecycle!Stopped
    <3> QED
      BY <2>1, <3>1 DEF Lifecycle!LifecycleNext
  <2>3. CASE UNCHANGED event /\ (~Interrupted \/ pc' = "done")
    <3>1. UNCHANGED <<event, attempt, token>> /\ Hidden' = Hidden
      BY <1>8, <2>3, <1>t DEF Judge, Interrupted
    <3> QED
      BY <2>1, <3>1, <1>l
  <2> QED
    BY <1>8, <2>2, <2>3 DEF Judge
<1>9. CASE StormGuard
  <2>1. Told'
    BY <1>9, <1>t DEF StormGuard
  <2>2. CASE event' = "GaveUp"
    <3>1. Lifecycle!GaveUp
      BY <1>9, <2>2, <1>t DEF StormGuard, Lifecycle!GaveUp
    <3> QED
      BY <2>1, <3>1 DEF Lifecycle!LifecycleNext
  <2>3. CASE event' = event
    <3>1. UNCHANGED <<event, attempt, token>> /\ Hidden' = Hidden
      BY <1>9, <2>3, <1>t DEF StormGuard
    <3> QED
      BY <2>1, <3>1, <1>l
  <2> QED
    BY <1>9, <2>2, <2>3 DEF StormGuard
<1>10. CASE CountAttempt
  <2>1. Told'
    BY <1>10, <1>t DEF CountAttempt, Exhausted
  <2>2. CASE Exhausted
    <3>1. Lifecycle!GaveUp
      BY <1>10, <2>2, <1>t DEF CountAttempt, Exhausted, Lifecycle!GaveUp
    <3> QED
      BY <2>1, <3>1 DEF Lifecycle!LifecycleNext
  <2>3. CASE ~Exhausted
    <3>1. Lifecycle!Restarting
      BY <1>10, <2>3, <1>t DEF CountAttempt, Exhausted, Lifecycle!Restarting
    <3> QED
      BY <2>1, <3>1 DEF Lifecycle!LifecycleNext
  <2> QED
    BY <2>2, <2>3
<1>11. CASE SleepBackoff \/ RespawnFails
  <2>1. Told'
    BY <1>11, <1>t DEF SleepBackoff, RespawnFails, StopOrGoto
  <2>2. CASE token
    <3>a. event' = "Stopped" /\ UNCHANGED <<n, announced, attempt, token>>
          /\ pc \in {"backoff", "spawn"} /\ pc' = "done"
      BY <1>11, <2>2 DEF SleepBackoff, RespawnFails, StopOrGoto
    <3>b. ~Hidden /\ Hidden' = Hidden /\ event = "Restarting"
      BY <3>a, <1>t
    <3>1. Lifecycle!Stopped
      <4> HIDE DEF Hidden
      <4> QED
        BY <3>a, <3>b, <2>2 DEF Lifecycle!Stopped
    <3> QED
      BY <2>1, <3>1 DEF Lifecycle!LifecycleNext
  <2>3. CASE ~token
    <3>1. UNCHANGED <<event, attempt, token>> /\ Hidden' = Hidden
      BY <1>11, <2>3, <1>t DEF SleepBackoff, RespawnFails, StopOrGoto
    <3> QED
      BY <2>1, <3>1, <1>l
  <2> QED
    BY <2>2, <2>3
<1>12. CASE Respawn
  <2>1. Told' /\ UNCHANGED <<event, attempt, token>> /\ Hidden' = Hidden
    BY <1>12, <1>t DEF Respawn, SpawnOk
  <2> QED
    BY <2>1, <1>l
<1>13. CASE Install
  <2>1. Told' /\ UNCHANGED <<event, attempt, token>>
    BY <1>13, <1>t DEF Install, FreshProbe
  <2>2. CASE token
    <3>1. Lifecycle!SpawnedTooLate
      BY <1>13, <2>1, <2>2, <1>t DEF Install, Lifecycle!SpawnedTooLate
    <3> QED
      BY <2>1, <3>1 DEF Lifecycle!LifecycleNext
  <2>3. CASE ~token
    <3>1. Hidden' = Hidden
      BY <1>13, <2>3 DEF Install
    <3> QED
      BY <2>1, <3>1, <1>l
  <2> QED
    BY <2>2, <2>3
<1>14. CASE UNCHANGED <<pc, n, cancelled, readiness_pending, books, told>>
            /\ (token' = TRUE \/ UNCHANGED token)
  <2>1. Told' /\ UNCHANGED <<event, attempt>> /\ Hidden' = Hidden
    BY <1>14, <1>t
  <2>2. CASE UNCHANGED token
    BY <2>1, <2>2, <1>l
  <2>3. CASE ~token /\ token'
    <3> HIDE DEF Hidden
    <3>1. Lifecycle!Cancelled
      BY <2>1, <2>3 DEF Lifecycle!Cancelled
    <3> QED
      BY <2>1, <3>1 DEF Lifecycle!LifecycleNext
  <2> QED
    BY <1>14, <1>b, <2>2, <2>3
<1>15. Loop \/ (/\ UNCHANGED <<pc, n, cancelled, readiness_pending, books, told>>
                /\ (token' = TRUE \/ UNCHANGED token))
  BY DEF Next, vars, TimerFires, Tick, CancelToken, KillTaskAsks, StopCancels,
     CancelOwnToken, DropCancels, OwnerContinues, StopTakes, StopAsks, StopJoins, DropCloses,
     OwnerGoes, AckContinues, AckChecks, AckSwaps, AckSends, AckerGoes, ChildMoves, Finished,
     LoopWaits
<1> QED
  BY <1>1, <1>2, <1>3, <1>4, <1>5, <1>6, <1>7, <1>8, <1>9, <1>10, <1>11, <1>12, <1>13, <1>14,
     <1>15 DEF Loop, Builder, Watch, Verdict, Restart

\* The supervisor implements the lifecycle its documentation promises: the order of
\* the events, the numbering of the restarts and the budget (supervisor.rs 285-296).
THEOREM ImplementsLifecycleHolds == Spec => ImplementsLifecycle
<1>1. TypeOK /\ Told /\ [Next]_vars
        => Told' /\ [Lifecycle!LifecycleNext]_(Lifecycle!lifecycle)
  BY StepTold
<1> QED
  BY TypeCorrect, InitTold, <1>1, PTL
  DEF Spec, ImplementsLifecycle, Lifecycle!LifecycleSpec
=============================================================================
