-------------------------- MODULE SupervisorProofs --------------------------
(***************************************************************************)
(* Proofs about the supervision loop for every number of children, tasks   *)
(* and restarts.                                                           *)
(***************************************************************************)
EXTENDS MCSupervisor, FiniteSetTheorems, SequenceTheorems, TLAPS

(***************************************************************************)
(* The inductive invariant.                                                *)
(***************************************************************************)

\* Outside of these places every child spawned so far is over.
Busy == Watching \cup {"greet", "install", "announce"}

\* Whoever looks a child up has one: the loop, and a call past its check.
Indexed ==
  /\ pc \in Busy \cup {"wind_up"} => n \in Children
  /\ \A a \in Ackers : acker[a] \in {"cas", "send"} => ack_pid[a] \in Children

ChildrenInOrder ==
  /\ \A k \in Children : k > n <=> phase[k] = "none"
  /\ \A k \in Children : k < n => phase[k] \in Over
  /\ pc \notin Busy => \A k \in Children : k = n => phase[k] \in Over
  /\ pc \in {"new", "first"} => n = 0
  /\ owner = "returned" => pc = "done"

\* A kill task exists only in a round that has seen the cancellation.
KillerInRound == kill_task # 0 => cancelled /\ pc \in Watching \cup {"wind_up"}

Safe == ChildrenInOrder /\ KillerInRound /\ NobodyIsOrphaned

(***************************************************************************)
(* Type correctness.                                                       *)
(***************************************************************************)
USE ChildAssumption, SupervisorAssumption

LEMMA BaseTyped ==
  ASSUME NEW k \in Nat PROVE Base(k) \in Nat /\ Base(k) <= MaxDelay
<1>1. Lesser(k, MaxExponent) \in 0 .. MaxExponent
  BY DEF Lesser, MaxExponent
<1>2. 2 ^ Lesser(k, MaxExponent) \in Nat
  <2> DEFINE e == Lesser(k, MaxExponent)
  <2>1. e = 0 \/ e \in 1 .. MaxExponent
    BY <1>1 DEF MaxExponent
  <2>2. CASE e = 0
    BY <2>2, BackoffAssumption
  <2>3. CASE e \in 1 .. MaxExponent
    BY <2>3, BackoffAssumption
  <2> QED
    BY <2>1, <2>2, <2>3
<1> DEFINE product == InitialDelay * 2 ^ Lesser(k, MaxExponent)
<1>3. product \in Nat
  BY <1>2, BackoffAssumption
<1> HIDE DEF product
<1>4. Base(k) = Lesser(product, MaxDelay)
  BY DEF Base, product
<1> QED
  BY <1>3, <1>4, BackoffAssumption DEF Lesser

\* Whatever the entropy, jitter moves a delay by a quarter at most and never below
\* zero, also where the halves are rounded (supervisor.rs 103-107).
LEMMA JitterWithinAQuarter ==
  ASSUME NEW base \in Nat \ {0}, NEW d \in Jittered(base)
  PROVE  d \in Nat /\ 3 * base <= 4 * d /\ 4 * d <= 5 * base
<1> DEFINE span == base \div 2
<1>1. PICK offset \in 0 .. Greater(span, 1) - 1 : d = base - span \div 2 + offset
  BY DEF Jittered, Entropy
<1>2. span \in Nat /\ 2 * span <= base
  OBVIOUS
<1>3. span \div 2 \in Nat /\ 2 * (span \div 2) <= span /\ span <= 2 * (span \div 2) + 1
  BY <1>2
<1>4. offset \in Nat /\ (offset = 0 \/ offset + 1 <= span)
  BY <1>2 DEF Greater
<1> HIDE DEF span
<1> QED
  BY <1>1, <1>2, <1>3, <1>4

LEMMA DelaysTyped == ASSUME attempt \in Nat PROVE Delays \subseteq Nat
<1>1. Base(attempt) \in Nat
  BY BaseTyped
<1>2. Greater(Base(attempt), 1) \in Nat \ {0}
  BY <1>1 DEF Greater
<1> QED
  BY <1>1, <1>2, JitterWithinAQuarter DEF Delays, DelayFor

\* What is left of the window is a sequence of times again (Judge).
LEMMA SuffixTyped ==
  ASSUME NEW times \in Seq(Nat), now \in Nat
  PROVE  SubSeq(times, Cardinality(Expired(times)) + 1, Len(times)) \in Seq(Nat)
<1>1. Expired(times) \in SUBSET (1 .. Len(times))
  BY LenProperties DEF Expired
<1>2. Cardinality(Expired(times)) \in Nat
  <2>1. IsFiniteSet(1 .. Len(times))
    BY LenProperties, FS_Interval
  <2> QED
    BY <1>1, <2>1, FS_Subset, FS_CardinalityType
<1>3. \A i \in Cardinality(Expired(times)) + 1 .. Len(times) : times[i] \in Nat
  BY <1>2, LenProperties, ElementOfSeq
<1> QED
  BY <1>2, <1>3, LenProperties, SubSeqProperties

LEMMA InitTyped == Init => TypeOK /\ Indexed
<1> SUFFICES ASSUME Init PROVE TypeOK /\ Indexed
  OBVIOUS
<1>1. ChildTypeOK
  BY DEF Init, ChildInit, ChildTypeOK, Phases, Outcomes, Children
<1>2. /\ abnormal_exits \in Seq(Nat) /\ crashes \in Seq(Nat) /\ ready_rx \in Seq(Children)
      /\ acker \in [Ackers -> {"idle", "cas", "send", "true", "false"}]
      /\ ack_pid \in [Ackers -> Pids]
  BY DEF Init, Pids
<1>3. /\ cancelled \in BOOLEAN /\ readiness_pending \in BOOLEAN /\ timer \in BOOLEAN
      /\ token \in BOOLEAN
  BY Zenon DEF Init
<1>4. /\ n \in Pids /\ kill_task \in Pids /\ announced \in Pids /\ current \in Pids
      /\ ready_pending \in Pids /\ stopping \in Pids /\ attempt \in Nat
      /\ now \in 0 .. MaxTime /\ delay \in Nat
  BY DEF Init, Pids
<1>5. /\ pc \in PCs /\ payload \in Outcomes /\ event \in Events /\ owner \in Owners
      /\ Indexed
  BY DEF Init, Indexed, Outcomes, PCs, Events, Owners, Busy, Watching
<1> QED
  BY <1>1, <1>2, <1>3, <1>4, <1>5 DEF TypeOK

\* Every operation of a child keeps its types.
LEMMA ChildTyped ==
  ASSUME ChildTypeOK, NEW k,
         \/ UNCHANGED childVars
         \/ Ask(k)
         \/ k \in Children /\ (Start(k) \/ ChildStep(k))
  PROVE  ChildTypeOK'
<1> USE DEF ChildTypeOK, Phases, Outcomes
<1>1. CASE UNCHANGED childVars
  BY <1>1 DEF childVars
<1>2. CASE Ask(k)
  BY <1>2 DEF Ask
<1>3. CASE Start(k)
  BY <1>3 DEF Start
<1>4. CASE Exit(k)
  BY <1>4 DEF Exit
<1>5. CASE Disband(k) \/ Report(k) \/ Deliver(k) \/ Lose(k)
  BY <1>5 DEF Disband, Report, Deliver, Ending, Lose
<1> QED
  BY <1>1, <1>2, <1>3, <1>4, <1>5 DEF ChildStep

\* Every step keeps the types (all the actions of Supervisor.tla).
LEMMA StepTyped ==
  ASSUME TypeOK, Indexed, [Next]_vars
  PROVE  TypeOK' /\ Indexed'
<1> USE DEF TypeOK, Indexed, Busy, Watching, Outcomes, PCs, Events, Owners, Pids,
            Children, vars, round, books, told, shared, calls, rest, Goto
<1>a. ASSUME UNCHANGED childVars PROVE ChildTypeOK'
  BY <1>a, ChildTyped
<1>1. CASE BuilderChecksToken
  BY <1>1, <1>a DEF BuilderChecksToken
<1>2. CASE FirstSpawn
  <2>1. ChildTypeOK'
    <3>1. Start(n + 1) /\ n + 1 \in Children
      BY <1>2 DEF FirstSpawn, SpawnOk
    <3> QED
      BY <3>1, ChildTyped
  <2> QED
    BY <1>2, <2>1 DEF FirstSpawn, SpawnOk
<1>3. CASE FirstSpawnFails
  BY <1>3, <1>a DEF FirstSpawnFails
<1>4. CASE FirstStarted
  BY <1>4, <1>a DEF FirstStarted, StoreAndStart, Emit
<1>5. CASE PollCancelled
  <2>1. kill_task' \in Pids /\ current' \in Pids /\ pc' \in {"watch", "ready"}
    BY <1>5 DEF PollCancelled, TakeForKill
  <2>2. cancelled' \in BOOLEAN /\ readiness_pending' \in BOOLEAN
    BY <1>5, Zenon DEF PollCancelled
  <2> QED
    BY <1>5, <1>a, <2>1, <2>2 DEF PollCancelled
<1>6. CASE PollTimer
  <2>1. readiness_pending' \in BOOLEAN /\ pc' \in Watching
    BY <1>6 DEF PollTimer
  <2> QED
    BY <1>6, <1>a, <2>1 DEF PollTimer
<1>7. CASE PollAcknowledged
  <2>1. readiness_pending' \in BOOLEAN /\ pc' \in Watching
    BY <1>7 DEF PollAcknowledged
  <2>2. ready_rx' \in Seq(Children)
    <3>1. ready_rx # <<>> => Tail(ready_rx) \in Seq(Children)
      BY HeadTailProperties
    <3> QED
      BY <1>7, <3>1 DEF PollAcknowledged
  <2> QED
    BY <1>7, <1>a, <2>1, <2>2 DEF PollAcknowledged
<1>8. CASE BecomeReady
  BY <1>8, <1>a DEF BecomeReady, KeepStorm, Emit
<1>9. CASE PollEvent
  <2>1. payload' \in Outcomes /\ pc' \in {"watch", "wind_up"}
    BY <1>9 DEF PollEvent, ChildTypeOK
  <2> QED
    BY <1>9, <1>a, <2>1 DEF PollEvent
<1>10. CASE WindUp
  BY <1>10, <1>a DEF WindUp, Emit
<1>11. CASE StormGuard
  BY <1>11, <1>a DEF StormGuard, Emit
<1>12. CASE CountAttempt
  <2>1. delay' \in Nat
    BY <1>12, DelaysTyped DEF CountAttempt
  <2> QED
    BY <1>12, <1>a, <2>1 DEF CountAttempt, Emit
<1>13. CASE SleepBackoff
  BY <1>13, <1>a DEF SleepBackoff, StopOrGoto, Emit
<1>14. CASE Respawn
  <2>1. ChildTypeOK'
    <3>1. Start(n + 1) /\ n + 1 \in Children
      BY <1>14 DEF Respawn, SpawnOk
    <3> QED
      BY <3>1, ChildTyped
  <2> QED
    BY <1>14, <2>1 DEF Respawn, SpawnOk
<1>15. CASE RespawnFails
  BY <1>15, <1>a DEF RespawnFails, StopOrGoto, Emit
<1>16. CASE Install
  BY <1>16, <1>a DEF Install, FreshProbe
<1>17. CASE Announce
  BY <1>17, <1>a DEF Announce, StoreAndStart, Emit
<1>18. CASE TimerFires
  BY <1>18, <1>a DEF TimerFires, LoopWaits
<1>19. CASE Tick
  BY <1>19, <1>a DEF Tick, LoopWaits
<1>20. CASE CancelToken
  BY <1>20, <1>a DEF CancelToken, LoopWaits
<1>21. CASE KillTaskAsks
  <2>1. ChildTypeOK'
    <3>1. Ask(kill_task)
      BY <1>21 DEF KillTaskAsks
    <3> QED
      BY <3>1, ChildTyped
  <2> QED
    BY <1>21, <2>1 DEF KillTaskAsks, LoopWaits
<1>22. CASE StopCancels
  BY <1>22, <1>a DEF StopCancels, OwnerGoes, CancelOwnToken, LoopWaits
<1>23. CASE StopTakes
  BY <1>23, <1>a DEF StopTakes, OwnerGoes, LoopWaits
<1>24. CASE StopAsks
  <2>1. ChildTypeOK'
    <3>1. Ask(stopping)
      BY <1>24 DEF StopAsks
    <3> QED
      BY <3>1, ChildTyped
  <2> QED
    BY <1>24, <2>1 DEF StopAsks, OwnerGoes, LoopWaits
<1>25. CASE StopJoins
  BY <1>25, <1>a DEF StopJoins, OwnerGoes, LoopWaits
<1>26. CASE DropCancels
  BY <1>26, <1>a DEF DropCancels, OwnerGoes, LoopWaits
<1>27. CASE DropCloses
  BY <1>27, <1>a DEF DropCloses, OwnerGoes, LoopWaits
<1>28. CASE Finished
  BY <1>28, <1>a DEF Finished
<1>29. CASE Judge
  <2>1. Append(abnormal_exits, now) \in Seq(Nat) /\ Append(crashes, now) \in Seq(Nat)
    OBVIOUS
  <2>2. abnormal_exits' \in Seq(Nat)
    <3> DEFINE times == Append(abnormal_exits, now)
    <3> HIDE DEF times
    <3>1. now \in Nat
      OBVIOUS
    <3>2. times \in Seq(Nat)
      BY <2>1 DEF times
    <3>3. SubSeq(times, Cardinality(Expired(times)) + 1, Len(times)) \in Seq(Nat)
      BY <3>1, <3>2, SuffixTyped
    <3> QED
      BY <1>29, <3>3 DEF Judge, times
  <2>3. crashes' \in Seq(Nat)
    BY <1>29, <2>1 DEF Judge
  <2>4. /\ pc' \in {"done", "storm"} /\ event' \in {event, "Stopped"}
        /\ UNCHANGED <<n, round, payload, attempt, announced, delay, shared, rest>>
    BY <1>29 DEF Judge, Emit
  <2> QED
    BY <1>a, <2>2, <2>3, <2>4
<1>30. ASSUME NEW a \in Ackers, NEW pid \in Children, AckChecks(a, pid)
       PROVE  TypeOK' /\ Indexed'
  BY <1>30, <1>a DEF AckChecks, AckerGoes, LoopWaits
<1>31. ASSUME NEW a \in Ackers, AckSwaps(a)
       PROVE  TypeOK' /\ Indexed'
  BY <1>31, <1>a DEF AckSwaps, AckerGoes, Exchanged, LoopWaits
<1>32. ASSUME NEW a \in Ackers, AckSends(a)
       PROVE  TypeOK' /\ Indexed'
  <2>1. ack_pid[a] \in Children
    BY <1>32 DEF AckSends, AckerGoes
  <2>2. ready_rx' \in Seq(Children)
    <3>1. Append(ready_rx, ack_pid[a]) \in Seq(Children)
      BY <2>1, AppendProperties
    <3> QED
      BY <1>32, <3>1 DEF AckSends, SentPid
  <2>3. ready_pending' \in Pids
    BY <1>32, <2>1 DEF AckSends
  <2> QED
    BY <1>32, <1>a, <2>2, <2>3 DEF AckSends, AckerGoes, LoopWaits
<1>33. ASSUME NEW k \in Children, ChildMoves(k)
       PROVE  TypeOK' /\ Indexed'
  <2>1. ChildTypeOK'
    BY <1>33, ChildTyped DEF ChildMoves
  <2> QED
    BY <1>33, <2>1 DEF ChildMoves, LoopWaits
<1>34. CASE UNCHANGED vars
  BY <1>34, <1>a
<1> QED
  BY <1>1, <1>2, <1>3, <1>4, <1>5, <1>6, <1>7, <1>8, <1>9, <1>10, <1>11, <1>12, <1>13, <1>14, <1>15, <1>16, <1>17, <1>18, <1>19, <1>20, <1>21, <1>22, <1>23, <1>24, <1>25, <1>26, <1>27, <1>28, <1>29, <1>30, <1>31, <1>32, <1>33, <1>34
     DEF Next, Loop, Builder, Watch, Verdict, Restart, OwnerContinues, AckContinues

\* Every variable keeps to its type.
THEOREM TypeCorrect == Spec => []TypeOK
<1>1. TypeOK /\ Indexed /\ [Next]_vars => (TypeOK /\ Indexed)'
  BY StepTyped
<1> QED
  BY InitTyped, <1>1, PTL DEF Spec

(***************************************************************************)
(* Safety: generations never overlap, nothing is left behind, and a live   *)
(* child always has somebody who can kill it.                              *)
(***************************************************************************)
LEMMA InitSafe == Init => Safe
BY DEF Init, ChildInit, Safe, ChildrenInOrder, KillerInRound, NobodyIsOrphaned, Busy,
       Watching, Children

\* Every step keeps the children in order and the live one within reach.
LEMMA StepSafe ==
  ASSUME TypeOK, Indexed, Safe, [Next]_vars
  PROVE  Safe'
<1> USE DEF Safe, ChildrenInOrder, KillerInRound, NobodyIsOrphaned, Busy, Watching, Alive,
            Over, Children, vars, round, books, told, shared, calls, rest, childVars, Goto
<1>t. /\ n \in Pids /\ kill_task \in Pids /\ current \in Pids /\ stopping \in Pids
      /\ ChildTypeOK /\ Indexed
  BY DEF TypeOK
<1> USE DEF Pids, Indexed, ChildTypeOK
<1>1. CASE BuilderChecksToken
  BY <1>1, <1>t DEF BuilderChecksToken
<1>2. CASE FirstSpawn
  BY <1>2, <1>t DEF FirstSpawn, SpawnOk, Start
<1>3. CASE FirstSpawnFails
  BY <1>3, <1>t DEF FirstSpawnFails
<1>4. CASE FirstStarted
  BY <1>4, <1>t DEF FirstStarted, StoreAndStart
<1>5. CASE PollCancelled
  BY <1>5, <1>t DEF PollCancelled, TakeForKill
<1>6. CASE PollTimer
  BY <1>6, <1>t DEF PollTimer
<1>7. CASE PollAcknowledged
  BY <1>7, <1>t DEF PollAcknowledged
<1>8. CASE BecomeReady
  BY <1>8, <1>t DEF BecomeReady
<1>9. CASE PollEvent
  BY <1>9, <1>t DEF PollEvent, ChannelOver
<1>10. CASE WindUp
  BY <1>10, <1>t DEF WindUp
<1>11. CASE Judge
  BY <1>11, <1>t DEF Judge
<1>12. CASE StormGuard
  BY <1>12, <1>t DEF StormGuard
<1>13. CASE CountAttempt
  BY <1>13, <1>t DEF CountAttempt
<1>14. CASE SleepBackoff
  BY <1>14, <1>t DEF SleepBackoff, StopOrGoto
<1>15. CASE Respawn
  BY <1>15, <1>t DEF Respawn, SpawnOk, Start
<1>16. CASE RespawnFails
  BY <1>16, <1>t DEF RespawnFails, StopOrGoto
<1>17. CASE Install
  BY <1>17, <1>t DEF Install, FreshProbe
<1>18. CASE Announce
  BY <1>18, <1>t DEF Announce, StoreAndStart
<1>19. CASE TimerFires
  BY <1>19, <1>t DEF TimerFires, LoopWaits
<1>20. CASE Tick
  BY <1>20, <1>t DEF Tick, LoopWaits
<1>21. CASE CancelToken
  BY <1>21, <1>t DEF CancelToken, LoopWaits
<1>22. CASE KillTaskAsks
  BY <1>22, <1>t DEF KillTaskAsks, Ask, LoopWaits
<1>23. CASE StopCancels
  BY <1>23, <1>t DEF StopCancels, OwnerGoes, LoopWaits
<1>24. CASE StopTakes
  BY <1>24, <1>t DEF StopTakes, OwnerGoes, LoopWaits
<1>25. CASE StopAsks
  BY <1>25, <1>t DEF StopAsks, OwnerGoes, Ask, LoopWaits
<1>26. CASE StopJoins
  BY <1>26, <1>t DEF StopJoins, OwnerGoes, LoopWaits
<1>27. CASE DropCancels
  BY <1>27, <1>t DEF DropCancels, OwnerGoes, LoopWaits
<1>28. CASE DropCloses
  BY <1>28, <1>t DEF DropCloses, OwnerGoes, LoopWaits
<1>29. CASE Finished
  BY <1>29, <1>t DEF Finished
<1>30. ASSUME NEW a \in Ackers, NEW pid \in Children, AckChecks(a, pid)
       PROVE  Safe'
  BY <1>30, <1>t DEF AckChecks, AckerGoes, LoopWaits
<1>31. ASSUME NEW a \in Ackers, AckSwaps(a)
       PROVE  Safe'
  BY <1>31, <1>t DEF AckSwaps, AckerGoes, LoopWaits
<1>32. ASSUME NEW a \in Ackers, AckSends(a)
       PROVE  Safe'
  BY <1>32, <1>t DEF AckSends, AckerGoes, LoopWaits
<1>33. ASSUME NEW k \in Children, ChildMoves(k)
       PROVE  Safe'
  BY <1>33, <1>t DEF ChildMoves, ChildStep, Exit, Disband, Report, Deliver, Ending, Lose, LoopWaits
<1>34. CASE UNCHANGED vars
  BY <1>34
<1> QED
  BY <1>1, <1>2, <1>3, <1>4, <1>5, <1>6, <1>7, <1>8, <1>9, <1>10, <1>11, <1>12, <1>13, <1>14, <1>15, <1>16, <1>17, <1>18, <1>19, <1>20, <1>21, <1>22, <1>23, <1>24, <1>25, <1>26, <1>27, <1>28, <1>29, <1>30, <1>31, <1>32, <1>33, <1>34
     DEF Next, Loop, Builder, Watch, Verdict, Restart, OwnerContinues, AckContinues

LEMMA SafeImplied ==
  ASSUME TypeOK, Safe
  PROVE  OneChildAtATime /\ DoneMeansNoChild
<1>1. n \in Nat /\ \A k \in 1 .. n : k \in Children /\ k \in Nat /\ (k < n \/ k = n)
  BY DEF TypeOK, Pids, Children
<1>2. \A k \in Children : k < n => phase[k] \in Over
  BY DEF Safe, ChildrenInOrder
<1>3. OneChildAtATime
  BY <1>1, <1>2 DEF OneChildAtATime
<1>4. pc \in Ended \/ owner = "returned" => \A k \in Children : k = n => phase[k] \in Over
  BY DEF Safe, ChildrenInOrder, Busy, Watching, Ended
<1> QED
  BY <1>1, <1>2, <1>3, <1>4 DEF DoneMeansNoChild

LEMMA AlwaysSafe == Spec => [](TypeOK /\ Indexed /\ Safe)
<1>1. TypeOK /\ Indexed /\ Safe /\ [Next]_vars => (TypeOK /\ Indexed /\ Safe)'
  BY StepTyped, StepSafe
<1> QED
  BY InitTyped, InitSafe, <1>1, PTL DEF Spec

\* No child is spawned before all the earlier ones, descendants included, are over.
THEOREM OneChildAtATimeHolds == Spec => []OneChildAtATime
BY AlwaysSafe, SafeImplied, PTL

\* When the loop has ended, or stop() returned, no child is left.
THEOREM DoneMeansNoChildHolds == Spec => []DoneMeansNoChild
BY AlwaysSafe, SafeImplied, PTL

\* A live child can be reached by whoever has to kill it.
THEOREM NobodyIsOrphanedHolds == Spec => []NobodyIsOrphaned
<1>1. Safe => NobodyIsOrphaned
  BY DEF Safe
<1> QED
  BY AlwaysSafe, <1>1, PTL

(***************************************************************************)
(* Acknowledged readiness: each child is acknowledged at most once, and    *)
(* Ready is only ever emitted for a child that was itself acknowledged.    *)
(***************************************************************************)

Holds(a, pid) == acker[a] \in {"send", "true"} /\ ack_pid[a] = pid

\* ready_pending is a permit: it is created once per announced child, and the
\* calls that took it are the only ones that hold the pid.
Permits ==
  /\ AcknowledgedOnce
  /\ \A a \in Ackers : ready_pending # 0 => ~Holds(a, ready_pending)
  /\ \A a \in Ackers : acker[a] \in {"send", "true"} => ack_pid[a] <= announced
  /\ ready_pending <= announced /\ announced <= n
  /\ pc \in {"greet", "install", "announce"} => announced < n

Acked(pid) == \E a \in Ackers : acker[a] = "true" /\ ack_pid[a] = pid

\* Whatever is queued or about to become Ready was acknowledged, and the shared
\* handle is the one of the child being watched.
ReadyEarned ==
  /\ \A i \in 1 .. Len(ready_rx) : Acked(ready_rx[i])
  /\ Acknowledged /\ pc = "readied" => Acked(n)
  /\ Acknowledged /\ event = "Ready" => Acked(n)
  /\ pc \in {"new", "first", "spawn", "backoff"} => event # "Ready"
  /\ current # 0 => current = n /\ pc \in Watching \cup {"wind_up", "announce"}

LEMMA InitAcknowledged == Init => Permits /\ ReadyEarned
BY DEF Init, Permits, ReadyEarned, AcknowledgedOnce, Holds, Acked

\* No step duplicates a permit.
LEMMA StepPermits ==
  ASSUME TypeOK, Indexed, Permits, [Next]_vars
  PROVE  Permits'
<1> USE DEF Permits, AcknowledgedOnce, Holds, Busy, Watching, vars, round, books, told,
            shared, calls, rest, Goto
<1>t. /\ n \in 0 .. MaxSpawns /\ announced \in 0 .. MaxSpawns
      /\ ready_pending \in 0 .. MaxSpawns
      /\ acker \in [Ackers -> {"idle", "cas", "send", "true", "false"}]
      /\ ack_pid \in [Ackers -> 0 .. MaxSpawns]
      /\ \A a \in Ackers : acker[a] \in {"cas", "send"} => ack_pid[a] \in 1 .. MaxSpawns
  BY DEF TypeOK, Indexed, Pids, Children
<1>1. CASE BuilderChecksToken
  BY <1>1, <1>t DEF BuilderChecksToken
<1>2. CASE FirstSpawn
  BY <1>2, <1>t DEF FirstSpawn, SpawnOk
<1>3. CASE FirstSpawnFails
  BY <1>3, <1>t DEF FirstSpawnFails
<1>4. CASE FirstStarted
  BY <1>4, <1>t DEF FirstStarted, StoreAndStart
<1>5. CASE PollCancelled
  BY <1>5, <1>t DEF PollCancelled
<1>6. CASE PollTimer
  BY <1>6, <1>t DEF PollTimer
<1>7. CASE PollAcknowledged
  BY <1>7, <1>t DEF PollAcknowledged
<1>8. CASE BecomeReady
  BY <1>8, <1>t DEF BecomeReady
<1>9. CASE PollEvent
  BY <1>9, <1>t DEF PollEvent
<1>10. CASE WindUp
  BY <1>10, <1>t DEF WindUp
<1>11. CASE Judge
  BY <1>11, <1>t DEF Judge
<1>12. CASE StormGuard
  BY <1>12, <1>t DEF StormGuard
<1>13. CASE CountAttempt
  BY <1>13, <1>t DEF CountAttempt
<1>14. CASE SleepBackoff
  BY <1>14, <1>t DEF SleepBackoff, StopOrGoto
<1>15. CASE Respawn
  BY <1>15, <1>t DEF Respawn, SpawnOk
<1>16. CASE RespawnFails
  BY <1>16, <1>t DEF RespawnFails, StopOrGoto
<1>17. CASE Install
  BY <1>17, <1>t DEF Install
<1>18. CASE Announce
  BY <1>18, <1>t DEF Announce, StoreAndStart
<1>19. CASE TimerFires
  BY <1>19, <1>t DEF TimerFires, LoopWaits
<1>20. CASE Tick
  BY <1>20, <1>t DEF Tick, LoopWaits
<1>21. CASE CancelToken
  BY <1>21, <1>t DEF CancelToken, LoopWaits
<1>22. CASE KillTaskAsks
  BY <1>22, <1>t DEF KillTaskAsks, LoopWaits
<1>23. CASE StopCancels
  BY <1>23, <1>t DEF StopCancels, OwnerGoes, LoopWaits
<1>24. CASE StopTakes
  BY <1>24, <1>t DEF StopTakes, OwnerGoes, LoopWaits
<1>25. CASE StopAsks
  BY <1>25, <1>t DEF StopAsks, OwnerGoes, LoopWaits
<1>26. CASE StopJoins
  BY <1>26, <1>t DEF StopJoins, OwnerGoes, LoopWaits
<1>27. CASE DropCancels
  BY <1>27, <1>t DEF DropCancels, OwnerGoes, LoopWaits
<1>28. CASE DropCloses
  BY <1>28, <1>t DEF DropCloses, OwnerGoes, LoopWaits
<1>29. CASE Finished
  BY <1>29, <1>t DEF Finished
<1>30. ASSUME NEW a \in Ackers, NEW pid \in Children, AckChecks(a, pid)
       PROVE  Permits'
  BY <1>30, <1>t DEF AckChecks, AckerGoes, LoopWaits
<1>31. ASSUME NEW a \in Ackers, AckSwaps(a)
       PROVE  Permits'
  BY <1>31, <1>t DEF AckSwaps, AckerGoes, LoopWaits, Exchanged
<1>32. ASSUME NEW a \in Ackers, AckSends(a)
       PROVE  Permits'
  BY <1>32, <1>t DEF AckSends, AckerGoes, LoopWaits
<1>33. ASSUME NEW k \in Children, ChildMoves(k)
       PROVE  Permits'
  BY <1>33, <1>t DEF ChildMoves, LoopWaits
<1>34. CASE UNCHANGED vars
  BY <1>34, <1>t
<1> QED
  BY <1>1, <1>2, <1>3, <1>4, <1>5, <1>6, <1>7, <1>8, <1>9, <1>10, <1>11, <1>12, <1>13, <1>14, <1>15, <1>16, <1>17, <1>18, <1>19, <1>20, <1>21, <1>22, <1>23, <1>24, <1>25, <1>26, <1>27, <1>28, <1>29, <1>30, <1>31, <1>32, <1>33, <1>34
     DEF Next, Loop, Builder, Watch, Verdict, Restart, OwnerContinues, AckContinues

\* No step makes a child ready that was not acknowledged itself.
LEMMA StepReadyEarned ==
  ASSUME TypeOK, Indexed, Permits, ReadyEarned, [Next]_vars
  PROVE  ReadyEarned'
<1> USE DEF ReadyEarned, Acked, Watching, vars, round, books, told, shared, calls, rest, Goto
<1>t. /\ ready_rx \in Seq(Children)
      /\ acker \in [Ackers -> {"idle", "cas", "send", "true", "false"}]
      /\ ack_pid \in [Ackers -> Pids]
  BY DEF TypeOK
<1>1. CASE BuilderChecksToken
  BY <1>1, <1>t DEF BuilderChecksToken
<1>2. CASE FirstSpawn
  BY <1>2, <1>t DEF FirstSpawn, SpawnOk
<1>3. CASE FirstSpawnFails
  BY <1>3, <1>t DEF FirstSpawnFails
<1>4. CASE FirstStarted
  BY <1>4, <1>t DEF FirstStarted, StoreAndStart, Emit
<1>5. CASE PollCancelled
  BY <1>5, <1>t DEF PollCancelled
<1>6. CASE PollTimer
  BY <1>6, <1>t DEF PollTimer, Passes
<1>7. CASE PollAcknowledged
  <2>1. CASE readiness_pending /\ ready_rx # <<>>
    <3>1. /\ Len(ready_rx) > 0 /\ Head(ready_rx) = ready_rx[1]
          /\ \A i \in 1 .. Len(Tail(ready_rx)) :
               i + 1 \in 1 .. Len(ready_rx) /\ Tail(ready_rx)[i] = ready_rx[i + 1]
      BY <1>t, <2>1
    <3>2. ready_rx' = Tail(ready_rx)
      BY <1>7, <2>1 DEF PollAcknowledged
    <3>3. UNCHANGED <<acker, ack_pid>>
      BY <1>7 DEF PollAcknowledged
    <3>4. (\A i \in 1 .. Len(ready_rx) : Acked(ready_rx[i]))'
      <4> SUFFICES ASSUME NEW i \in 1 .. Len(ready_rx')
                   PROVE  \E b \in Ackers : acker'[b] = "true" /\ ack_pid'[b] = ready_rx'[i]
        OBVIOUS
      <4>1. i + 1 \in 1 .. Len(ready_rx) /\ ready_rx'[i] = ready_rx[i + 1]
        BY <3>1, <3>2
      <4> QED
        BY <3>3, <4>1
    <3>5. pc' = "readied" => current = n /\ Acked(n)
      BY <1>7, <2>1, <3>1 DEF PollAcknowledged, Passes
    <3> QED
      BY <1>7, <3>3, <3>4, <3>5 DEF PollAcknowledged
  <2>2. CASE ~(readiness_pending /\ ready_rx # <<>>)
    BY <1>7, <2>2 DEF PollAcknowledged
  <2> QED
    BY <2>1, <2>2
<1>8. CASE BecomeReady
  BY <1>8, <1>t DEF BecomeReady, Emit
<1>9. CASE PollEvent
  BY <1>9, <1>t DEF PollEvent
<1>10. CASE WindUp
  BY <1>10, <1>t DEF WindUp, Emit
<1>11. CASE Judge
  BY <1>11, <1>t DEF Judge, Emit
<1>12. CASE StormGuard
  BY <1>12, <1>t DEF StormGuard, Emit
<1>13. CASE CountAttempt
  BY <1>13, <1>t DEF CountAttempt, Emit
<1>14. CASE SleepBackoff
  BY <1>14, <1>t DEF SleepBackoff, StopOrGoto, Emit
<1>15. CASE Respawn
  BY <1>15, <1>t DEF Respawn, SpawnOk
<1>16. CASE RespawnFails
  BY <1>16, <1>t DEF RespawnFails, StopOrGoto, Emit
<1>17. CASE Install
  BY <1>17, <1>t DEF Install
<1>18. CASE Announce
  BY <1>18, <1>t DEF Announce, StoreAndStart, Emit
<1>19. CASE TimerFires
  BY <1>19, <1>t DEF TimerFires, LoopWaits
<1>20. CASE Tick
  BY <1>20, <1>t DEF Tick, LoopWaits
<1>21. CASE CancelToken
  BY <1>21, <1>t DEF CancelToken, LoopWaits
<1>22. CASE KillTaskAsks
  BY <1>22, <1>t DEF KillTaskAsks, LoopWaits
<1>23. CASE StopCancels
  BY <1>23, <1>t DEF StopCancels, OwnerGoes, LoopWaits
<1>24. CASE StopTakes
  BY <1>24, <1>t DEF StopTakes, OwnerGoes, LoopWaits
<1>25. CASE StopAsks
  BY <1>25, <1>t DEF StopAsks, OwnerGoes, LoopWaits
<1>26. CASE StopJoins
  BY <1>26, <1>t DEF StopJoins, OwnerGoes, LoopWaits
<1>27. CASE DropCancels
  BY <1>27, <1>t DEF DropCancels, OwnerGoes, LoopWaits
<1>28. CASE DropCloses
  BY <1>28, <1>t DEF DropCloses, OwnerGoes, LoopWaits
<1>29. CASE Finished
  BY <1>29, <1>t DEF Finished
<1>30. ASSUME NEW a \in Ackers, NEW pid \in Children, AckChecks(a, pid)
       PROVE  ReadyEarned'
  BY <1>30, <1>t DEF AckChecks, AckerGoes, LoopWaits
<1>31. ASSUME NEW a \in Ackers, AckSwaps(a)
       PROVE  ReadyEarned'
  BY <1>31, <1>t DEF AckSwaps, AckerGoes, LoopWaits, Exchanged
<1>32. ASSUME NEW a \in Ackers, AckSends(a)
       PROVE  ReadyEarned'
  <2>1. \A pid \in Pids : Acked(pid) => Acked(pid)'
    BY <1>32, <1>t DEF AckSends, AckerGoes
  <2>2. (\A i \in 1 .. Len(ready_rx) : Acked(ready_rx[i]))'
    <3>1. CASE pc = "done"
      <4>1. ready_rx' = ready_rx /\ ack_pid' = ack_pid
        BY <1>32, <3>1 DEF AckSends
      <4>2. \A i \in 1 .. Len(ready_rx) : ready_rx[i] \in Pids
        BY <1>t, LenProperties, ElementOfSeq DEF Pids, Children
      <4> QED
        BY <2>1, <4>1, <4>2
    <3>2. CASE pc # "done"
      <4>1. /\ ready_rx' = Append(ready_rx, ack_pid[a])
            /\ acker'[a] = "true" /\ ack_pid' = ack_pid
        BY <1>32, <3>2, <1>t DEF AckSends, AckerGoes, SentPid
      <4>2. ack_pid[a] \in Children
        BY <1>32 DEF AckSends, AckerGoes, Indexed
      <4>3. Acked(ack_pid[a])'
        BY <4>1
      <4>4. \A i \in 1 .. Len(ready_rx) : ready_rx[i] \in Pids /\ Acked(ready_rx[i])
        BY <1>t, LenProperties, ElementOfSeq DEF Pids, Children
      <4>5. /\ Len(ready_rx') = Len(ready_rx) + 1 /\ Len(ready_rx) \in Nat
            /\ \A i \in 1 .. Len(ready_rx) : ready_rx'[i] = ready_rx[i]
            /\ ready_rx'[Len(ready_rx) + 1] = ack_pid[a]
        BY <1>t, <4>1, <4>2, AppendProperties, LenProperties
      <4> SUFFICES ASSUME NEW i \in 1 .. Len(ready_rx')
                   PROVE  \E b \in Ackers : acker'[b] = "true" /\ ack_pid'[b] = ready_rx'[i]
        OBVIOUS
      <4>6. CASE i = Len(ready_rx) + 1
        BY <4>1, <4>5, <4>6
      <4>7. CASE i \in 1 .. Len(ready_rx)
        BY <2>1, <4>4, <4>5, <4>7
      <4> QED
        BY <4>5, <4>6, <4>7
    <3> QED
      BY <3>1, <3>2
  <2> QED
    <3>1. UNCHANGED <<pc, n, event, current>>
      BY <1>32 DEF AckSends, AckerGoes, LoopWaits
    <3>2. n \in Pids
      BY DEF TypeOK
    <3>3. Acknowledged /\ (pc = "readied" \/ event = "Ready") => Acked(n)'
      BY <2>1, <3>1, <3>2
    <3> QED
      BY <2>2, <3>1, <3>3
<1>33. ASSUME NEW k \in Children, ChildMoves(k)
       PROVE  ReadyEarned'
  BY <1>33, <1>t DEF ChildMoves, LoopWaits
<1>34. CASE UNCHANGED vars
  BY <1>34, <1>t
<1> QED
  BY <1>1, <1>2, <1>3, <1>4, <1>5, <1>6, <1>7, <1>8, <1>9, <1>10, <1>11, <1>12, <1>13, <1>14, <1>15, <1>16, <1>17, <1>18, <1>19, <1>20, <1>21, <1>22, <1>23, <1>24, <1>25, <1>26, <1>27, <1>28, <1>29, <1>30, <1>31, <1>32, <1>33, <1>34
     DEF Next, Loop, Builder, Watch, Verdict, Restart, OwnerContinues, AckContinues

LEMMA AlwaysAcknowledged == Spec => [](Permits /\ ReadyEarned)
<1>1. TypeOK /\ Indexed /\ Permits /\ ReadyEarned /\ [Next]_vars
        => (Permits /\ ReadyEarned)'
  BY StepPermits, StepReadyEarned
<1> QED
  BY InitAcknowledged, AlwaysSafe, <1>1, PTL DEF Spec

\* acknowledge_ready returns true at most once per child.
THEOREM AcknowledgedOnceHolds == Spec => []AcknowledgedOnce
<1>1. Permits => AcknowledgedOnce
  BY DEF Permits
<1> QED
  BY AlwaysAcknowledged, <1>1, PTL

\* A child that became ready was acknowledged by a call that named it.
THEOREM ReadyWasAcknowledgedHolds == Spec => []ReadyWasAcknowledged
<1>1. ReadyEarned => ReadyWasAcknowledged
  BY DEF ReadyEarned, ReadyWasAcknowledged, Acked
<1> QED
  BY AlwaysAcknowledged, <1>1, PTL

(***************************************************************************)
(* The other half: an acknowledgement is not lost.                         *)
(***************************************************************************)
In(x, q) == \E i \in 1 .. Len(q) : q[i] = x
QueuedReady(pid) == In(pid, ready_rx)

\* An acknowledgement that returned true waits in the channel, with the probe still
\* armed, until it is announced, as long as its child lives and supervision goes on:
\* neither the round of another child nor a stale pid in front of it uses it up
\* (supervisor.rs 200-208, 379-397).
AcknowledgementIsKept ==
  \A a \in Ackers :
    /\ acker[a] = "true" /\ ack_pid[a] = n /\ n \in Children
    /\ ~watch[n] /\ ~token
    => \/ event = "Ready" \/ pc = "readied"
       \/ readiness_pending /\ QueuedReady(n)

\* Whoever watches a child that was not cancelled shares its handle and listens.
Listening ==
  /\ ~Acknowledged => ready_pending = 0 /\ \A a \in Ackers : acker[a] \notin {"send", "true"}
  /\ ~token => owner \in {"absent", "held"}
  /\ ~token /\ pc \in Watching \cup {"announce"} => current = n /\ ~cancelled
  /\ Acknowledged /\ ~token /\ pc \in Watching =>
       readiness_pending \/ pc = "readied" \/ event = "Ready"
  /\ pc \in {"new", "first", "greet", "announce"} => readiness_pending /\ ~cancelled
  /\ n \in Children /\ pc \notin Busy => watch[n]
  /\ \A k \in Children : phase[k] \in Over => watch[k]

\* No step stops listening to a child that may still become ready.
LEMMA StepListening ==
  ASSUME TypeOK, Indexed, Safe, Listening, [Next]_vars
  PROVE  Listening'
<1> USE DEF Listening, Busy, Watching, Over, vars, round, books, told, shared, calls, rest, childVars, Goto
<1>t. /\ n \in 0 .. MaxSpawns /\ watch \in [Children -> BOOLEAN] /\ phase \in [Children -> Phases]
      /\ Children = 1 .. MaxSpawns /\ token \in BOOLEAN /\ readiness_pending \in BOOLEAN
      /\ acker \in [Ackers -> {"idle", "cas", "send", "true", "false"}]
      /\ \A a \in Ackers : acker[a] \in {"cas", "send"} => ack_pid[a] \in Children
      /\ pc \in Watching \cup {"greet", "install", "announce", "wind_up"} => n \in Children
      /\ pc \in {"new", "first"} => n = 0
  BY DEF TypeOK, ChildTypeOK, Indexed, Pids, Children, Safe, ChildrenInOrder
<1>1. CASE BuilderChecksToken
  BY <1>1, <1>t DEF BuilderChecksToken
<1>2. CASE FirstSpawn
  BY <1>2, <1>t DEF FirstSpawn, SpawnOk, Start
<1>3. CASE FirstSpawnFails
  BY <1>3, <1>t DEF FirstSpawnFails
<1>4. CASE FirstStarted
  BY <1>4, <1>t DEF FirstStarted, StoreAndStart, Emit
<1>5. CASE PollCancelled
  BY <1>5, <1>t DEF PollCancelled, TakeForKill
<1>6. CASE PollTimer
  BY <1>6, <1>t DEF PollTimer, Passes
<1>7. CASE PollAcknowledged
  BY <1>7, <1>t DEF PollAcknowledged, Passes
<1>8. CASE BecomeReady
  BY <1>8, <1>t DEF BecomeReady, Emit
<1>9. CASE PollEvent
  BY <1>9, <1>t DEF PollEvent, ChannelOver
<1>10. CASE WindUp
  BY <1>10, <1>t DEF WindUp, Emit
<1>11. CASE Judge
  BY <1>11, <1>t DEF Judge
<1>12. CASE StormGuard
  BY <1>12, <1>t DEF StormGuard
<1>13. CASE CountAttempt
  BY <1>13, <1>t DEF CountAttempt
<1>14. CASE SleepBackoff
  BY <1>14, <1>t DEF SleepBackoff, StopOrGoto
<1>15. CASE Respawn
  BY <1>15, <1>t DEF Respawn, SpawnOk, Start
<1>16. CASE RespawnFails
  BY <1>16, <1>t DEF RespawnFails, StopOrGoto
<1>17. CASE Install
  BY <1>17, <1>t DEF Install, FreshProbe
<1>18. CASE Announce
  BY <1>18, <1>t DEF Announce, StoreAndStart, Emit
<1>19. CASE TimerFires
  BY <1>19, <1>t DEF TimerFires, LoopWaits
<1>20. CASE Tick
  BY <1>20, <1>t DEF Tick, LoopWaits
<1>21. CASE CancelToken
  BY <1>21, <1>t DEF CancelToken, LoopWaits
<1>22. CASE KillTaskAsks
  BY <1>22, <1>t DEF KillTaskAsks, Ask, LoopWaits
<1>23. CASE StopCancels
  BY <1>23, <1>t DEF StopCancels, CancelOwnToken, OwnerGoes, LoopWaits
<1>24. CASE StopTakes
  BY <1>24, <1>t DEF StopTakes, OwnerGoes, LoopWaits
<1>25. CASE StopAsks
  BY <1>25, <1>t DEF StopAsks, Ask, OwnerGoes, LoopWaits
<1>26. CASE StopJoins
  BY <1>26, <1>t DEF StopJoins, OwnerGoes, LoopWaits
<1>27. CASE DropCancels
  BY <1>27, <1>t DEF DropCancels, OwnerGoes, LoopWaits
<1>28. CASE DropCloses
  BY <1>28, <1>t DEF DropCloses, OwnerGoes, LoopWaits
<1>29. CASE Finished
  BY <1>29, <1>t DEF Finished
<1>30. ASSUME NEW a \in Ackers, NEW pid \in Children, AckChecks(a, pid)
       PROVE  Listening'
  BY <1>30, <1>t DEF AckChecks, AckerGoes, LoopWaits
<1>31. ASSUME NEW a \in Ackers, AckSwaps(a)
       PROVE  Listening'
  BY <1>31, <1>t DEF AckSwaps, AckerGoes, LoopWaits, Exchanged
<1>32. ASSUME NEW a \in Ackers, AckSends(a)
       PROVE  Listening'
  BY <1>32, <1>t DEF AckSends, AckerGoes, LoopWaits
<1>33. ASSUME NEW k \in Children, ChildMoves(k)
       PROVE  Listening'
  <2>1. /\ UNCHANGED <<pc, n, cancelled, readiness_pending, event, token, current,
                       ready_pending, owner, acker>>
        /\ ChildStep(k)
    BY <1>33 DEF ChildMoves, LoopWaits
  <2>2. \A j \in Children : watch[j] => watch'[j]
    BY <2>1, <1>t DEF ChildStep, Exit, Disband, Report, Deliver, Ending, Lose
  <2>3. \A j \in Children : phase'[j] \in Over => watch'[j]
    BY <2>1, <1>t DEF ChildStep, Exit, Disband, Report, Deliver, Ending, Lose
  <2>4. n' \in Children /\ pc' \notin Busy => watch'[n']
    BY <2>1, <2>2
  <2> HIDE DEF Over, Busy, Watching
  <2> QED
    BY <2>1, <2>3, <2>4
<1>34. CASE UNCHANGED vars
  BY <1>34, <1>t
<1> QED
  BY <1>1, <1>2, <1>3, <1>4, <1>5, <1>6, <1>7, <1>8, <1>9, <1>10, <1>11, <1>12, <1>13, <1>14, <1>15, <1>16, <1>17, <1>18, <1>19, <1>20, <1>21, <1>22, <1>23, <1>24, <1>25, <1>26, <1>27, <1>28, <1>29, <1>30, <1>31, <1>32, <1>33, <1>34
     DEF Next, Loop, Builder, Watch, Verdict, Restart, OwnerContinues, AckContinues


LEMMA QueuedBehind ==
  ASSUME NEW S, NEW q \in Seq(S), q # <<>>, NEW x, x # Head(q), In(x, q)
  PROVE  In(x, Tail(q))
<1>1. /\ Len(q) \in Nat /\ Head(q) = q[1] /\ Len(Tail(q)) = Len(q) - 1
      /\ \A j \in 1 .. Len(q) - 1 : Tail(q)[j] = q[j + 1]
  OBVIOUS
<1>2. PICK i \in 1 .. Len(q) : q[i] = x
  BY DEF In
<1>3. i - 1 \in 1 .. Len(q) - 1 /\ (i - 1) + 1 = i
  BY <1>1, <1>2
<1> QED
  BY <1>1, <1>2, <1>3 DEF In

LEMMA QueuedInFront ==
  ASSUME NEW S, NEW q \in Seq(S), NEW x \in S
  PROVE  In(x, Append(q, x)) /\ \A y : In(y, q) => In(y, Append(q, x))
<1>1. /\ Len(q) \in Nat /\ Len(Append(q, x)) = Len(q) + 1
      /\ \A i \in 1 .. Len(q) : Append(q, x)[i] = q[i]
      /\ Append(q, x)[Len(q) + 1] = x
  OBVIOUS
<1> QED
  BY <1>1 DEF In

\* No step loses an acknowledgement.
LEMMA StepKept ==
  ASSUME TypeOK, Indexed, Safe, Permits, Listening, AcknowledgementIsKept, [Next]_vars
  PROVE  AcknowledgementIsKept'
<1> USE DEF AcknowledgementIsKept, Busy, Watching, Over, vars, round, books, told, shared, calls, rest, childVars, Goto
<1>t. /\ n \in 0 .. MaxSpawns /\ watch \in [Children -> BOOLEAN] /\ phase \in [Children -> Phases]
      /\ Children = 1 .. MaxSpawns /\ token \in BOOLEAN /\ readiness_pending \in BOOLEAN
      /\ acker \in [Ackers -> {"idle", "cas", "send", "true", "false"}]
      /\ ack_pid \in [Ackers -> Pids] /\ ready_rx \in Seq(Children)
      /\ announced \in 0 .. MaxSpawns
      /\ \A a \in Ackers : acker[a] \in {"cas", "send"} => ack_pid[a] \in Children
      /\ \A a \in Ackers : acker[a] \in {"send", "true"} => ack_pid[a] <= announced
      /\ announced <= n /\ (pc \in {"greet", "install", "announce"} => announced < n)
      /\ \A a \in Ackers : ack_pid[a] \in 0 .. MaxSpawns
  BY DEF TypeOK, ChildTypeOK, Indexed, Pids, Children, Permits
<1>l. /\ ~Acknowledged => \A a \in Ackers : acker[a] \notin {"send", "true"}
      /\ ~token => owner \in {"absent", "held"}
      /\ ~token /\ pc \in Watching => current = n /\ ~cancelled
      /\ Acknowledged /\ ~token /\ pc \in Watching =>
           readiness_pending \/ pc = "readied" \/ event = "Ready"
      /\ n \in Children /\ pc \notin Busy => watch[n]
      /\ \A k \in Children : phase[k] \in Over => watch[k]
  BY DEF Listening
\* Steps that have nothing to do with the acknowledgements.
<1>f. ASSUME UNCHANGED <<n, ready_rx, acker, ack_pid>>, token => token',
             \A k \in Children : watch[k] => watch'[k],
             ~token /\ (n \in Children => ~watch[n]) =>
               /\ readiness_pending => readiness_pending'
               /\ event = "Ready" => event' = "Ready"
               /\ pc = "readied" => pc' = "readied" \/ event' = "Ready"
      PROVE  AcknowledgementIsKept'
  <2> SUFFICES ASSUME NEW a \in Ackers, acker[a] = "true", ack_pid[a] = n, n \in Children,
                      ~watch'[n], ~token'
               PROVE  \/ event' = "Ready" \/ pc' = "readied"
                      \/ readiness_pending' /\ QueuedReady(n)'
    BY <1>f
  <2>1. ~watch[n] /\ ~token
    BY <1>f
  <2>2. QueuedReady(n)' <=> QueuedReady(n)
    BY <1>f DEF QueuedReady
  <2> QED
    BY <1>f, <2>1, <2>2
<1>1. CASE BuilderChecksToken
  BY <1>1, <1>t, <1>l DEF BuilderChecksToken
<1>2. CASE FirstSpawn
  BY <1>2, <1>t, <1>l DEF FirstSpawn, SpawnOk, Start
<1>3. CASE FirstSpawnFails
  BY <1>3, <1>t, <1>l DEF FirstSpawnFails
<1>4. CASE FirstStarted
  BY <1>4, <1>t, <1>l DEF FirstStarted, StoreAndStart, Emit
<1>5. CASE PollCancelled
  BY <1>5, <1>f, <1>t, <1>l DEF PollCancelled
<1>6. CASE PollTimer
  BY <1>6, <1>t, <1>l DEF PollTimer, Passes
<1>7. CASE PollAcknowledged
  <2>1. CASE ~readiness_pending \/ ready_rx = <<>>
    BY <1>7, <2>1, <1>f, <1>t, <1>l DEF PollAcknowledged
  <2>2. CASE readiness_pending /\ ready_rx # <<>>
    <3>1. /\ ready_rx' = Tail(ready_rx) /\ UNCHANGED <<n, acker, ack_pid, watch, token, event>>
          /\ readiness_pending' = ~Passes(Head(ready_rx)) /\ pc = "ready"
          /\ pc' = IF Passes(Head(ready_rx)) THEN "readied" ELSE "watch"
      BY <1>7, <2>2 DEF PollAcknowledged
    <3> SUFFICES ASSUME NEW a \in Ackers, acker[a] = "true", ack_pid[a] = n, n \in Children,
                        ~watch[n], ~token, event # "Ready", pc' # "readied"
                 PROVE  readiness_pending' /\ QueuedReady(n)'
      BY <3>1
    <3>2. current = n /\ QueuedReady(n)
      BY <3>1, <1>l
    <3>3. ~Passes(Head(ready_rx))
      BY <3>1
    <3>4. Head(ready_rx) # n
      BY <3>2, <3>3, <1>t DEF Passes
    <3>5. QueuedReady(n)'
      <4>1. In(n, Tail(ready_rx))
        BY <3>2, <3>4, <2>2, <1>t, QueuedBehind DEF QueuedReady
      <4> QED
        BY <3>1, <4>1 DEF QueuedReady
    <3> QED
      BY <3>1, <3>3, <3>5
  <2> QED
    BY <2>1, <2>2
<1>8. CASE BecomeReady
  BY <1>8, <1>t, <1>l DEF BecomeReady, Emit
<1>9. CASE PollEvent
  BY <1>9, <1>f, <1>t, <1>l DEF PollEvent, ChannelOver
<1>10. CASE WindUp
  BY <1>10, <1>t, <1>l DEF WindUp, Emit
<1>11. CASE Judge
  BY <1>11, <1>t, <1>l DEF Judge
<1>12. CASE StormGuard
  BY <1>12, <1>t, <1>l DEF StormGuard
<1>13. CASE CountAttempt
  BY <1>13, <1>t, <1>l DEF CountAttempt
<1>14. CASE SleepBackoff
  BY <1>14, <1>t, <1>l DEF SleepBackoff, StopOrGoto
<1>15. CASE Respawn
  BY <1>15, <1>t, <1>l DEF Respawn, SpawnOk, Start
<1>16. CASE RespawnFails
  BY <1>16, <1>t, <1>l DEF RespawnFails, StopOrGoto
<1>17. CASE Install
  BY <1>17, <1>t, <1>l DEF Install, FreshProbe
<1>18. CASE Announce
  BY <1>18, <1>t, <1>l DEF Announce, StoreAndStart, Emit
<1>19. CASE TimerFires
  BY <1>19, <1>t, <1>l DEF TimerFires, LoopWaits
<1>20. CASE Tick
  BY <1>20, <1>f, <1>t, <1>l DEF Tick, LoopWaits
<1>21. CASE CancelToken
  BY <1>21, <1>t, <1>l DEF CancelToken, LoopWaits
<1>22. CASE KillTaskAsks
  BY <1>22, <1>f, <1>t, <1>l DEF KillTaskAsks, Ask, LoopWaits
<1>23. CASE StopCancels
  BY <1>23, <1>t, <1>l DEF StopCancels, CancelOwnToken, OwnerGoes, LoopWaits
<1>24. CASE StopTakes
  BY <1>24, <1>t, <1>l DEF StopTakes, OwnerGoes, LoopWaits
<1>25. CASE StopAsks
  BY <1>25, <1>t, <1>l DEF StopAsks, Ask, OwnerGoes, LoopWaits
<1>26. CASE StopJoins
  BY <1>26, <1>t, <1>l DEF StopJoins, OwnerGoes, LoopWaits
<1>27. CASE DropCancels
  BY <1>27, <1>f, <1>t, <1>l DEF DropCancels, OwnerGoes, LoopWaits
<1>28. CASE DropCloses
  BY <1>28, <1>t, <1>l DEF DropCloses, OwnerGoes, LoopWaits
<1>29. CASE Finished
  BY <1>29, <1>f, <1>t, <1>l DEF Finished
<1>30. ASSUME NEW a \in Ackers, NEW pid \in Children, AckChecks(a, pid)
       PROVE  AcknowledgementIsKept'
  <2>1. /\ UNCHANGED <<n, ready_rx, watch, token, event, pc, readiness_pending>>
        /\ acker[a] = "idle" /\ acker'[a] # "true"
        /\ \A b \in Ackers : b # a => acker'[b] = acker[b] /\ ack_pid'[b] = ack_pid[b]
    BY <1>30, <1>t DEF AckChecks, AckerGoes, LoopWaits
  <2>2. QueuedReady(n)' <=> QueuedReady(n)
    BY <2>1 DEF QueuedReady
  <2> QED
    BY <2>1, <2>2
<1>31. ASSUME NEW a \in Ackers, AckSwaps(a)
       PROVE  AcknowledgementIsKept'
  <2>1. /\ UNCHANGED <<n, ready_rx, watch, token, event, pc, readiness_pending, ack_pid>>
        /\ acker'[a] # "true" /\ \A b \in Ackers : b # a => acker'[b] = acker[b]
    BY <1>31, <1>t DEF AckSwaps, AckerGoes, LoopWaits
  <2>2. QueuedReady(n)' <=> QueuedReady(n)
    BY <2>1 DEF QueuedReady
  <2> QED
    BY <2>1, <2>2
<1>32. ASSUME NEW a \in Ackers, AckSends(a)
       PROVE  AcknowledgementIsKept'
  <2>1. /\ UNCHANGED <<n, watch, token, event, pc, readiness_pending, ack_pid>>
        /\ acker[a] = "send" /\ acker'[a] = IF pc = "done" THEN "false" ELSE "true"
        /\ \A b \in Ackers : b # a => acker'[b] = acker[b]
        /\ ready_rx' = IF pc = "done" THEN ready_rx ELSE Append(ready_rx, ack_pid[a])
        /\ ack_pid[a] \in Children
    BY <1>32, <1>t DEF AckSends, AckerGoes, LoopWaits, SentPid
  <2>2. /\ QueuedReady(n) => QueuedReady(n)'
        /\ pc # "done" /\ ack_pid[a] = n => QueuedReady(n)'
    <3>1. CASE pc = "done"
      BY <2>1, <3>1 DEF QueuedReady
    <3>2. CASE pc # "done"
      <4>1. /\ In(ack_pid[a], Append(ready_rx, ack_pid[a]))
            /\ In(n, ready_rx) => In(n, Append(ready_rx, ack_pid[a]))
        BY <2>1, <1>t, QueuedInFront
      <4> QED
        BY <2>1, <3>2, <4>1 DEF QueuedReady
    <3> QED
      BY <3>1, <3>2
  <2>3. Acknowledged /\ (ack_pid[a] = n => pc \notin {"greet", "install", "announce"})
    BY <2>1, <1>t, <1>l
  <2>4. ack_pid[a] = n /\ ~watch[n] /\ ~token =>
          readiness_pending \/ pc = "readied" \/ event = "Ready"
    BY <2>1, <2>3, <1>l
  <2> QED
    BY <2>1, <2>2, <2>4
<1>33. ASSUME NEW k \in Children, ChildMoves(k)
       PROVE  AcknowledgementIsKept'
  BY <1>33, <1>f, <1>t, <1>l DEF ChildMoves, ChildStep, Exit, Disband, Report, Deliver, Ending, Lose, LoopWaits
<1>34. CASE UNCHANGED vars
  BY <1>34, <1>f, <1>t, <1>l
<1> QED
  BY <1>1, <1>2, <1>3, <1>4, <1>5, <1>6, <1>7, <1>8, <1>9, <1>10, <1>11, <1>12, <1>13, <1>14, <1>15, <1>16, <1>17, <1>18, <1>19, <1>20, <1>21, <1>22, <1>23, <1>24, <1>25, <1>26, <1>27, <1>28, <1>29, <1>30, <1>31, <1>32, <1>33, <1>34
     DEF Next, Loop, Builder, Watch, Verdict, Restart, OwnerContinues, AckContinues


LEMMA AlwaysKept == Spec => [](Listening /\ AcknowledgementIsKept)
<1>1. Init => Listening /\ AcknowledgementIsKept
  BY DEF Init, ChildInit, Listening, AcknowledgementIsKept, Watching, Busy, Over, Children
<1>2. TypeOK /\ Indexed /\ Safe /\ Permits /\ Listening /\ AcknowledgementIsKept /\ [Next]_vars
        => (Listening /\ AcknowledgementIsKept)'
  BY StepListening, StepKept
<1> QED
  BY <1>1, <1>2, AlwaysSafe, AlwaysAcknowledged, PTL DEF Spec

\* An acknowledgement that returned true is announced, or still waits to be, for
\* every number of children, calls and restarts: what AcknowledgementIsHeard needs
\* besides fairness (supervisor.rs 200-208, 379-397).
THEOREM AcknowledgementIsKeptHolds == Spec => []AcknowledgementIsKept
BY AlwaysKept, PTL

\* With AliveAfter the probe of a child that still lives is not spent on anybody
\* else: until Ready, a running child that was announced has a timer to come or is
\* about to be called ready (supervisor.rs 368-378, 388-397).
ProbeStaysArmed ==
  ~Acknowledged /\ ~token /\ event = "Started" /\ pc \in Watching /\ ~watch[n]
    => readiness_pending \/ pc = "readied"

LEMMA StepArmed ==
  ASSUME TypeOK, Indexed, Listening, ProbeStaysArmed, [Next]_vars
  PROVE  ProbeStaysArmed'
<1> USE DEF ProbeStaysArmed, Listening, Watching, vars, round, books, told, shared, calls, rest,
            childVars, Goto, Emit
<1>t. /\ n \in Pids /\ watch \in [Children -> BOOLEAN] /\ Children = 1 .. MaxSpawns
      /\ pc \in Watching => n \in Children
  BY DEF TypeOK, ChildTypeOK, Indexed, Busy, Children
<1>1. CASE Builder
  BY <1>1, <1>t DEF Builder, BuilderChecksToken, FirstSpawn, SpawnOk, Start, FirstSpawnFails,
                    FirstStarted, StoreAndStart
<1>2. CASE PollCancelled \/ PollTimer
  BY <1>2, <1>t DEF PollCancelled, TakeForKill, PollTimer, Passes
<1>3. CASE PollAcknowledged \/ BecomeReady \/ PollEvent
  BY <1>3, <1>t DEF PollAcknowledged, BecomeReady, PollEvent
<1>4. CASE Verdict
  BY <1>4, <1>t DEF Verdict, WindUp, Judge, StormGuard
<1>5. CASE Restart
  BY <1>5, <1>t DEF Restart, CountAttempt, SleepBackoff, StopOrGoto, Respawn, SpawnOk, Start,
                    RespawnFails, Install, FreshProbe, Announce, StoreAndStart
<1>6. ASSUME LoopWaits, \A j \in Children : watch[j] => watch'[j], token => token'
      PROVE  ProbeStaysArmed'
  BY <1>6, <1>t DEF LoopWaits
<1>7. CASE ~Loop
  <2>1. LoopWaits \/ UNCHANGED vars
    BY <1>7 DEF Next, TimerFires, Tick, CancelToken, KillTaskAsks, StopCancels, DropCancels,
                OwnerContinues, StopTakes, StopAsks, StopJoins, DropCloses, OwnerGoes,
                AckContinues, AckChecks, AckSwaps, AckSends, AckerGoes, ChildMoves, Finished
  <2>2. \A j \in Children : watch[j] => watch'[j]
    BY <1>7, <1>t
       DEF Next, TimerFires, Tick, CancelToken, KillTaskAsks, StopCancels, DropCancels, Ask,
           OwnerContinues, StopTakes, StopAsks, StopJoins, DropCloses, OwnerGoes,
           AckContinues, AckChecks, AckSwaps, AckSends, AckerGoes, ChildMoves, Finished,
           ChildStep, Exit, Disband, Report, Deliver, Ending, Lose
  <2>3. token => token'
    BY <1>7, <1>t
       DEF Next, TimerFires, Tick, CancelToken, KillTaskAsks, StopCancels, DropCancels,
           CancelOwnToken, OwnerContinues, StopTakes, StopAsks, StopJoins, DropCloses,
           OwnerGoes, AckContinues, AckChecks, AckSwaps, AckSends, AckerGoes, ChildMoves,
           Finished
  <2> QED
    BY <1>6, <2>1, <2>2, <2>3
<1> QED
  BY <1>1, <1>2, <1>3, <1>4, <1>5, <1>7 DEF Loop, Watch

\* For every number of children and whatever the owner does: what
\* SurvivorBecomesReady needs besides fairness (supervisor.rs 368-378).
THEOREM ProbeStaysArmedHolds == Spec => []ProbeStaysArmed
<1>1. Init => ProbeStaysArmed
  BY DEF Init, ProbeStaysArmed
<1>2. TypeOK /\ Indexed /\ Listening /\ ProbeStaysArmed /\ [Next]_vars => ProbeStaysArmed'
  BY StepArmed
<1> QED
  BY <1>1, <1>2, AlwaysSafe, AlwaysKept, PTL DEF Spec

(***************************************************************************)
(* Nobody waits for a child that nobody ends.                              *)
(***************************************************************************)
\* stop() joins a child it has asked to end, and a loop it has told to; and a loop
\* that has seen the cancellation watches a child that was asked to end, or will be
\* by the kill task or by stop(): a child that shares its handle late, after the
\* cancellation, is taken all the same (supervisor.rs 215-230, 361-367, 421-425, 468-483).
NoWaitInVain ==
  /\ owner \in {"taking", "killing", "joining"} => token
  /\ owner = "joining" /\ stopping # 0 => asked[stopping]
  /\ pc \in Watching /\ cancelled /\ phase[n] \in Alive =>
       \/ asked[n] \/ kill_task = n
       \/ owner = "killing" /\ stopping = n

\* The cancellation empties the shared handle, and only a new round fills it again.
Unshared ==
  /\ owner \in {"taking", "killing", "joining"} => token
  /\ owner = "joining" /\ stopping # 0 => asked[stopping]
  /\ cancelled /\ pc \in Watching => current = 0
  /\ pc \in {"new", "first", "greet", "announce"} => ~cancelled

LEMMA StepUnshared ==
  ASSUME TypeOK, Unshared, [Next]_vars PROVE Unshared'
<1> USE DEF Unshared, Watching, vars, round, books, told, shared, calls, rest, childVars, Goto
<1>t. /\ asked \in [Children -> BOOLEAN] /\ Children = 1 .. MaxSpawns
      /\ stopping \in Pids /\ current \in Pids /\ Pids = 0 .. MaxSpawns /\ MaxSpawns \in Nat
  BY ChildAssumption DEF TypeOK, ChildTypeOK, Children, Pids
<1>1. CASE Builder
  BY <1>1, <1>t DEF Builder, BuilderChecksToken, FirstSpawn, SpawnOk, Start, FirstSpawnFails,
                    FirstStarted, StoreAndStart
<1>2. CASE Watch
  BY <1>2, <1>t DEF Watch, PollCancelled, PollTimer, PollAcknowledged, BecomeReady, PollEvent
<1>3. CASE Verdict
  BY <1>3, <1>t DEF Verdict, WindUp, Judge, StormGuard
<1>4. CASE Restart
  BY <1>4, <1>t DEF Restart, CountAttempt, SleepBackoff, StopOrGoto, Respawn, SpawnOk, Start,
                    RespawnFails, Install, Announce, StoreAndStart
<1>5. CASE TimerFires \/ Tick \/ CancelToken \/ Finished \/ UNCHANGED vars
  BY <1>5 DEF TimerFires, Tick, CancelToken, Finished, LoopWaits
<1>6. CASE KillTaskAsks
  BY <1>6, <1>t DEF KillTaskAsks, Ask, LoopWaits
<1>7. CASE StopCancels \/ StopTakes
  BY <1>7, <1>t DEF StopCancels, CancelOwnToken, StopTakes, OwnerGoes, LoopWaits
<1>8. CASE StopAsks
  BY <1>8, <1>t DEF StopAsks, Ask, OwnerGoes, LoopWaits
<1>9. CASE StopJoins \/ DropCancels \/ DropCloses
  BY <1>9, <1>t DEF StopJoins, DropCancels, DropCloses, OwnerGoes, LoopWaits
<1>10. ASSUME NEW a \in Ackers, AckContinues(a) \/ \E pid \in Children : AckChecks(a, pid)
       PROVE  Unshared'
  BY <1>10 DEF AckContinues, AckChecks, AckSwaps, AckSends, AckerGoes, LoopWaits
<1>11. ASSUME NEW k \in Children, ChildMoves(k) PROVE Unshared'
  BY <1>11 DEF ChildMoves, ChildStep, Exit, Disband, Report, Deliver, Ending, Lose, LoopWaits
<1> QED
  BY <1>1, <1>2, <1>3, <1>4, <1>5, <1>6, <1>7, <1>8, <1>9, <1>10, <1>11
     DEF Next, Loop, OwnerContinues

\* For every number of children and of calls: what StopReturns and CancelEnds need
\* besides fairness (supervisor.rs 215-230, 361-367).
THEOREM NoWaitInVainHolds == Spec => []NoWaitInVain
<1>1. Init => Unshared
  BY DEF Init, Unshared, Watching
<1>2. TypeOK /\ Unshared /\ [Next]_vars => Unshared'
  BY StepUnshared
<1>3. TypeOK /\ Indexed /\ Safe /\ Unshared => NoWaitInVain
  <2> SUFFICES ASSUME TypeOK, Indexed, Safe, Unshared, pc \in Watching, cancelled,
                      phase[n] \in Alive
               PROVE  asked[n] \/ kill_task = n \/ (owner = "killing" /\ stopping = n)
    BY DEF Unshared, NoWaitInVain
  <2>1. n \in Children /\ n > 0 /\ current # n /\ pc \notin {"greet", "install"}
    BY DEF Unshared, Indexed, Busy, Watching, Children
  <2> QED
    BY <2>1 DEF Safe, NobodyIsOrphaned
<1> QED
  BY <1>1, <1>2, <1>3, AlwaysSafe, PTL DEF Spec

(***************************************************************************)
(* The delay before a restart.                                             *)
(***************************************************************************)

\* No restart ever waits more than a quarter longer than the longest delay, however
\* many restarts came before it (supervisor.rs 95-108, 457).
THEOREM DelayIsBounded == Spec => [](4 * delay <= 5 * Greater(MaxDelay, 1))
<1> DEFINE Bounded == 4 * delay <= 5 * Greater(MaxDelay, 1)
<1>1. Greater(MaxDelay, 1) \in Nat /\ MaxDelay <= Greater(MaxDelay, 1)
      /\ 1 <= Greater(MaxDelay, 1)
  BY BackoffAssumption DEF Greater
<1>2. Init => Bounded
  BY <1>1 DEF Init
<1>3. TypeOK /\ Bounded /\ [Next]_vars => Bounded'
  <2> SUFFICES ASSUME TypeOK, Bounded, [Next]_vars PROVE Bounded'
    OBVIOUS
  <2>1. CASE UNCHANGED delay
    BY <2>1
  <2>2. CASE CountAttempt /\ delay' \in Delays
    <3>1. attempt \in Nat
      BY DEF TypeOK
    <3>2. Base(attempt) \in Nat /\ Base(attempt) <= MaxDelay
      BY <3>1, BaseTyped
    <3>3. CASE ~Jitter
      BY <1>1, <2>2, <3>2, <3>3, BackoffAssumption DEF Delays, DelayFor
    <3>4. CASE Jitter
      <4> DEFINE base == Greater(Base(attempt), 1)
      <4>1. base \in Nat \ {0} /\ base <= Greater(MaxDelay, 1)
        BY <3>2, BackoffAssumption DEF Greater
      <4>2. delay' \in Jittered(base)
        BY <2>2, <3>4 DEF Delays, DelayFor
      <4> HIDE DEF base
      <4>3. delay' \in Nat /\ 4 * delay' <= 5 * base
        BY <4>1, <4>2, JitterWithinAQuarter
      <4>4. \A a, b, c \in Nat : 4 * a <= 5 * b /\ b <= c => 4 * a <= 5 * c
        OBVIOUS
      <4> HIDE DEF Bounded
      <4>5. 4 * delay' <= 5 * Greater(MaxDelay, 1)
        BY <1>1, <4>1, <4>3, <4>4
      <4> QED
        BY <4>5 DEF Bounded
    <3> QED
      BY <3>3, <3>4
  <2>3. UNCHANGED delay \/ (CountAttempt /\ delay' \in Delays)
    BY DEF Next, vars, told, Loop, Builder, Watch, Verdict, Restart, OwnerContinues,
       AckContinues, BuilderChecksToken, FirstSpawn, SpawnOk, FirstSpawnFails, FirstStarted,
       StoreAndStart, PollCancelled, PollTimer, PollAcknowledged, BecomeReady, PollEvent,
       WindUp, Judge, StormGuard, CountAttempt, SleepBackoff, Respawn, RespawnFails, Install,
       Announce, LoopWaits, TimerFires, Tick, CancelToken, KillTaskAsks, OwnerGoes,
       StopCancels, StopTakes, StopAsks, StopJoins, DropCancels, DropCloses, AckerGoes,
       AckChecks, AckSwaps, AckSends, ChildMoves, Finished
  <2> QED
    BY <2>1, <2>2, <2>3
<1> QED
  BY <1>2, <1>3, TypeCorrect, PTL DEF Spec
=============================================================================
