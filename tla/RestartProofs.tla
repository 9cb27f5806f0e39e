--------------------------- MODULE RestartProofs ---------------------------
(***************************************************************************)
(* Proofs about the verdict on a child that ended, for every number of     *)
(* children and every policy: exit code zero is final, and the storm guard *)
(* sees every crash of its window.                                         *)
(***************************************************************************)
EXTENDS SupervisorProofs

(***************************************************************************)
(* Exit code zero, when Terminated brings it.                              *)
(***************************************************************************)
Restarting == {"storm", "count", "backoff", "spawn"}
Judging == {"wind_up", "judge"} \cup Restarting

\* What the loop knows of a child that was delivered is how that child ended.
Informed ==
  /\ pc \in Judging => n \in Children
  /\ pc \in {"wind_up", "judge"} /\ phase[n] = "delivered" => payload = outcome[n]
  /\ pc \in Restarting /\ phase[n] = "delivered" => outcome[n] # "clean"
  /\ \A k \in Children : k < n /\ phase[k] = "delivered" => outcome[k] # "clean"

LEMMA InitInformed == Init => Informed
BY DEF Init, ChildInit, Informed, Judging, Restarting, Children

\* A child that is over never changes its outcome, so the verdict stays right until
\* its successor is there (ManagedChild's Exit).
LEMMA StepInformed ==
  ASSUME TypeOK, Indexed, Safe, Informed, [Next]_vars
  PROVE  Informed'
<1> USE DEF Informed, Judging, Restarting, Children, vars, round, books, told, shared,
            calls, rest, childVars, Goto, Watching
<1>t. /\ n \in 0 .. MaxSpawns /\ phase \in [Children -> Phases]
      /\ outcome \in [Children -> Outcomes] /\ MaxSpawns \in Nat
  BY ChildAssumption DEF TypeOK, ChildTypeOK, Pids
<1>s. /\ \A k \in Children : k < n => phase[k] \in {"delivered", "blank", "lost"}
      /\ pc \in Judging => phase[n] \in {"delivered", "blank", "lost"}
      /\ pc \in Busy \cup {"wind_up"} => n \in Children
      /\ pc \in {"new", "first"} => n = 0
  BY <1>t DEF Safe, ChildrenInOrder, Busy, Over, Indexed
<1>1. CASE BuilderChecksToken
  BY <1>1 DEF BuilderChecksToken
<1>2. CASE FirstSpawn
  BY <1>2, <1>t, <1>s DEF FirstSpawn, SpawnOk, Start
<1>3. CASE FirstSpawnFails
  BY <1>3 DEF FirstSpawnFails
<1>4. CASE FirstStarted
  BY <1>4 DEF FirstStarted, StoreAndStart
<1>5. CASE PollCancelled
  BY <1>5 DEF PollCancelled
<1>6. CASE PollTimer
  BY <1>6 DEF PollTimer
<1>7. CASE PollAcknowledged
  BY <1>7 DEF PollAcknowledged
<1>8. CASE BecomeReady
  BY <1>8 DEF BecomeReady
<1>9. CASE PollEvent
  BY <1>9, <1>s DEF PollEvent, Busy
<1>10. CASE WindUp
  BY <1>10 DEF WindUp
<1>11. CASE Judge
  BY <1>11 DEF Judge, NoRestart
<1>12. CASE StormGuard
  BY <1>12 DEF StormGuard
<1>13. CASE CountAttempt
  BY <1>13 DEF CountAttempt
<1>14. CASE SleepBackoff
  BY <1>14 DEF SleepBackoff, StopOrGoto
<1>15. CASE Respawn
  BY <1>15, <1>t DEF Respawn, SpawnOk, Start
<1>16. CASE RespawnFails
  BY <1>16 DEF RespawnFails, StopOrGoto
<1>17. CASE Install
  BY <1>17 DEF Install
<1>18. CASE Announce
  BY <1>18 DEF Announce, StoreAndStart
<1>19. CASE TimerFires \/ Tick \/ CancelToken \/ KillTaskAsks
  BY <1>19 DEF TimerFires, Tick, CancelToken, KillTaskAsks, Ask, LoopWaits
<1>20. CASE StopCancels \/ DropCancels \/ OwnerContinues
  BY <1>20 DEF StopCancels, DropCancels, OwnerContinues, StopTakes, StopAsks, StopJoins,
               DropCloses, OwnerGoes, Ask, LoopWaits
<1>21. ASSUME NEW a \in Ackers,
              AckContinues(a) \/ \E pid \in Children : AckChecks(a, pid)
       PROVE  Informed'
  BY <1>21 DEF AckContinues, AckSwaps, AckSends, AckChecks, AckerGoes, LoopWaits
<1>22. ASSUME NEW k \in Children, ChildMoves(k)
       PROVE  Informed'
  BY <1>22, <1>t, <1>s DEF ChildMoves, ChildStep, Exit, Disband, Report, Deliver, Ending, Lose,
                           LoopWaits
<1>23. CASE Finished \/ UNCHANGED vars
  BY <1>23 DEF Finished
<1> QED
  BY <1>1, <1>2, <1>3, <1>4, <1>5, <1>6, <1>7, <1>8, <1>9, <1>10, <1>11, <1>12, <1>13, <1>14,
     <1>15, <1>16, <1>17, <1>18, <1>19, <1>20, <1>21, <1>22, <1>23
     DEF Next, Loop, Builder, Watch, Verdict, Restart

\* No child that exited with code zero, and whose Terminated said so, has a successor,
\* whether or not others were lost to a stalled hook or to an error of finish()
\* (supervisor.rs 291-292, 398-429).
THEOREM ToldExitIsFinalHolds == Spec => []ToldExitIsFinal
<1>1. TypeOK /\ Indexed /\ Safe /\ Informed /\ [Next]_vars => Informed'
  BY StepInformed
<1>2. TypeOK /\ Informed => ToldExitIsFinal
  BY ChildAssumption DEF Informed, ToldExitIsFinal, TypeOK, Pids, Children
<1> QED
  BY AlwaysSafe, InitInformed, <1>1, <1>2, PTL DEF Spec

(***************************************************************************)
(* The storm window.                                                       *)
(***************************************************************************)
Forgotten == Len(crashes) - Len(abnormal_exits)
Latest == crashes[Len(crashes)]

\* The times never decrease, and the queue is the end of the history: what was
\* popped had left the window of the latest crash.
Remembered ==
  /\ \A i \in 1 .. Len(crashes) : crashes[i] <= now
  /\ \A i, j \in 1 .. Len(crashes) : i <= j => crashes[i] <= crashes[j]
  /\ Forgotten \in Nat
  /\ \A i \in 1 .. Len(abnormal_exits) : abnormal_exits[i] = crashes[Forgotten + i]
  /\ \A i \in 1 .. Forgotten : Latest - crashes[i] > Window
  /\ pc \in {"count", "backoff", "spawn", "install"} => Len(abnormal_exits) < MaxFailures

LEMMA InitRemembered == Init => Remembered
BY DEF Init, Remembered, Forgotten

\* A set of the numbers up to m that holds, with every number, the smaller ones,
\* holds every number up to its cardinality: popping from the front while the
\* front is old pops as many as are old.
LEMMA InitialSegment ==
  ASSUME NEW m \in Nat, NEW S \in SUBSET (1 .. m),
         \A i \in S : \A j \in 1 .. i : j \in S,
         NEW i \in 1 .. Cardinality(S)
  PROVE  i \in S
<1>1. IsFiniteSet(1 .. m)
  BY FS_Interval
<1>2. Cardinality(S) \in Nat
  BY <1>1, FS_Subset, FS_CardinalityType
<1> SUFFICES ASSUME i \notin S PROVE FALSE
  OBVIOUS
<1>3. S \in SUBSET (1 .. i - 1)
  BY <1>2
<1>4. i - 1 \in Nat
  BY <1>2
<1> DEFINE before == 1 .. i - 1
<1>5. IsFiniteSet(before) /\ Cardinality(before) = i - 1
  BY <1>4, FS_Interval
<1>6. Cardinality(S) <= Cardinality(before)
  BY <1>3, <1>5, FS_Subset
<1> QED
  BY <1>2, <1>4, <1>5, <1>6

\* One more crash: what is popped is old, and the rest is still the end of the
\* history (Judge).
LEMMA JudgeRemembers ==
  ASSUME TypeOK, Remembered, Judge
  PROVE  Remembered'
<1>t. /\ abnormal_exits \in Seq(Nat) /\ crashes \in Seq(Nat) /\ now \in Nat
      /\ Window \in Nat /\ now' = now
  BY SupervisorAssumption DEF TypeOK, Judge, rest
<1>1. CASE UNCHANGED <<abnormal_exits, crashes>>
  BY <1>1, <1>t DEF Judge, Remembered, Forgotten, Latest, Goto, Interrupted
<1>2. CASE crashes' = Append(crashes, now) /\ pc' = "storm"
  <2> DEFINE times == Append(abnormal_exits, now)
             c == Cardinality(Expired(times))
             old == Len(abnormal_exits)
             all == Len(crashes)
  <2>1. /\ old \in Nat /\ all \in Nat
        /\ crashes' \in Seq(Nat) /\ Len(crashes') = all + 1
        /\ crashes'[all + 1] = now
        /\ \A i \in 1 .. all : crashes'[i] = crashes[i] /\ crashes[i] \in Nat
    BY <1>t, <1>2, LenProperties, AppendProperties, ElementOfSeq
  <2>2. /\ times \in Seq(Nat) /\ Len(times) = old + 1 /\ times[old + 1] = now
        /\ \A i \in 1 .. old : times[i] = abnormal_exits[i]
    BY <1>t, LenProperties, AppendProperties
  <2>3. /\ Forgotten \in Nat /\ Forgotten + old = all
        /\ \A i \in 1 .. old + 1 : times[i] = crashes'[Forgotten + i]
    <3>1. Forgotten \in Nat /\ Forgotten + old = all
      BY <2>1 DEF Remembered, Forgotten
    <3>2. \A i \in 1 .. old : times[i] = crashes[Forgotten + i]
      BY <2>2 DEF Remembered
    <3> HIDE DEF times, old, all
    <3>3. \A i \in 1 .. old : crashes'[Forgotten + i] = crashes[Forgotten + i]
      <4>1. \A i \in 1 .. old : Forgotten + i \in 1 .. all
        BY <3>1, <2>1
      <4> QED
        BY <4>1, <2>1
    <3>4. ASSUME NEW i \in 1 .. old + 1 PROVE times[i] = crashes'[Forgotten + i]
      <4>1. CASE i \in 1 .. old
        BY <4>1, <3>2, <3>3
      <4>2. CASE i = old + 1
        <5>1. Forgotten + i = all + 1
          BY <4>2, <3>1, <2>1
        <5> QED
          BY <5>1, <4>2, <2>1, <2>2
      <4> QED
        BY <4>1, <4>2, <2>1
    <3> QED
      BY <3>1, <3>4
  <2> HIDE DEF times, c, old, all
  <2>a. /\ \A i \in 1 .. all : crashes[i] <= now
        /\ \A i, j \in 1 .. all : i <= j => crashes[i] <= crashes[j]
    BY DEF Remembered, all
  <2>4. \A i, j \in 1 .. all + 1 : i <= j => crashes'[i] <= crashes'[j]
    <3> SUFFICES ASSUME NEW i \in 1 .. all + 1, NEW j \in 1 .. all + 1, i <= j
                 PROVE  crashes'[i] <= crashes'[j]
      OBVIOUS
    <3>1. CASE j \in 1 .. all
      BY <3>1, <2>a, <2>1
    <3>2. CASE j = all + 1 /\ i \in 1 .. all
      BY <3>2, <2>a, <2>1
    <3>3. CASE j = all + 1 /\ i = all + 1
      BY <3>3, <2>1, <1>t
    <3> QED
      BY <3>1, <3>2, <3>3, <2>1
  <2>5. Expired(times) \in SUBSET (1 .. old + 1)
    BY <2>2, LenProperties DEF Expired
  <2>6. \A i \in Expired(times) : \A j \in 1 .. i : j \in Expired(times)
    <3> SUFFICES ASSUME NEW i \in Expired(times), NEW j \in 1 .. i
                 PROVE  j \in Expired(times)
      OBVIOUS
    <3>1. i \in 1 .. old + 1 /\ j \in 1 .. old + 1 /\ j <= i
      BY <2>1, <2>5
    <3>2. times[i] \in Nat /\ times[j] \in Nat /\ times[j] <= times[i]
      <4>1. Forgotten + i \in 1 .. all + 1 /\ Forgotten + j \in 1 .. all + 1
        BY <3>1, <2>1, <2>3
      <4>2. crashes'[Forgotten + j] <= crashes'[Forgotten + i]
        BY <4>1, <2>4, <3>1, <2>3, <2>1
      <4> QED
        BY <4>2, <3>1, <2>2, <2>3, ElementOfSeq
    <3>3. now - times[i] > Window
      BY DEF Expired
    <3> QED
      BY <3>1, <3>2, <3>3, <2>2, <1>t, LenProperties DEF Expired
  <2>7. c \in Nat /\ c <= old + 1
    <3> DEFINE whole == 1 .. old + 1
    <3>1. old + 1 \in Nat
      BY <2>1
    <3>2. IsFiniteSet(whole) /\ Cardinality(whole) = old + 1
      BY <3>1, FS_Interval
    <3>3. /\ IsFiniteSet(Expired(times))
          /\ Cardinality(Expired(times)) <= Cardinality(whole)
      BY <2>5, <3>2, FS_Subset
    <3> QED
      BY <3>2, <3>3, FS_CardinalityType DEF c
  <2>8. \A i \in 1 .. c : now - times[i] > Window
    <3> SUFFICES ASSUME NEW i \in 1 .. c PROVE now - times[i] > Window
      OBVIOUS
    <3>1. old + 1 \in Nat
      BY <2>1
    <3>2. i \in Expired(times)
      BY <3>1, <2>5, <2>6, InitialSegment DEF c
    <3> QED
      BY <3>2 DEF Expired
  <2>9. /\ Len(abnormal_exits') = old + 1 - c
        /\ \A i \in 1 .. old + 1 - c : abnormal_exits'[i] = times[c + i]
    <3>1. abnormal_exits' = SubSeq(times, c + 1, old + 1)
      BY <1>2, <2>2 DEF Judge, Goto, times, c
    <3>2. \A i \in c + 1 .. old + 1 : times[i] \in Nat
      BY <2>2, <2>7, <2>1, ElementOfSeq
    <3>3. c + 1 \in Int /\ old + 1 \in Int
      BY <2>1, <2>7
    <3> DEFINE first == c + 1
               last == old + 1
    <3>4. first \in Int /\ last \in Int /\ \A i \in first .. last : times[i] \in Nat
      BY <3>2, <3>3
    <3>5. abnormal_exits' = SubSeq(times, first, last)
      BY <3>1
    <3> HIDE DEF first, last
    <3>6. /\ Len(abnormal_exits') = IF first <= last THEN last - first + 1 ELSE 0
          /\ \A i \in 1 .. last - first + 1 : abnormal_exits'[i] = times[first + i - 1]
      BY <3>4, <3>5, SubSeqProperties
    <3>7. last - first + 1 = old + 1 - c /\ (first <= last <=> c <= old)
      BY <2>1, <2>7 DEF first, last
    <3>8. Len(abnormal_exits') = old + 1 - c
      BY <3>6, <3>7, <2>1, <2>7 DEF first, last
    <3>9. \A i \in 1 .. old + 1 - c : abnormal_exits'[i] = times[c + i]
      <4>1. \A i \in 1 .. old + 1 - c : first + i - 1 = c + i
        BY <2>1, <2>7 DEF first
      <4> QED
        BY <3>6, <3>7, <4>1
    <3> QED
      BY <3>8, <3>9
  <2>10. Forgotten' = Forgotten + c /\ Forgotten' \in Nat
    <3>1. Forgotten' = Len(crashes') - Len(abnormal_exits')
      BY DEF Forgotten
    <3>2. Forgotten' = all + 1 - (old + 1 - c)
      BY <3>1, <2>1, <2>9
    <3> QED
      BY <3>2, <2>1, <2>3, <2>7
  <2>11. \A i \in 1 .. Len(abnormal_exits') :
           abnormal_exits'[i] = crashes'[Forgotten' + i]
    BY <2>1, <2>3, <2>7, <2>9, <2>10
  <2>12. \A i \in 1 .. Forgotten' : Latest' - crashes'[i] > Window
    <3> SUFFICES ASSUME NEW i \in 1 .. Forgotten' PROVE now - crashes'[i] > Window
      BY <2>1 DEF Latest
    <3>1. CASE i <= Forgotten
      <4>1. i \in 1 .. all /\ all \in 1 .. all
        BY <3>1, <2>1, <2>3, <2>10
      <4>2. crashes[all] - crashes[i] > Window /\ crashes[all] <= now
        BY <3>1, <2>10, <2>3, <4>1 DEF Remembered, Latest, all
      <4> QED
        BY <4>1, <4>2, <2>1, <1>t
    <3>2. CASE i > Forgotten
      <4>1. i - Forgotten \in 1 .. c /\ i - Forgotten \in 1 .. old + 1
        BY <3>2, <2>1, <2>3, <2>7, <2>10
      <4>2. times[i - Forgotten] = crashes'[i]
        BY <4>1, <2>3, <2>10
      <4> QED
        BY <4>1, <4>2, <2>8
    <3> QED
      BY <3>1, <3>2, <2>3, <2>10
  <2>13. \A i \in 1 .. all + 1 : crashes'[i] <= now'
    <3> SUFFICES ASSUME NEW i \in 1 .. all + 1 PROVE crashes'[i] <= now
      BY <1>t
    <3>1. CASE i \in 1 .. all
      BY <3>1, <2>a, <2>1
    <3>2. CASE i = all + 1
      BY <3>2, <2>1, <1>t
    <3> QED
      BY <3>1, <3>2, <2>1
  <2> QED
    BY <1>2, <2>1, <2>4, <2>10, <2>11, <2>12, <2>13 DEF Remembered
<1> QED
  BY <1>1, <1>2 DEF Judge, Goto

LEMMA StepRemembered ==
  ASSUME TypeOK, Remembered, [Next]_vars
  PROVE  Remembered'
<1>1. CASE Judge
  BY <1>1, JudgeRemembers
<1>2. CASE UNCHANGED <<abnormal_exits, crashes>> /\ now' \in Nat /\ now <= now'
           /\ (pc' \in {"count", "backoff", "spawn", "install"} =>
                 Len(abnormal_exits) < MaxFailures)
  <2>1. \A i \in 1 .. Len(crashes) : crashes[i] \in Nat
    BY ElementOfSeq DEF TypeOK
  <2>2. now \in Nat
    BY SupervisorAssumption DEF TypeOK
  <2>3. \A i \in 1 .. Len(crashes) : crashes'[i] <= now'
    BY <1>2, <2>1, <2>2 DEF Remembered
  <2> QED
    BY <1>2, <2>3 DEF Remembered, Forgotten, Latest
<1>3. Judge \/ /\ UNCHANGED <<abnormal_exits, crashes>>
               /\ now' = now \/ now' = now + 1
               /\ \/ pc' \notin {"count", "backoff", "spawn", "install"}
                  \/ pc \in {"count", "backoff", "spawn", "install"}
                  \/ Len(abnormal_exits) < MaxFailures
  BY DEF Next, vars, round, books, told, shared, calls, rest, Goto, Loop, Builder, Watch,
     Verdict, Restart, OwnerContinues, AckContinues, BuilderChecksToken, FirstSpawn, SpawnOk,
     FirstSpawnFails, FirstStarted, StoreAndStart, PollCancelled, PollTimer,
     PollAcknowledged, BecomeReady, KeepStorm, PollEvent, WindUp, StormGuard, CountAttempt,
     SleepBackoff, StopOrGoto, Respawn, RespawnFails, Install, Announce, LoopWaits,
     TimerFires, Tick, CancelToken, KillTaskAsks, OwnerGoes, StopCancels, StopTakes,
     StopAsks, StopJoins, DropCancels, DropCloses, AckerGoes, AckChecks, AckSwaps, AckSends,
     ChildMoves, Finished
<1>4. now \in Nat
  BY SupervisorAssumption DEF TypeOK
<1> QED
  BY <1>1, <1>2, <1>3, <1>4 DEF Remembered

\* What the guard counts is no less than the crashes of the window.
LEMMA RememberedBounds ==
  ASSUME TypeOK, Remembered
  PROVE  StormIsBounded
<1> SUFFICES ASSUME pc \in {"count", "backoff", "spawn", "install"}, crashes # <<>>
             PROVE  Cardinality({i \in DOMAIN crashes : Latest - crashes[i] <= Window})
                      < MaxFailures
  BY DEF StormIsBounded, Latest
<1> DEFINE recent == {i \in DOMAIN crashes : Latest - crashes[i] <= Window}
           kept == Forgotten + 1 .. Len(crashes)
<1>1. /\ Len(crashes) \in Nat /\ Len(abnormal_exits) \in Nat /\ Forgotten \in Nat
      /\ DOMAIN crashes = 1 .. Len(crashes)
      /\ \A i \in 1 .. Len(crashes) : crashes[i] \in Nat
      /\ Latest \in Nat /\ Window \in Nat
  <2>1. crashes \in Seq(Nat) /\ abnormal_exits \in Seq(Nat)
    BY DEF TypeOK
  <2>2. Len(crashes) \in Nat \ {0}
    BY <2>1, EmptySeq
  <2>3. \A i \in 1 .. Len(crashes) : crashes[i] \in Nat
    BY <2>1, ElementOfSeq
  <2>4. Latest \in Nat
    BY <2>2, <2>3 DEF Latest
  <2> QED
    BY <2>1, <2>2, <2>3, <2>4, LenProperties, SupervisorAssumption DEF Remembered
<1>2. recent \in SUBSET kept
  <2> SUFFICES ASSUME NEW i \in 1 .. Len(crashes), Latest - crashes[i] <= Window
               PROVE  i \in kept
    BY <1>1
  <2>1. i \notin 1 .. Forgotten
    BY <1>1 DEF Remembered
  <2> QED
    BY <2>1, <1>1
<1>3. IsFiniteSet(kept) /\ Cardinality(kept) <= Len(abnormal_exits)
  <2> DEFINE first == Forgotten + 1
             last == Len(crashes)
  <2>1. first \in Int /\ last \in Int
    BY <1>1
  <2> HIDE DEF first, last
  <2>2. /\ IsFiniteSet(first .. last)
        /\ Cardinality(first .. last) = IF first > last THEN 0 ELSE last - first + 1
    BY <2>1, FS_Interval
  <2>3. last - first + 1 = Len(abnormal_exits)
    BY <1>1 DEF first, last, Forgotten
  <2>4. Cardinality(first .. last) <= Len(abnormal_exits)
    BY <2>1, <2>2, <2>3, <1>1
  <2> QED
    BY <2>2, <2>4 DEF first, last
<1>4. Cardinality(recent) <= Cardinality(kept) /\ Cardinality(recent) \in Nat
      /\ Cardinality(kept) \in Nat
  BY <1>2, <1>3, FS_Subset, FS_CardinalityType
<1>5. Len(abnormal_exits) < MaxFailures /\ MaxFailures \in Nat
  BY SupervisorAssumption DEF Remembered
<1> QED
  BY <1>1, <1>3, <1>4, <1>5

\* A restart goes ahead only with fewer crashes than allowed in the window,
\* for every window, however often Ready came in between (supervisor.rs 431-442).
THEOREM StormIsBoundedHolds == Spec => []StormIsBounded
<1>1. TypeOK /\ Remembered /\ [Next]_vars => Remembered'
  BY StepRemembered
<1>2. TypeOK /\ Remembered => StormIsBounded
  BY RememberedBounds
<1> QED
  BY TypeCorrect, InitRemembered, <1>1, <1>2, PTL DEF Spec

(***************************************************************************)
(* The delays of restarts in a row.                                        *)
(***************************************************************************)

\* The recursive definition is met by the closed form of the code, so there is a
\* function it defines.
LEMMA DoubledUnfolds ==
  Doubled = [k \in 0 .. MaxExponent |->
               Lesser(MaxDelay, IF k = 0 THEN InitialDelay ELSE 2 * Doubled[k - 1])]
<1> DEFINE Closed == [k \in 0 .. MaxExponent |-> Lesser(MaxDelay, InitialDelay * 2 ^ k)]
           Twice(f, k) == Lesser(MaxDelay, IF k = 0 THEN InitialDelay ELSE 2 * f[k - 1])
<1>1. ASSUME NEW k \in 0 .. MaxExponent PROVE Closed[k] = Twice(Closed, k)
  <2>1. CASE k = 0
    <3>1. InitialDelay * 2 ^ k = InitialDelay
      BY <2>1, BackoffAssumption
    <3> QED
      BY <2>1, <3>1 DEF Lesser
  <2>2. CASE k # 0
    <3>1. k \in 1 .. MaxExponent /\ k - 1 \in 0 .. MaxExponent
      BY <2>2 DEF MaxExponent
    <3> DEFINE low == 2 ^ (k - 1)   high == 2 ^ k
    <3>2. low \in Nat /\ high = 2 * low
      <4>1. CASE k = 1
        BY <4>1, <3>1, BackoffAssumption
      <4>2. CASE k # 1
        <5>1. k - 1 \in 1 .. MaxExponent
          BY <3>1, <4>2 DEF MaxExponent
        <5> QED
          BY <3>1, <5>1, BackoffAssumption
      <4> QED
        BY <4>1, <4>2
    <3>3. Closed[k - 1] = Lesser(MaxDelay, InitialDelay * low)
      BY <3>1
    <3>4. Closed[k] = Lesser(MaxDelay, InitialDelay * high)
      OBVIOUS
    <3> HIDE DEF low, high, Closed
    <3> DEFINE product == InitialDelay * low
    <3>5. product \in Nat /\ InitialDelay * high = 2 * product /\ MaxDelay \in Nat
      BY <3>2, BackoffAssumption
    <3> HIDE DEF product
    <3>6. Lesser(MaxDelay, 2 * product) = Lesser(MaxDelay, 2 * Lesser(MaxDelay, product))
      BY <3>5 DEF Lesser
    <3> QED
      BY <2>2, <3>3, <3>4, <3>5, <3>6 DEF product
  <2> QED
    BY <2>1, <2>2
<1>2. Closed = [k \in 0 .. MaxExponent |-> Twice(Closed, k)]
  BY <1>1, Zenon
<1> HIDE DEF Closed
<1>3. \E f : f = [k \in 0 .. MaxExponent |-> Twice(f, k)]
  BY <1>2
<1>4. Doubled = CHOOSE f : f = [k \in 0 .. MaxExponent |-> Twice(f, k)]
  BY DEF Doubled
<1> QED
  BY <1>3, <1>4

\* The delay that doubles step by step is the one of the closed form.
AsDoubled(k) == k \in 0 .. MaxExponent => Doubled[k] = Base(k)

LEMMA FirstAsDoubled == AsDoubled(0)
<1>1. Doubled[0] = Lesser(MaxDelay, InitialDelay)
  BY DoubledUnfolds DEF MaxExponent
<1>2. Lesser(0, MaxExponent) = 0 /\ InitialDelay * 2 ^ 0 = InitialDelay
  BY BackoffAssumption DEF Lesser, MaxExponent
<1>3. Base(0) = Lesser(InitialDelay, MaxDelay)
  BY <1>2 DEF Base
<1> QED
  BY <1>1, <1>3, BackoffAssumption DEF AsDoubled, Lesser

LEMMA NextAsDoubled ==
  ASSUME NEW k \in Nat, AsDoubled(k) PROVE AsDoubled(k + 1)
<1> SUFFICES ASSUME k + 1 \in 0 .. MaxExponent PROVE Doubled[k + 1] = Base(k + 1)
  BY DEF AsDoubled
<1>1. /\ k \in 0 .. MaxExponent /\ k + 1 \in 1 .. MaxExponent
      /\ Lesser(k, MaxExponent) = k /\ Lesser(k + 1, MaxExponent) = k + 1
  BY DEF MaxExponent, Lesser
<1> DEFINE low == 2 ^ k   high == 2 ^ (k + 1)
<1>2. low \in Nat /\ high = 2 * low
  <2>1. (k + 1) - 1 = k
    OBVIOUS
  <2>2. high = 2 * low
    BY <1>1, <2>1, BackoffAssumption
  <2>3. CASE k = 0
    BY <2>2, <2>3, BackoffAssumption
  <2>4. CASE k # 0
    <3>1. k \in 1 .. MaxExponent
      BY <1>1, <2>4
    <3> QED
      BY <2>2, <3>1, BackoffAssumption
  <2> QED
    BY <2>3, <2>4
<1>3. Base(k) = Lesser(InitialDelay * low, MaxDelay)
  BY <1>1 DEF Base
<1>4. Base(k + 1) = Lesser(InitialDelay * high, MaxDelay)
  BY <1>1 DEF Base
<1>5. Doubled[k + 1] = Lesser(MaxDelay, 2 * Doubled[k])
  BY <1>1, DoubledUnfolds
<1>6. Doubled[k] = Base(k)
  BY <1>1 DEF AsDoubled
<1> HIDE DEF low, high
<1> DEFINE product == InitialDelay * low
<1>7. product \in Nat /\ InitialDelay * high = 2 * product /\ MaxDelay \in Nat
  BY <1>2, BackoffAssumption
<1> HIDE DEF product
<1>8. Lesser(MaxDelay, 2 * Lesser(product, MaxDelay)) = Lesser(2 * product, MaxDelay)
  BY <1>7 DEF Lesser
<1> QED
  BY <1>3, <1>4, <1>5, <1>6, <1>7, <1>8 DEF product

\* The attempt that was announced last is the one the delay was computed for, and
\* the recursive definition has followed it from the last Ready on.
Following ==
  /\ AsDoubled(attempt)
  /\ event = "Restarting" =>
       \E k \in Nat : attempt = k + 1 /\ AsDoubled(k) /\ delay \in DelayFor(k)

LEMMA StepFollowing ==
  ASSUME TypeOK, Following, [Next]_vars
  PROVE  Following'
<1>t. attempt \in Nat
  BY DEF TypeOK
<1>1. CASE /\ UNCHANGED attempt
           /\ event' = "Restarting" => UNCHANGED <<event, delay>>
  BY <1>1 DEF Following, AsDoubled
<1>2. CASE BecomeReady
  BY <1>2, FirstAsDoubled DEF BecomeReady, Emit, Following
<1>3. CASE CountAttempt
  <2>1. attempt' = attempt + 1 /\ AsDoubled(attempt')
    BY <1>t, <1>3, NextAsDoubled DEF CountAttempt, Following
  <2>2. event' = "Restarting" => delay' \in DelayFor(attempt)
    BY <1>3 DEF CountAttempt, Emit, Delays
  <2> QED
    BY <1>t, <2>1, <2>2 DEF Following
<1> QED
  BY <1>1, <1>2, <1>3
     DEF Next, vars, told, books, Emit, Loop, Builder, Watch, Verdict, Restart, OwnerContinues,
       AckContinues, BuilderChecksToken, FirstSpawn, SpawnOk, FirstSpawnFails, FirstStarted,
       StoreAndStart, PollCancelled, PollTimer, PollAcknowledged, PollEvent, WindUp, Judge,
       StormGuard, StopOrGoto, SleepBackoff, Respawn, RespawnFails, Install, Announce,
       LoopWaits, TimerFires, Tick, CancelToken, KillTaskAsks, OwnerGoes, StopCancels,
       StopTakes, StopAsks, StopJoins, DropCancels, DropCloses, AckerGoes, AckChecks,
       AckSwaps, AckSends, ChildMoves, Finished

\* Each restart in a row waits twice as long as the one before it, up to the longest
\* delay and within a quarter, for every initial delay, maximum and policy; the
\* closed form with its saturating power of two never departs from it
\* (supervisor.rs 95-108, 448-458).
THEOREM BackoffDoublesHolds == Spec => []BackoffDoubles
<1>1. Init => Following
  BY FirstAsDoubled DEF Init, Following
<1>2. TypeOK /\ Following /\ [Next]_vars => Following'
  BY StepFollowing
<1>3. Following => BackoffDoubles
  <2> SUFFICES ASSUME Following, event = "Restarting", attempt \in 1 .. MaxExponent,
                      NEW base, base = Doubled[attempt - 1]
               PROVE  \/ 4 * delay \in 3 * base .. 5 * base
                      \/ Jitter /\ base = 0 /\ delay = 1
    BY DEF BackoffDoubles
  <2>1. PICK k \in Nat : attempt = k + 1 /\ AsDoubled(k) /\ delay \in DelayFor(k)
    BY DEF Following
  <2>2. base = Base(k)
    BY <2>1 DEF AsDoubled, MaxExponent
  <2>3. base \in Nat
    BY <2>1, <2>2, BaseTyped
  <2>4. CASE ~Jitter
    BY <2>1, <2>2, <2>3, <2>4 DEF DelayFor
  <2>5. CASE Jitter
    <3>1. delay \in Jittered(Greater(base, 1)) /\ Greater(base, 1) \in Nat \ {0}
      BY <2>1, <2>2, <2>3, <2>5 DEF DelayFor, Greater
    <3>2. /\ delay \in Nat /\ 3 * Greater(base, 1) <= 4 * delay
          /\ 4 * delay <= 5 * Greater(base, 1)
      BY <3>1, JitterWithinAQuarter
    <3> QED
      BY <2>3, <2>5, <3>2 DEF Greater
  <2> QED
    BY <2>4, <2>5
<1> QED
  BY <1>1, <1>2, <1>3, TypeCorrect, PTL DEF Spec

(***************************************************************************)
(* Cancellation.                                                           *)
(***************************************************************************)

\* Nothing spawns child k + 1 any more.
Settling(k) == token /\ n = k /\ pc \notin {"new", "first", "spawn"}

LEMMA SettlingStays ==
  ASSUME NEW k, Settling(k), [Next]_vars PROVE Settling(k)'
<1> USE DEF Settling, Goto, vars, shared, rest
<1>1. CASE Builder
  BY <1>1 DEF Builder, BuilderChecksToken, FirstSpawn, SpawnOk, FirstSpawnFails, FirstStarted,
              StoreAndStart
<1>2. CASE Watch
  BY <1>2 DEF Watch, PollCancelled, PollTimer, PollAcknowledged, BecomeReady, PollEvent
<1>3. CASE Verdict
  BY <1>3 DEF Verdict, WindUp, Judge, StormGuard
<1>4. CASE Restart
  BY <1>4 DEF Restart, CountAttempt, StopOrGoto, SleepBackoff, Respawn, SpawnOk, RespawnFails,
              Install, Announce, StoreAndStart
<1>5. CASE ~Loop
  BY <1>5 DEF Next, LoopWaits, TimerFires, Tick, CancelToken, KillTaskAsks, StopCancels,
              CancelOwnToken, DropCancels, OwnerContinues, StopTakes, StopAsks, StopJoins,
              DropCloses, OwnerGoes, AckContinues, AckChecks, AckSwaps, AckSends, AckerGoes,
              ChildMoves, Finished
<1> QED
  BY <1>1, <1>2, <1>3, <1>4, <1>5 DEF Loop

\* Once the token is cancelled and no spawn is in flight, no child is ever spawned
\* again, from whichever place of the loop and for any number of restarts left
\* (supervisor.rs 443, 461-471).
THEOREM NoSpawnBeginsAfterCancelHolds == Spec => NoSpawnBeginsAfterCancel
<1>1. ASSUME NEW CONSTANT k \in 0 .. MaxSpawns
      PROVE  Spec => [](token /\ n = k /\ pc \notin {"new", "first", "spawn"} => [](n = k))
  <2>1. Settling(k) /\ [Next]_vars => Settling(k)'
    BY SettlingStays
  <2>2. Settling(k) <=> token /\ n = k /\ pc \notin {"new", "first", "spawn"}
    BY DEF Settling
  <2> QED
    BY <2>1, <2>2, PTL DEF Spec
<1> QED
  BY <1>1 DEF NoSpawnBeginsAfterCancel
=============================================================================
