----------------------------- MODULE ReapProofs -----------------------------
(***************************************************************************)
(* Proof that a reap comes nearer to its end with every step it takes, for *)
(* every number of pids, processes and tasks.  With the fairness of        *)
(* FairSpec this is why it ends.                                           *)
(***************************************************************************)
EXTENDS PidFileProofs, FiniteSetTheorems

USE RecordAssumption

OnePerPid(records) == \A r, s \in records : r.pid = s.pid => r = s

\* No pid is a target twice, although two looks are merged: there are no more
\* targets than pids (merge_descendant_captures).
LEMMA TargetsCounted ==
  ASSUME NEW records \in SUBSET Records, OnePerPid(records)
  PROVE  /\ IsFiniteSet(records)
         /\ Cardinality(records) \in 0 .. MaxPids
<1> DEFINE pidOf == [r \in records |-> r.pid]
<1>1. IsFiniteSet(Pids) /\ Cardinality(Pids) = MaxPids
  <2>1. /\ IsFiniteSet(1 .. MaxPids)
        /\ Cardinality(1 .. MaxPids) = IF 1 > MaxPids THEN 0 ELSE MaxPids - 1 + 1
    BY FS_Interval
  <2> QED
    BY <2>1 DEF Pids
<1>2. pidOf \in Injection(records, Pids)
  BY Numbers DEF OnePerPid, Injection, IsInjective
<1>3. IsFiniteSet(records) /\ Cardinality(records) <= MaxPids
  BY <1>1, <1>2, FS_Injection
<1> QED
  BY <1>3, FS_CardinalityType

Merged == {r \in task.captured : r.pid \notin task.snapshot} \cup Seen

LEMMA MergedOnePerPid ==
  ASSUME OnePerPid(task.captured) PROVE OnePerPid(Seen) /\ OnePerPid(Merged)
<1>1. \A r \in Seen : r.pid \in task.snapshot /\ r = [pid |-> r.pid, token |-> Identity(r.pid)]
  BY DEF Seen
<1> QED
  BY <1>1 DEF OnePerPid, Merged

Single == OnePerPid(task.captured)

LEMMA StepSingle == ASSUME TypeOK, Single, [Next]_vars PROVE Single'
<1>t. task \in Locals
  BY DEF TypeOK
<1>1. CASE task'.captured = task.captured
  BY <1>1 DEF Single, OnePerPid
<1>2. CASE task'.captured = {}
  BY <1>2 DEF Single, OnePerPid
<1>3. CASE Capture
  BY <1>3, <1>t, MergedOnePerPid DEF Single, Capture, Locals, OnePerPid
<1>4. CASE CaptureAgain
  <2>1. task'.captured = Merged
    BY <1>4, <1>t DEF CaptureAgain, Merged, Locals
  <2> QED
    BY <2>1, MergedOnePerPid DEF Single, OnePerPid
<1>5. CASE NextTarget
  <2>1. task'.captured \subseteq task.captured
    BY <1>5, <1>t DEF NextTarget, Locals
  <2> QED
    BY <2>1 DEF Single, OnePerPid
<1>6. ASSUME ~Capture, ~CaptureAgain, ~NextTarget
      PROVE  task'.captured = task.captured \/ task'.captured = {}
  <2>1. CASE Crash \/ Begin
    BY <2>1 DEF Crash, Begin, Fresh
  <2>2. CASE ~Crash /\ ~Begin
    BY <1>6, <1>t, <2>2
       DEF Next, vars, Locals, Goto, Exit, Fork, Stranger, StartChild, Read, Refused, Identify,
           List, Confirm, Open, Check, Signal, Wait, Compare, Remove, StartFails, ReadIdentity,
           Exists, Publish, Abort, Finish, Cleanup, Unlink, Rest
  <2> QED
    BY <2>1, <2>2
<1> QED
  BY <1>1, <1>2, <1>3, <1>4, <1>5, <1>6

LEMMA AlwaysSingle == Spec => [](TypeOK /\ Single)
<1>1. Init => Single
  BY DEF Init, Fresh, Single, OnePerPid
<1>2. TypeOK /\ Single /\ [Next]_vars => Single'
  BY StepSingle
<1> QED
  BY <1>1, <1>2, TypeCorrect, PTL DEF Spec

(***************************************************************************)
(* The steps that are left.                                                *)
(***************************************************************************)
Loop == {"confirm", "open", "check", "signal", "wait", "next"}
Past == {"compare", "remove"}
Before == {"read", "identify", "list", "capture", "list_again", "capture_again"}

Measured ==
  /\ StepsLeft \in 0 .. 6 * MaxPids + 14
  /\ Cardinality(task.captured) \in 0 .. MaxPids
  /\ \A l \in Loop : task.at = l => StepsLeft = 6 * Cardinality(task.captured) + Stage[l]
  /\ \A l \in Past : task.at = l => StepsLeft = Stage[l]
  /\ \A l \in Before : task.at = l => StepsLeft = 6 * MaxPids + Stage[l]
  /\ ~InReap => StepsLeft = 0

LEMMA StepsLeftAt == TypeOK /\ Single => Measured
<1> SUFFICES ASSUME TypeOK, Single PROVE Measured
  OBVIOUS
<1>1. Cardinality(task.captured) \in 0 .. MaxPids
  <2>1. task.captured \in SUBSET Records
    BY DEF TypeOK, Locals
  <2> QED
    BY <2>1, TargetsCounted DEF Single
<1> DEFINE c == Cardinality(task.captured)
<1>2. /\ task.at \in Loop => Targets = c
      /\ task.at \in Past => Targets = 0
      /\ task.at \in Before => Targets = MaxPids
  BY DEF Targets, Loop, Past, Before
<1>3. /\ InReap <=> task.at \in Loop \cup Past \cup Before
      /\ \A l \in Loop \cup Past \cup Before : Stage[l] \in 1 .. 14
  BY DEF InReap, Stage, Loop, Past, Before
<1>4. /\ task.at \in Loop \cup Past \cup Before => StepsLeft = 6 * Targets + Stage[task.at]
      /\ ~InReap => StepsLeft = 0
  BY <1>3 DEF StepsLeft
<1> HIDE DEF c
<1>5. c \in 0 .. MaxPids
  BY <1>1 DEF c
<1>6. /\ \A l \in Loop : task.at = l => StepsLeft = 6 * c + Stage[l]
      /\ \A l \in Past : task.at = l => StepsLeft = Stage[l]
      /\ \A l \in Before : task.at = l => StepsLeft = 6 * MaxPids + Stage[l]
  BY <1>2, <1>3, <1>4
<1>7. StepsLeft \in 0 .. 6 * MaxPids + 14
  BY <1>3, <1>4, <1>5, <1>6
<1> QED
  BY <1>1, <1>4, <1>6, <1>7 DEF c, Measured

LEMMA AlwaysMeasured == Spec => [](TypeOK /\ Measured)
<1> QED
  BY AlwaysSingle, StepsLeftAt, PTL

\* Where each stage of the reap lies.
LEMMA Stages ==
  /\ \A l \in Loop : Stage[l] \in 3 .. 8
  /\ \A l \in Past : Stage[l] \in 1 .. 2
  /\ \A l \in Before : Stage[l] \in 9 .. 14
  BY DEF Stage, Loop, Past, Before

\* From one place of the reap to a later one, with the targets it had.
LEMMA Nearer ==
  ASSUME Measured, Measured', task'.captured = task.captured,
         \/ task.at \in Before /\ task'.at \in Before /\ Stage[task'.at] < Stage[task.at]
         \/ task.at \in Loop /\ task'.at \in Loop /\ Stage[task'.at] < Stage[task.at]
         \/ task.at \in Past /\ task'.at \in Past /\ Stage[task'.at] < Stage[task.at]
         \/ task.at \in Before /\ task'.at \in Past
         \/ task.at \in Loop /\ task'.at \in Past
         \/ task.at \in Loop \cup Past \cup Before /\ ~InReap'
  PROVE  StepsLeft' < StepsLeft
<1> DEFINE c == Cardinality(task.captured)
           left == StepsLeft
           after == StepsLeft'
           s == Stage[task.at]
           t == Stage[task'.at]
<1>1. /\ left \in Nat /\ after \in Nat /\ c \in Nat /\ MaxPids \in Nat
      /\ task.at \in Loop => left = 6 * c + s /\ s \in 3 .. 8
      /\ task.at \in Past => left = s /\ s \in 1 .. 2
      /\ task.at \in Before => left = 6 * MaxPids + s /\ s \in 9 .. 14
      /\ task'.at \in Loop => after = 6 * c + t /\ t \in 3 .. 8
      /\ task'.at \in Past => after = t /\ t \in 1 .. 2
      /\ task'.at \in Before => after = 6 * MaxPids + t /\ t \in 9 .. 14
      /\ ~InReap' => after = 0
  BY Stages DEF Measured
<1> HIDE DEF c, left, after, s, t
<1>2. \/ task.at \in Before /\ task'.at \in Before /\ t < s
      \/ task.at \in Loop /\ task'.at \in Loop /\ t < s
      \/ task.at \in Past /\ task'.at \in Past /\ t < s
      \/ task.at \in Before /\ task'.at \in Past
      \/ task.at \in Loop /\ task'.at \in Past
      \/ task.at \in Loop \cup Past \cup Before /\ ~InReap'
  BY DEF s, t
<1>3. after < left
  BY <1>1, <1>2
<1> QED
  BY <1>3 DEF left, after

(***************************************************************************)
(* A step of the reap leaves fewer.                                        *)
(***************************************************************************)
\* Where a step leads: to the next place in its part of the reap, past the
\* targets, or out of the reap.
Leads(from, to) ==
  task.at = from /\ task'.at \in to /\ task'.captured = task.captured

Later(from, l) ==
  \/ from \in Before /\ l \in Before /\ Stage[l] < Stage[from]
  \/ from \in Loop /\ l \in Loop /\ Stage[l] < Stage[from]
  \/ from \in Past /\ l \in Past /\ Stage[l] < Stage[from]
  \/ from \in Before \cup Loop /\ l \in Past
  \/ l \in {"start", "done", "failed"}

LEMMA LeadsNearer ==
  ASSUME Measured, Measured',
         NEW from \in Loop \cup Past \cup Before, NEW to, Leads(from, to),
         \A l \in to : Later(from, l)
  PROVE  StepsLeft' < StepsLeft
<1>1. task'.at \in {"start", "done", "failed"} => ~InReap'
  BY DEF InReap
<1> QED
  BY <1>1, Nearer DEF Leads, Later

LEMMA PrepareNearer ==
  ASSUME TypeOK, Measured, Measured',
         Read \/ Identify \/ List("list", "capture") \/ List("list_again", "capture_again")
  PROVE  StepsLeft' < StepsLeft
<1>t. task \in Locals
  BY DEF TypeOK
<1>1. CASE Read
  <2>1. Leads("read", {"identify", "start", "done"})
    BY <1>1, <1>t DEF Read, Leads, Prepared, Locals
  <2>2. \A l \in {"identify", "start", "done"} : Later("read", l)
    BY DEF Later, Loop, Past, Before, Stage
  <2> QED
    BY <2>1, <2>2, LeadsNearer DEF Loop, Past, Before
<1>2. CASE Identify
  <2>1. Leads("identify", {"list", "compare", "failed"})
    BY <1>2, <1>t DEF Identify, Goto, Leads, Locals
  <2>2. \A l \in {"list", "compare", "failed"} : Later("identify", l)
    BY DEF Later, Loop, Past, Before, Stage
  <2> QED
    BY <2>1, <2>2, LeadsNearer DEF Loop, Past, Before
<1>3. CASE List("list", "capture")
  <2>1. Leads("list", {"capture"})
    BY <1>3, <1>t DEF List, Leads, Locals
  <2>2. \A l \in {"capture"} : Later("list", l)
    BY DEF Later, Loop, Past, Before, Stage
  <2> QED
    BY <2>1, <2>2, LeadsNearer DEF Loop, Past, Before
<1>4. CASE List("list_again", "capture_again")
  <2>1. Leads("list_again", {"capture_again"})
    BY <1>4, <1>t DEF List, Leads, Locals
  <2>2. \A l \in {"capture_again"} : Later("list_again", l)
    BY DEF Later, Loop, Past, Before, Stage
  <2> QED
    BY <2>1, <2>2, LeadsNearer DEF Loop, Past, Before
<1> QED
  BY <1>1, <1>2, <1>3, <1>4

\* The targets are found: until then as many are counted as there can be.
LEMMA CaptureNearer ==
  ASSUME TypeOK, Measured, Measured', Capture \/ CaptureAgain
  PROVE  StepsLeft' < StepsLeft
<1>t. task \in Locals
  BY DEF TypeOK
<1>1. CASE Capture
  <2>1. task.at = "capture" /\ task'.at = "list_again"
    BY <1>1, <1>t DEF Capture, Locals
  <2>2. StepsLeft = 6 * MaxPids + 11 /\ StepsLeft' = 6 * MaxPids + 10
    BY <2>1 DEF Measured, Before, Stage
  <2> QED
    BY <2>2
<1>2. CASE CaptureAgain
  <2> DEFINE c == Cardinality(task'.captured)
  <2>1. task.at = "capture_again" /\ task'.at = "confirm"
    BY <1>2, <1>t DEF CaptureAgain, Locals
  <2>2. StepsLeft = 6 * MaxPids + 9 /\ StepsLeft' = 6 * c + 8 /\ c \in 0 .. MaxPids
    BY <2>1 DEF Measured, Before, Loop, Stage
  <2> HIDE DEF c
  <2> QED
    BY <2>2
<1> QED
  BY <1>1, <1>2

LEMMA KillNearer ==
  ASSUME TypeOK, Measured, Measured', Confirm \/ Open \/ Check \/ Signal \/ Wait
  PROVE  StepsLeft' < StepsLeft
<1>t. task \in Locals
  BY DEF TypeOK
<1>1. CASE Confirm
  <2>1. Leads("confirm", {"open", "next", "failed"})
    BY <1>1, <1>t DEF Confirm, Goto, Unproven, Leads, Locals
  <2>2. \A l \in {"open", "next", "failed"} : Later("confirm", l)
    BY DEF Later, Loop, Past, Before, Stage
  <2> QED
    BY <2>1, <2>2, LeadsNearer DEF Loop, Past, Before
<1>2. CASE Open
  <2>1. Leads("open", {"check", "wait"})
    BY <1>2, <1>t DEF Open, Leads, Locals
  <2>2. \A l \in {"check", "wait"} : Later("open", l)
    BY DEF Later, Loop, Past, Before, Stage
  <2> QED
    BY <2>1, <2>2, LeadsNearer DEF Loop, Past, Before
<1>3. CASE Check
  <2>1. Leads("check", {"signal", "wait"})
    BY <1>3, <1>t DEF Check, Goto, Leads, Locals
  <2>2. \A l \in {"signal", "wait"} : Later("check", l)
    BY DEF Later, Loop, Past, Before, Stage
  <2> QED
    BY <2>1, <2>2, LeadsNearer DEF Loop, Past, Before
<1>4. CASE Signal
  <2>1. Leads("signal", {"wait"})
    BY <1>4, <1>t DEF Signal, Goto, Leads, Locals
  <2>2. \A l \in {"wait"} : Later("signal", l)
    BY DEF Later, Loop, Past, Before, Stage
  <2> QED
    BY <2>1, <2>2, LeadsNearer DEF Loop, Past, Before
<1>5. CASE Wait
  <2>1. Leads("wait", {"next", "failed"})
    BY <1>5, <1>t DEF Wait, Unproven, Leads, Locals
  <2>2. \A l \in {"next", "failed"} : Later("wait", l)
    BY DEF Later, Loop, Past, Before, Stage
  <2> QED
    BY <2>1, <2>2, LeadsNearer DEF Loop, Past, Before
<1> QED
  BY <1>1, <1>2, <1>3, <1>4, <1>5

\* The next target is taken from those that are left.
LEMMA NextNearer ==
  ASSUME TypeOK, Single, Measured, Measured', NextTarget
  PROVE  StepsLeft' < StepsLeft
<1>t. task \in Locals
  BY DEF TypeOK
<1>1. CASE task'.at = Reaped /\ task'.captured = task.captured
  <2>1. Leads("next", {"compare", "failed"})
    BY <1>1, <1>t DEF NextTarget, Reaped, Leads, Locals
  <2>2. \A l \in {"compare", "failed"} : Later("next", l)
    BY DEF Later, Loop, Past, Before, Stage
  <2> QED
    BY <2>1, <2>2, LeadsNearer DEF Loop, Past, Before
<1>2. ASSUME NEW r \in task.captured,
             task' = [task EXCEPT !.at = "confirm", !.target = r, !.captured = @ \ {r}]
      PROVE  StepsLeft' < StepsLeft
  <2> DEFINE c == Cardinality(task.captured)   d == Cardinality(task'.captured)
  <2>1. IsFiniteSet(task.captured)
    <3>1. task.captured \in SUBSET Records
      BY <1>t DEF Locals
    <3> QED
      BY <3>1, TargetsCounted DEF Single
  <2>2. task.at = "next" /\ task'.at = "confirm" /\ task'.captured = task.captured \ {r}
    BY <1>2, <1>t DEF NextTarget, Locals
  <2>3. d = c - 1
    BY <2>1, <2>2, FS_RemoveElement
  <2>4. StepsLeft = 6 * c + 3 /\ StepsLeft' = 6 * d + 8 /\ c \in Nat /\ d \in Nat
    BY <2>2 DEF Measured, Loop, Stage
  <2> HIDE DEF c, d
  <2> QED
    BY <2>3, <2>4
<1> QED
  BY <1>1, <1>2, <1>t DEF NextTarget, Locals

LEMMA RemoveNearer ==
  ASSUME TypeOK, Measured, Measured', Compare \/ Remove
  PROVE  StepsLeft' < StepsLeft
<1>t. task \in Locals
  BY DEF TypeOK
<1>1. CASE Compare
  <2>1. Leads("compare", {"remove", "start", "done", "failed"})
    BY <1>1, <1>t DEF Compare, Goto, Prepared, Leads, Locals
  <2>2. \A l \in {"remove", "start", "done", "failed"} : Later("compare", l)
    BY DEF Later, Loop, Past, Before, Stage
  <2> QED
    BY <2>1, <2>2, LeadsNearer DEF Loop, Past, Before
<1>2. CASE Remove
  <2>1. Leads("remove", {"start", "done"})
    BY <1>2, <1>t DEF Remove, Goto, Prepared, Leads, Locals
  <2>2. \A l \in {"start", "done"} : Later("remove", l)
    BY DEF Later, Loop, Past, Before, Stage
  <2> QED
    BY <2>1, <2>2, LeadsNearer DEF Loop, Past, Before
<1> QED
  BY <1>1, <1>2

\* Nothing but its own steps, a refusal or a crash moves a reap.
LEMMA OthersWait ==
  ASSUME TypeOK, [Next]_vars, InReap, InReap', ~ReapStep PROVE UNCHANGED task
<1>t. task \in Locals
  BY DEF TypeOK
<1>1. CASE Crash \/ Refused
  BY <1>1, <1>t DEF Crash, Refused, Fresh, Goto, InReap, Locals
<1>2. CASE Begin \/ StartFails \/ ReadIdentity \/ Exists \/ Publish \/ Abort
           \/ Finish \/ Cleanup \/ Unlink \/ Rest
  BY <1>2 DEF Begin, StartFails, ReadIdentity, Exists, Publish, Abort, Finish, Cleanup, Unlink,
              Rest, Goto, InReap
<1>3. CASE \/ \E i \in Tokens : Exit(i)
           \/ \E p \in Pids : Fork(p) \/ Stranger(p)
           \/ UNCHANGED vars
  BY <1>3 DEF Exit, Fork, Stranger, vars
<1>4. CASE \E p \in Pids : StartChild(p)
  BY <1>4 DEF StartChild, InReap
<1> QED
  BY <1>1, <1>2, <1>3, <1>4 DEF Next, ReapStep

\* Every step of a reap leaves fewer to come, and nothing else moves it, for
\* every number of pids and processes (pid_file.rs 356-400, 832-892).
THEOREM ReapAdvancesHolds == Spec => ReapAdvances
<1> DEFINE Advances ==
      /\ ReapStep => StepsLeft' < StepsLeft
      /\ InReap /\ InReap' /\ ~ReapStep => UNCHANGED task
<1>1. TypeOK /\ Single /\ Measured /\ Measured' /\ [Next]_vars => Advances
  BY PrepareNearer, CaptureNearer, KillNearer, NextNearer, RemoveNearer, OthersWait
     DEF ReapStep
<1>2. TypeOK /\ Single /\ Measured /\ Measured' /\ [Next]_vars => [Advances]_vars
  BY <1>1
<1>3. Spec => [](TypeOK /\ Single /\ Measured)
  BY AlwaysSingle, AlwaysMeasured, PTL
<1>4. Spec => [][Advances]_vars
  BY <1>2, <1>3, PTL DEF Spec
<1> QED
  BY <1>4 DEF ReapAdvances

\* How many steps a reap takes: at most fourteen and six for each pid.
THEOREM ReapIsBounded == Spec => [](StepsLeft \in 0 .. 6 * MaxPids + 14)
<1>1. Measured => StepsLeft \in 0 .. 6 * MaxPids + 14
  BY DEF Measured
<1> QED
  BY <1>1, AlwaysMeasured, PTL
=============================================================================
