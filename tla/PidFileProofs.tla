--------------------------- MODULE PidFileProofs ---------------------------
(***************************************************************************)
(* Proofs about the record of an epoch for every number of pids, processes *)
(* and tasks.                                                              *)
(***************************************************************************)
EXTENDS MCEpochPidFile, TLAPS

(***************************************************************************)
(* The inductive invariant.                                                *)
(***************************************************************************)
Killing == {"confirm", "open", "check", "signal", "wait"}
Reaping == Killing \cup {"identify", "list", "capture", "list_again",
                         "capture_again", "next", "compare", "remove"}
Published == {"running", "cleanup", "unlink"}
Spawned == Published \cup {"identity", "exists", "publish", "abort"}

\* The locals a task relies on are set; nobody else changes the record.
Placed ==
  /\ task.at \in Reaping => file \in Records /\ task.rec = file
  /\ task.at \in Killing => task.target \in Records
  /\ task.at \in Spawned => task.child \in Records
  /\ task.at \in Published => task.record = task.child

\* A recorded process that lives still has its pid, and no process to come has
\* its token.
Located(pid, token) == token <= started /\ (token \in alive => table[pid] = token)

AllLocated ==
  /\ Located(file.pid, file.token)
  /\ task.at \in Spawned => Located(task.child.pid, task.child.token)
  /\ \A p \in Pids : table[p] <= started
  /\ published \subseteq 1 .. started

\* The pidfd holds whom the pid named, or somebody dead; once checked, it holds
\* the target or somebody dead.
Pinned ==
  /\ task.at \in {"check", "signal"} => Located(task.target.pid, task.pidfd)
  /\ task.at = "signal" /\ task.pidfd \in alive => task.pidfd = task.target.token

\* The reaper gets past the root, and the pump past the child, only when it is dead.
DeadBefore ==
  /\ task.at \in {"next", "compare", "remove"} => file.token \notin alive
  /\ task.at \in Killing /\ ~IsRoot => file.token \notin alive
  /\ task.at \in Published => file = task.child
  /\ task.at \in {"cleanup", "unlink"} => file.token \notin alive

Sound ==
  /\ AllLocated /\ Pinned /\ DeadBefore
  /\ RecordedChildIsRecoverable /\ SignalHitsItsTarget /\ CleanEndLeavesNoRecord

(***************************************************************************)
(* Type correctness.                                                       *)
(***************************************************************************)
USE RecordAssumption

LEMMA Numbers ==
  /\ Nobody.pid = 0 /\ Nobody.token = 0 /\ Nobody \notin Records
  /\ \A r \in Records : r.pid \in Pids /\ r.token \in Tokens /\ r.token \in Nat \ {0}
  /\ Pids \subseteq Nat /\ 0 \notin Tokens /\ Tokens \subseteq 0 .. MaxProcs
BY DEF Nobody, Records, Pids, Tokens

LEMMA InitTyped == Init => TypeOK /\ Placed
<1> SUFFICES ASSUME Init PROVE TypeOK /\ Placed
  OBVIOUS
<1>1. task \in Locals
  BY DEF Init, Fresh, Locals, Places
<1>2. Placed
  BY DEF Init, Fresh, Placed, Reaping, Killing, Spawned, Published
<1>3. 0 \in 0 .. MaxProcs /\ 0 \in 0 .. MaxTasks
  OBVIOUS
<1> QED
  BY <1>1, <1>2, <1>3 DEF Init, TypeOK

\* What the processes do keeps the types.
LEMMA BornTyped ==
  ASSUME TypeOK, NEW pid \in Pids, NEW of \in 0 .. MaxProcs, Born(pid, started + 1, of)
  PROVE  /\ started' = started + 1 /\ started' \in Tokens /\ started' \in 0 .. MaxProcs
         /\ table' \in [Pids -> 0 .. MaxProcs] /\ alive' \subseteq Tokens
         /\ parent' \in [Tokens -> 0 .. MaxProcs]
<1>1. started + 1 \in Tokens /\ started + 1 \in 0 .. MaxProcs
  BY DEF TypeOK, Born, Tokens
<1> QED
  BY <1>1 DEF TypeOK, Born

LEMMA FreeTyped ==
  ASSUME TypeOK, NEW token
  PROVE  Free(token) \in [Pids -> 0 .. MaxProcs]
BY DEF TypeOK, Free

LEMMA SeenTyped == TypeOK => Seen \in SUBSET Records
<1> SUFFICES ASSUME TypeOK, NEW r \in Seen PROVE r \in Records
  OBVIOUS
<1>1. PICK p \in task.snapshot : Identity(p) # 0 /\ r = [pid |-> p, token |-> Identity(p)]
  BY DEF Seen
<1>2. p \in Pids /\ Identity(p) \in Tokens
  BY <1>1 DEF TypeOK, Locals, Identity
<1> QED
  BY <1>1, <1>2 DEF Records

LEMMA StepTyped ==
  ASSUME TypeOK, Placed, [Next]_vars
  PROVE  (TypeOK /\ Placed)'
<1> USE Numbers DEF Reaping, Killing, Spawned, Published
<1>a. /\ task \in Locals /\ tasks \in 0 .. MaxTasks /\ file \in Records \cup {Nobody}
      /\ table \in [Pids -> 0 .. MaxProcs] /\ alive \subseteq Tokens
      /\ parent \in [Tokens -> 0 .. MaxProcs] /\ started \in 0 .. MaxProcs
      /\ tree \subseteq Tokens /\ published \subseteq Tokens
      /\ shot \subseteq Tokens \X Tokens
  BY DEF TypeOK
\* Steps that change nothing but the locals of the task.
<1>b. ASSUME Alone, task' \in Locals, Placed' PROVE (TypeOK /\ Placed)'
  BY <1>a, <1>b DEF Alone, system, TypeOK
<1>c. ASSUME NEW l \in Places PROVE [task EXCEPT !.at = l] \in Locals
  BY <1>a DEF Locals
<1>1. CASE UNCHANGED vars
  BY <1>1, <1>a DEF vars, system, TypeOK, Placed
<1>2. ASSUME NEW i \in Tokens, Exit(i) PROVE (TypeOK /\ Placed)'
  <2>1. table' \in [Pids -> 0 .. MaxProcs] /\ parent' \in [Tokens -> 0 .. MaxProcs]
        /\ alive' \subseteq Tokens
    BY <1>2, <1>a, FreeTyped DEF Exit
  <2> QED
    BY <1>2, <1>a, <2>1 DEF Exit, TypeOK, Placed
<1>3. ASSUME NEW p \in Pids, Fork(p) PROVE (TypeOK /\ Placed)'
  <2>1. PICK i \in tree \cap alive : Born(p, started + 1, i)
    BY <1>3 DEF Fork
  <2>2. /\ started' \in Tokens /\ started' \in 0 .. MaxProcs
        /\ table' \in [Pids -> 0 .. MaxProcs] /\ alive' \subseteq Tokens
        /\ parent' \in [Tokens -> 0 .. MaxProcs]
    BY <1>a, <2>1, BornTyped
  <2> QED
    BY <1>3, <1>a, <2>2 DEF Fork, TypeOK, Placed
<1>4. ASSUME NEW p \in Pids, Stranger(p) PROVE (TypeOK /\ Placed)'
  <2>2. /\ started' \in Tokens /\ started' \in 0 .. MaxProcs
        /\ table' \in [Pids -> 0 .. MaxProcs] /\ alive' \subseteq Tokens
        /\ parent' \in [Tokens -> 0 .. MaxProcs]
    BY <1>4, BornTyped DEF Stranger
  <2> QED
    BY <1>4, <1>a, <2>2 DEF Stranger, TypeOK, Placed
<1>5. ASSUME NEW p \in Pids, StartChild(p) PROVE (TypeOK /\ Placed)'
  <2>1. /\ started' \in Tokens /\ started' \in 0 .. MaxProcs
        /\ table' \in [Pids -> 0 .. MaxProcs] /\ alive' \subseteq Tokens
        /\ parent' \in [Tokens -> 0 .. MaxProcs]
    BY <1>5, BornTyped DEF StartChild
  <2>2. [pid |-> p, token |-> started'] \in Records
    BY <2>1 DEF Records
  <2>3. /\ task' \in Locals /\ task'.at = "identity"
        /\ task'.child = [pid |-> p, token |-> started']
    BY <1>5, <1>a, <2>2 DEF StartChild, Locals, Places
  <2> QED
    BY <1>5, <1>a, <2>1, <2>2, <2>3 DEF StartChild, TypeOK, Placed
<1>6. CASE Begin
  <2>1. PICK k \in {"spawn", "reap"} : task' = Fresh("read", k)
    BY <1>6 DEF Begin
  <2>2. task' \in Locals /\ task'.at = "read"
    BY <2>1 DEF Fresh, Locals, Places
  <2>3. tasks' \in 0 .. MaxTasks
    BY <1>6, <1>a DEF Begin
  <2> QED
    BY <1>6, <1>a, <2>2, <2>3 DEF Begin, system, TypeOK, Placed
<1>7. CASE Read
  <2>1. task' \in Locals /\ Placed'
    <3>1. CASE file = Nobody
      <4>1. Prepared \in {"start", "done"} /\ task' = [task EXCEPT !.at = Prepared]
        BY <1>7, <3>1 DEF Read, Prepared
      <4> QED
        BY <1>7, <1>a, <4>1 DEF Read, Alone, Locals, Places, Placed
    <3>2. CASE file # Nobody
      <4>1. task' = [task EXCEPT !.at = "identify", !.rec = file] /\ file' = file
        BY <1>7, <3>2 DEF Read, Alone
      <4>2. task' \in Locals
        BY <1>a, <4>1 DEF Locals, Places
      <4> QED
        BY <1>a, <3>2, <4>1, <4>2 DEF Locals, Placed
    <3> QED
      BY <3>1, <3>2
  <2> QED
    BY <1>7, <1>b, <2>1 DEF Read
<1>8. CASE Identify
  <2>1. task' \in Locals /\ Placed'
    BY <1>8, <1>a DEF Identify, Goto, Alone, Locals, Places, Placed
  <2> QED
    BY <1>8, <1>b, <2>1 DEF Identify
<1>9. CASE List("list", "capture") \/ List("list_again", "capture_again")
  <2>1. Below(table[task.rec.pid]) \subseteq Pids
    BY DEF Below
  <2>2. ASSUME NEW from \in {"list", "list_again"}, NEW to \in {"capture", "capture_again"},
               List(from, to)
        PROVE  task' \in Locals /\ Placed'
    <3>1. /\ task.at = from /\ file' = file
          /\ task' = [task EXCEPT !.at = to, !.snapshot = Below(table[task.rec.pid])]
      BY <2>2 DEF List, Alone
    <3>2. task' \in Locals
      BY <1>a, <2>1, <3>1 DEF Locals, Places
    <3>3. task'.at = to /\ task'.rec = task.rec
      BY <1>a, <3>1 DEF Locals
    <3> QED
      BY <3>1, <3>2, <3>3 DEF Placed
  <2> QED
    BY <1>9, <1>b, <2>2 DEF List
<1>10. CASE Capture
  <2>1. task' \in Locals /\ Placed'
    BY <1>10, <1>a, SeenTyped DEF Capture, Alone, Locals, Places, Placed
  <2> QED
    BY <1>10, <1>b, <2>1 DEF Capture
<1>11. CASE CaptureAgain
  <2>1. {r \in task.captured : r.pid \notin task.snapshot} \cup Seen \in SUBSET Records
    BY <1>a, SeenTyped DEF Locals
  <2>2. task' \in Locals /\ Placed'
    BY <1>11, <1>a, <2>1 DEF CaptureAgain, Alone, Locals, Places, Placed
  <2> QED
    BY <1>11, <1>b, <2>2 DEF CaptureAgain
<1>12. CASE Confirm
  <2>1. task' \in Locals /\ Placed'
    BY <1>12, <1>a DEF Confirm, Unproven, Goto, Alone, Locals, Places, Placed
  <2> QED
    BY <1>12, <1>b, <2>1 DEF Confirm
<1>13. CASE Open
  <2>1. table[task.target.pid] \in 0 .. MaxProcs
    BY <1>13, <1>a DEF Open, Placed
  <2>2. task' \in Locals /\ Placed'
    BY <1>13, <1>a, <2>1 DEF Open, Alone, Locals, Places, Placed
  <2> QED
    BY <1>13, <1>b, <2>2 DEF Open
<1>14. CASE Check
  <2>1. task' \in Locals /\ Placed'
    BY <1>14, <1>a DEF Check, Goto, Alone, Locals, Places, Placed
  <2> QED
    BY <1>14, <1>b, <2>1 DEF Check
<1>15. CASE Signal
  <2>1. task' \in Locals /\ Placed'
    BY <1>15, <1>a DEF Signal, Goto, Locals, Places, Placed
  <2>2. shot' \subseteq Tokens \X Tokens
    <3>1. task.target.token \in Tokens /\ (Hit # 0 => Hit \in Tokens)
      BY <1>15, <1>a DEF Signal, Goto, Placed, Hit
    <3> QED
      BY <1>15, <1>a, <3>1 DEF Signal
  <2> QED
    BY <1>15, <1>a, <2>1, <2>2 DEF Signal, system, TypeOK
<1>16. CASE Wait
  <2>1. PICK l \in {"next", "failed"}, f \in BOOLEAN :
           task' = [task EXCEPT !.at = l, !.failures = f]
    <3>1. CASE task' = [task EXCEPT !.at = "next"]
      BY <3>1, <1>a DEF Locals
    <3>2. CASE \E f \in BOOLEAN : task' = [task EXCEPT !.at = Unproven, !.failures = @ \/ f]
      BY <3>2, <1>a DEF Locals, Unproven
    <3> QED
      BY <1>16, <3>1, <3>2 DEF Wait
  <2>2. task.at = "wait" /\ file' = file /\ Alone
    BY <1>16 DEF Wait, Alone
  <2>3. task' \in Locals /\ task'.at = l /\ task'.rec = task.rec
    BY <1>a, <2>1 DEF Locals, Places
  <2>4. Placed'
    BY <2>2, <2>3 DEF Placed
  <2> QED
    BY <1>b, <2>2, <2>3, <2>4
<1>17. CASE NextTarget
  <2>1. task.at = "next" /\ file' = file /\ Alone
    BY <1>17 DEF NextTarget, Alone
  <2>2. task' \in Locals /\ Placed'
    <3>1. CASE task' = [task EXCEPT !.at = Reaped]
      BY <3>1, <1>a, <2>1 DEF Reaped, Locals, Places, Placed
    <3>2. ASSUME NEW r \in task.captured,
                 task' = [task EXCEPT !.at = "confirm", !.target = r, !.captured = @ \ {r}]
          PROVE  task' \in Locals /\ Placed'
      <4>1. r \in Records /\ task.captured \ {r} \in SUBSET Records
        BY <1>a DEF Locals
      <4>2. task' \in Locals
        BY <1>a, <3>2, <4>1 DEF Locals, Places
      <4>3. task'.at = "confirm" /\ task'.target = r /\ task'.rec = task.rec
        BY <1>a, <3>2 DEF Locals
      <4> QED
        BY <2>1, <4>1, <4>2, <4>3 DEF Placed
    <3> QED
      BY <1>17, <3>1, <3>2 DEF NextTarget
  <2> QED
    BY <1>b, <2>1, <2>2
<1>18. CASE Compare
  <2>1. task' \in Locals /\ Placed'
    BY <1>18, <1>a DEF Compare, Prepared, Goto, Alone, Locals, Places, Placed
  <2> QED
    BY <1>18, <1>b, <2>1 DEF Compare
<1>19. CASE Remove
  <2>1. task' \in Locals /\ Placed'
    BY <1>19, <1>a DEF Remove, Prepared, Goto, Locals, Places, Placed
  <2> QED
    BY <1>19, <1>a, <2>1 DEF Remove, system, TypeOK
<1>20. CASE StartFails \/ Refused
  <2>1. task' \in Locals /\ Placed'
    BY <1>20, <1>a DEF StartFails, Refused, Goto, Alone, Locals, Places, Placed
  <2> QED
    BY <1>20, <1>b, <2>1 DEF StartFails, Refused
<1>21. CASE ReadIdentity
  <2>1. task' \in Locals /\ Placed'
    BY <1>21, <1>a DEF ReadIdentity, Goto, Alone, Locals, Places, Placed
  <2> QED
    BY <1>21, <1>b, <2>1 DEF ReadIdentity
<1>22. CASE Exists
  <2>1. task' \in Locals /\ Placed'
    BY <1>22, <1>a DEF Exists, Goto, Alone, Locals, Places, Placed
  <2> QED
    BY <1>22, <1>b, <2>1 DEF Exists
<1>23. CASE Publish
  <2>1. task' \in Locals /\ Placed'
    <3>1. CASE task' = [task EXCEPT !.at = "abort"]
      BY <1>23, <1>a, <3>1 DEF Publish, Locals, Places, Placed
    <3>2. CASE task' = [task EXCEPT !.at = "running", !.record = task.child]
      <4>1. task' \in Locals
        BY <1>a, <3>2 DEF Locals, Places
      <4>2. task'.at = "running" /\ task'.record = task.child /\ task'.child = task.child
        BY <1>a, <3>2 DEF Locals
      <4>3. task.child \in Records
        BY <1>23 DEF Publish, Placed
      <4> QED
        BY <4>1, <4>2, <4>3 DEF Placed
    <3> QED
      BY <1>23, <3>1, <3>2 DEF Publish, Kept, Goto
  <2>2. file' \in Records \cup {Nobody} /\ published' \subseteq Tokens
    BY <1>23, <1>a DEF Publish, Placed
  <2> QED
    BY <1>23, <1>a, <2>1, <2>2 DEF Publish, system, TypeOK
<1>24. CASE Abort
  <2>1. task' \in Locals /\ Placed'
    BY <1>24, <1>a DEF Abort, Goto, Locals, Places, Placed
  <2> QED
    BY <1>24, <1>a, <2>1, FreeTyped DEF Abort, TypeOK
<1>25. CASE Finish
  <2>1. task' \in Locals /\ Placed'
    BY <1>25, <1>a DEF Finish, Goto, Locals, Places, Placed
  <2> QED
    BY <1>25, <1>a, <2>1, FreeTyped DEF Finish, TypeOK
<1>26. CASE Cleanup
  <2>1. task' \in Locals /\ Placed'
    BY <1>26, <1>a DEF Cleanup, Goto, Alone, Locals, Places, Placed
  <2> QED
    BY <1>26, <1>b, <2>1 DEF Cleanup
<1>27. CASE Unlink
  <2>1. task' \in Locals /\ Placed'
    BY <1>27, <1>a DEF Unlink, Goto, Locals, Places, Placed
  <2> QED
    BY <1>27, <1>a, <2>1 DEF Unlink, Unlinked, system, TypeOK
<1>28. CASE Crash
  <2>1. task' \in Locals /\ task'.at = "idle"
    BY <1>28 DEF Crash, Fresh, Locals, Places
  <2> QED
    BY <1>28, <1>a, <2>1, FreeTyped DEF Crash, TypeOK, Placed
<1>29. CASE Rest
  BY <1>29, <1>1 DEF Rest
<1> QED
  BY <1>1, <1>2, <1>3, <1>4, <1>5, <1>6, <1>7, <1>8, <1>9, <1>10, <1>11, <1>12, <1>13,
     <1>14, <1>15, <1>16, <1>17, <1>18, <1>19, <1>20, <1>21, <1>22, <1>23, <1>24, <1>25,
     <1>26, <1>27, <1>28, <1>29 DEF Next

\* The task, the record and the process table keep their types.
THEOREM TypeCorrect == Spec => []TypeOK
<1>1. TypeOK /\ Placed /\ [Next]_vars => (TypeOK /\ Placed)'
  BY StepTyped
<1> QED
  BY InitTyped, <1>1, PTL DEF Spec

(***************************************************************************)
(* What any step leaves of the processes: tokens are not used twice, and a *)
(* process that survives the step keeps its pid.                           *)
(***************************************************************************)
Persist ==
  /\ started <= started'
  /\ \A i \in 0 .. started : i \in alive' => i \in alive
  /\ \A p \in Pids : table[p] \in alive' /\ table[p] <= started => table'[p] = table[p]
  /\ \A p \in Pids : table'[p] <= started'

LEMMA BornPersists ==
  ASSUME TypeOK, AllLocated, NEW pid \in Pids, NEW of, Born(pid, started + 1, of)
  PROVE  Persist
<1> USE Numbers
<1>1. started \in Nat /\ started' = started + 1 /\ alive' = alive \cup {started + 1}
  BY DEF TypeOK, Born
<1>2. \A p \in Pids : p # pid => table'[p] = table[p]
  BY DEF TypeOK, Born
<1>3. table[pid] = 0 /\ table'[pid] = started + 1
  BY DEF TypeOK, Born
<1>4. \A p \in Pids : table[p] <= started
  BY DEF AllLocated
<1>5. 0 \notin alive'
  BY <1>1 DEF TypeOK
<1>6. \A p \in Pids : table[p] \in Nat
  BY DEF TypeOK
<1> QED
  BY <1>1, <1>2, <1>3, <1>4, <1>5, <1>6 DEF Persist

LEMMA FreePersists ==
  ASSUME TypeOK, AllLocated, NEW token, token \notin alive', alive' \subseteq alive,
         table' = table \/ table' = Free(token), started' = started
  PROVE  Persist
<1>1. \A p \in Pids : table[p] \in 0 .. MaxProcs /\ table[p] <= started
  BY DEF TypeOK, AllLocated
<1>2. started \in Nat
  BY DEF TypeOK
<1>3. \A p \in Pids : Free(token)[p] = IF table[p] = token THEN 0 ELSE table[p]
  BY DEF Free
<1>4. \A p \in Pids : table'[p] = table[p] \/ (table[p] = token /\ table'[p] = 0)
  BY <1>3
<1> QED
  BY <1>1, <1>2, <1>4 DEF Persist

LEMMA StepPersists ==
  ASSUME TypeOK, Placed, AllLocated, [Next]_vars
  PROVE  Persist
<1>1. CASE UNCHANGED system
  <2>1. started' = started /\ alive' = alive /\ table' = table
    BY <1>1 DEF system
  <2> QED
    BY <2>1 DEF Persist, AllLocated, TypeOK
<1>2. ASSUME NEW i \in Tokens, Exit(i) PROVE Persist
  <2>1. i \notin alive' /\ alive' \subseteq alive /\ started' = started
        /\ (table' = table \/ table' = Free(i))
    BY <1>2 DEF Exit
  <2> QED
    BY <2>1, FreePersists
<1>3. ASSUME NEW p \in Pids, Fork(p) \/ Stranger(p) \/ StartChild(p) PROVE Persist
  BY <1>3, BornPersists DEF Fork, Stranger, StartChild
<1>4. CASE Abort \/ Finish \/ Crash
  <2>1. alive' = alive /\ started' = started
    BY <1>4 DEF Abort, Finish, Crash
  <2>2. \/ table' = table
        \/ task.child.token \notin alive /\ table' = Free(task.child.token)
    BY <1>4 DEF Abort, Finish, Crash, ChildFinished
  <2>3. CASE table' = table
    BY <2>1, <2>3 DEF Persist, AllLocated, TypeOK
  <2> QED
    BY <2>1, <2>2, <2>3, FreePersists
<1>5. CASE \/ Begin \/ Read \/ Identify \/ List("list", "capture") \/ Capture
           \/ List("list_again", "capture_again") \/ CaptureAgain
           \/ Confirm \/ Open \/ Check \/ Signal \/ Wait \/ NextTarget
           \/ Compare \/ Remove \/ StartFails \/ Refused \/ ReadIdentity \/ Exists \/ Publish
           \/ Cleanup \/ Unlink \/ Rest \/ UNCHANGED vars
  <2>1. UNCHANGED system
    BY <1>5 DEF Begin, Read, Identify, List, Capture, CaptureAgain, Confirm, Open, Check,
         Signal, Wait, NextTarget, Compare, Remove, StartFails, Refused, ReadIdentity, Exists,
         Publish, Cleanup, Unlink, Rest, Alone, vars
  <2> QED
    BY <1>1, <2>1
<1> QED
  BY <1>2, <1>3, <1>4, <1>5 DEF Next

\* A process that was at its pid still is, or is dead for good.
LEMMA LocatedKept ==
  ASSUME TypeOK, Persist, NEW pid \in Pids \cup {0}, NEW token \in 0 .. MaxProcs,
         token # 0 => pid \in Pids, Located(pid, token), started' \in Nat,
         0 \notin alive'
  PROVE  Located(pid, token)'
<1>1. started \in Nat /\ token <= started
  BY DEF TypeOK, Located
<1>2. ASSUME token \in alive' PROVE table'[pid] = token
  <2>1. token \in alive /\ pid \in Pids /\ table[pid] = token
    BY <1>1, <1>2 DEF Persist, Located
  <2> QED
    BY <1>1, <1>2, <2>1 DEF Persist
<1> QED
  BY <1>1, <1>2 DEF Persist, Located

\* So is what the record names, as long as nobody changes it.
LEMMA FileLocated ==
  ASSUME TypeOK, TypeOK', AllLocated, Persist, file' = file
  PROVE  Located(file.pid, file.token)'
<1> USE Numbers
<1>1. Located(file.pid, file.token)
  BY DEF AllLocated
<1>2. /\ file.pid \in Pids \cup {0} /\ file.token \in 0 .. MaxProcs
      /\ file.token # 0 => file.pid \in Pids
  BY DEF TypeOK
<1>3. file'.pid = file.pid /\ file'.token = file.token
  OBVIOUS
<1>4. started' \in Nat /\ 0 \notin alive'
  BY DEF TypeOK
<1> QED
  BY <1>1, <1>2, <1>3, <1>4, LocatedKept DEF Located

(***************************************************************************)
(* The record and the signals.                                             *)
(***************************************************************************)
LEMMA InitSound == Init => Sound
<1> SUFFICES ASSUME Init PROVE Sound
  OBVIOUS
<1>1. task.at = "idle" /\ task.kind = "spawn"
  BY DEF Init, Fresh
<1>2. AllLocated
  BY <1>1, Numbers DEF Init, AllLocated, Located, Spawned, Published
<1>3. Pinned /\ DeadBefore
  BY <1>1 DEF Pinned, DeadBefore, Killing, Published
<1> QED
  BY <1>1, <1>2, <1>3
     DEF Init, Sound, RecordedChildIsRecoverable, SignalHitsItsTarget, CleanEndLeavesNoRecord

\* A step that changes only the locals of the task.
LEMMA AloneSound ==
  ASSUME TypeOK, Sound, Alone, Pinned', DeadBefore',
         task'.at \in Spawned => task.at \in Spawned /\ task'.child = task.child,
         task'.at = "done" /\ task'.kind = "spawn" => file = Nobody
  PROVE  Sound'
<1>1. AllLocated'
  BY DEF Sound, Alone, system, AllLocated, Located
<1> QED
  BY <1>1 DEF Sound, Alone, system, RecordedChildIsRecoverable, SignalHitsItsTarget,
             CleanEndLeavesNoRecord

\* A step of the processes around the task.
LEMMA WorldSound ==
  ASSUME TypeOK, Placed, Sound, TypeOK', Persist,
         UNCHANGED <<task, tasks, file, published, shot>>
  PROVE  Sound'
<1> USE DEF Sound
<1>1. started' \in Nat /\ 0 \notin alive' /\ started \in Nat
  BY Numbers DEF TypeOK
<1>2. Located(file.pid, file.token)'
  BY FileLocated
<1>3. ASSUME task.at \in Spawned PROVE Located(task.child.pid, task.child.token)'
  <2>1. Located(task.child.pid, task.child.token)
    BY <1>3 DEF AllLocated
  <2>2. task.child.pid \in Pids /\ task.child.token \in 0 .. MaxProcs
    BY <1>3, Numbers DEF Placed
  <2>3. task'.child = task.child
    OBVIOUS
  <2> QED
    BY <1>1, <2>1, <2>2, <2>3, LocatedKept DEF Located
<1>4. AllLocated'
  BY <1>1, <1>2, <1>3 DEF AllLocated, Persist
<1>5. Pinned'
  <2>1. ASSUME task.at \in {"check", "signal"} PROVE Located(task.target.pid, task.pidfd)'
    <3>1. Located(task.target.pid, task.pidfd)
      BY <2>1 DEF Pinned
    <3>2. task.target.pid \in Pids /\ task.pidfd \in 0 .. MaxProcs
      BY <2>1, Numbers DEF Placed, Killing, TypeOK, Locals
    <3> QED
      BY <1>1, <3>1, <3>2, LocatedKept DEF Located
  <2>2. task.at = "signal" /\ task.pidfd \in alive' => task.pidfd = task.target.token
    BY <1>1 DEF Pinned, Located, Persist, TypeOK, Locals
  <2> QED
    BY <2>1, <2>2 DEF Pinned
<1>6. file.token \notin alive => file.token \notin alive'
  <2>1. file.token \in 0 .. started
    BY <1>1, Numbers DEF AllLocated, Located, TypeOK
  <2> QED
    BY <2>1 DEF Persist
<1>7. DeadBefore'
  BY <1>6 DEF DeadBefore, IsRoot
<1>8. RecordedChildIsRecoverable'
  BY <1>1 DEF RecordedChildIsRecoverable, AllLocated, Persist
<1> QED
  BY <1>4, <1>5, <1>7, <1>8 DEF SignalHitsItsTarget, CleanEndLeavesNoRecord

LEMMA StepSound ==
  ASSUME TypeOK, Placed, Sound, [Next]_vars
  PROVE  Sound'
<1> USE Numbers
<1>t. TypeOK' /\ Placed'
  BY StepTyped
<1>p. Persist
  BY StepPersists DEF Sound
<1>a. /\ task \in Locals /\ task' \in Locals
      /\ AllLocated /\ Pinned /\ DeadBefore
      /\ RecordedChildIsRecoverable /\ SignalHitsItsTarget /\ CleanEndLeavesNoRecord
  BY <1>t DEF TypeOK, Sound
<1> USE DEF Killing, Published, Spawned
<1>1. CASE UNCHANGED vars
  <2>1. UNCHANGED <<task, tasks, file, published, shot>>
    BY <1>1 DEF vars
  <2> QED
    BY <2>1, <1>t, <1>p, WorldSound
<1>2. ASSUME NEW i \in Tokens, Exit(i) PROVE Sound'
  BY <1>2, <1>t, <1>p, WorldSound DEF Exit
<1>3. ASSUME NEW p \in Pids, Fork(p) \/ Stranger(p) PROVE Sound'
  BY <1>3, <1>t, <1>p, WorldSound DEF Fork, Stranger
<1>4. ASSUME NEW p \in Pids, StartChild(p) PROVE Sound'
  <2>1. /\ task.at = "start" /\ Born(p, started + 1, 0)
        /\ task' = [task EXCEPT !.at = "identity",
                                !.child = [pid |-> p, token |-> started']]
        /\ UNCHANGED <<tasks, file, published, shot>>
    BY <1>4 DEF StartChild
  <2>2. task'.at = "identity" /\ task'.child = [pid |-> p, token |-> started']
    BY <2>1, <1>a DEF Locals
  <2>3. started \in Nat /\ started' \in Nat /\ 0 \notin alive'
    BY <1>t DEF TypeOK
  <2>4. Located(task.child.pid, task.child.token)'
    BY <2>1, <2>2, <2>3 DEF Born, Located, TypeOK
  <2>5. Located(file.pid, file.token)'
    BY <1>a, <1>p, <1>t, <2>1, FileLocated
  <2>6. AllLocated'
    BY <1>a, <1>p, <2>1, <2>3, <2>4, <2>5 DEF AllLocated, Persist
  <2>7. RecordedChildIsRecoverable'
    BY <1>a, <1>p, <2>1, <2>3 DEF RecordedChildIsRecoverable, AllLocated, Persist
  <2> QED
    BY <1>a, <2>1, <2>2, <2>6, <2>7
       DEF Sound, Pinned, DeadBefore, SignalHitsItsTarget, CleanEndLeavesNoRecord
<1>5. CASE Begin \/ Crash
  <2>1. /\ task'.at \in {"read", "idle"}
        /\ UNCHANGED <<file, published, shot>>
    BY <1>5 DEF Begin, Crash, Fresh
  <2>2. Located(file.pid, file.token)'
    BY <1>a, <1>p, <1>t, <2>1, FileLocated
  <2>3. started \in Nat /\ started' \in Nat
    BY <1>t DEF TypeOK
  <2>4. AllLocated'
    BY <1>a, <1>p, <2>1, <2>2, <2>3 DEF AllLocated, Persist
  <2>5. RecordedChildIsRecoverable'
    BY <1>a, <1>p, <2>1, <2>3 DEF RecordedChildIsRecoverable, AllLocated, Persist
  <2> QED
    BY <1>a, <2>1, <2>4, <2>5
       DEF Sound, Pinned, DeadBefore, SignalHitsItsTarget, CleanEndLeavesNoRecord
<1>6. CASE Read
  <2>1. task'.at \in {"start", "identify"} \/ (task'.at = "done" /\ task'.kind = "reap")
    BY <1>6, <1>a DEF Read, Prepared, Locals
  <2> QED
    BY <1>6, <2>1, AloneSound DEF Read, Pinned, DeadBefore
<1>7. CASE Identify
  <2>1. \/ task'.at \in {"failed", "list"}
        \/ task'.at = "compare" /\ Identity(task.rec.pid) = 0
    BY <1>7, <1>a DEF Identify, Goto, Locals
  <2>2. Identity(task.rec.pid) = 0 => file.token \notin alive
    BY <1>7, <1>a DEF Identify, Goto, Identity, Placed, Reaping, AllLocated, Located
  <2>3. Alone /\ file' = file /\ alive' = alive
    BY <1>7 DEF Identify, Alone, system
  <2> QED
    BY <2>1, <2>2, <2>3, AloneSound DEF Pinned, DeadBefore
<1>8. CASE \/ List("list", "capture") \/ Capture \/ List("list_again", "capture_again")
           \/ StartFails \/ Refused
  <2>1. Alone /\ task'.at \in {"capture", "list_again", "capture_again", "failed"}
    BY <1>8, <1>a DEF List, Capture, StartFails, Refused, Goto, Locals
  <2> QED
    BY <2>1, AloneSound DEF Pinned, DeadBefore
<1>9. CASE CaptureAgain
  <2>1. Alone /\ task'.at = "confirm" /\ task'.target = task'.rec
    BY <1>9, <1>a DEF CaptureAgain, Locals
  <2> QED
    BY <2>1, AloneSound DEF Pinned, DeadBefore, IsRoot
\* The root is not passed unless it is dead.
<1>10. CASE Confirm
  <2>1. /\ Alone /\ file' = file /\ alive' = alive /\ task.at = "confirm"
        /\ task'.target = task.target /\ task'.rec = task.rec
        /\ task'.at \in {"open", "next", "failed"}
    BY <1>10, <1>a DEF Confirm, Unproven, Goto, Alone, system, Locals
  <2>2. IsRoot /\ task'.at = "next" => Identity(task.rec.pid) = 0
    BY <1>10, <1>a DEF Confirm, Unproven, Goto, IsRoot, Locals
  <2>3. Identity(task.rec.pid) = 0 => file.token \notin alive
    BY <2>1, <1>a DEF Identity, Placed, Reaping, AllLocated, Located
  <2>4. DeadBefore'
    BY <1>a, <2>1, <2>2, <2>3 DEF DeadBefore, IsRoot
  <2> QED
    BY <2>1, <2>4, AloneSound DEF Pinned
<1>11. CASE Open
  <2>1. /\ Alone /\ file' = file /\ UNCHANGED <<alive, table, started>> /\ task.at = "open"
        /\ task'.target = task.target /\ task'.rec = task.rec
        /\ task'.pidfd = table[task.target.pid]
        /\ task'.at \in {"wait", "check"}
    BY <1>11, <1>a DEF Open, Alone, system, Locals
  <2>2. Pinned'
    BY <1>a, <2>1 DEF Pinned, Located, AllLocated, Placed
  <2>3. DeadBefore'
    BY <1>a, <2>1 DEF DeadBefore, IsRoot
  <2> QED
    BY <2>1, <2>2, <2>3, AloneSound
\* Whoever still matches and is pinned is the target.
<1>12. CASE Check
  <2>1. /\ Alone /\ file' = file /\ UNCHANGED <<alive, table, started>> /\ task.at = "check"
        /\ task'.target = task.target /\ task'.rec = task.rec /\ task'.pidfd = task.pidfd
        /\ task'.at = IF Matches(task.target) THEN "signal" ELSE "wait"
    BY <1>12, <1>a DEF Check, Goto, Alone, system, Locals
  <2>2. Matches(task.target) /\ task.pidfd \in alive => task.pidfd = task.target.token
    BY <1>a, <2>1 DEF Pinned, Located, Matches, Identity
  <2>3. Pinned'
    BY <1>a, <2>1, <2>2 DEF Pinned, Located
  <2>4. DeadBefore'
    BY <1>a, <2>1 DEF DeadBefore, IsRoot
  <2> QED
    BY <2>1, <2>3, <2>4, AloneSound
<1>13. CASE Signal
  <2>1. /\ UNCHANGED <<file, system, published>> /\ task.at = "signal" /\ task'.at = "wait"
        /\ task'.target = task.target /\ task'.rec = task.rec
        /\ shot' = IF Hit = 0 THEN shot ELSE shot \cup {<<task.target.token, Hit>>}
    BY <1>13, <1>a DEF Signal, Goto, Locals
  <2>2. Hit # 0 => Hit = task.target.token
    BY <1>a, <2>1 DEF Hit, Pinned
  <2>3. SignalHitsItsTarget'
    BY <1>a, <2>1, <2>2 DEF SignalHitsItsTarget
  <2>4. Pinned' /\ DeadBefore'
    BY <1>a, <2>1 DEF Pinned, DeadBefore, IsRoot, system
  <2>5. AllLocated' /\ RecordedChildIsRecoverable' /\ CleanEndLeavesNoRecord'
    BY <1>a, <2>1 DEF AllLocated, Located, RecordedChildIsRecoverable,
                      CleanEndLeavesNoRecord, system
  <2> QED
    BY <2>3, <2>4, <2>5 DEF Sound
<1>14. CASE Wait
  <2>1. /\ Alone /\ file' = file /\ alive' = alive /\ task.at = "wait"
        /\ task'.at \in {"next", "failed"}
        /\ IsRoot /\ task'.at = "next" => ~Matches(task.target)
    <3>1. CASE ~Matches(task.target) /\ task' = [task EXCEPT !.at = "next"]
      BY <1>14, <1>a, <3>1 DEF Wait, Alone, system, Locals
    <3>2. ASSUME NEW f \in BOOLEAN,
                 task' = [task EXCEPT !.at = Unproven, !.failures = @ \/ f]
          PROVE  /\ Alone /\ file' = file /\ alive' = alive /\ task.at = "wait"
                 /\ task'.at \in {"next", "failed"}
                 /\ IsRoot /\ task'.at = "next" => ~Matches(task.target)
      BY <1>14, <1>a, <3>2 DEF Wait, Unproven, Alone, system, Locals
    <3> QED
      BY <1>14, <3>1, <3>2 DEF Wait
  <2>2. IsRoot /\ ~Matches(task.target) => file.token \notin alive
    BY <2>1, <1>a DEF Matches, Identity, Placed, Reaping, AllLocated, Located, IsRoot
  <2>3. DeadBefore'
    BY <1>a, <2>1, <2>2 DEF DeadBefore
  <2> QED
    BY <2>1, <2>3, AloneSound DEF Pinned
<1>15. CASE NextTarget
  <2>1. /\ Alone /\ file' = file /\ alive' = alive /\ task.at = "next"
        /\ task'.at \in {"failed", "compare", "confirm"}
    BY <1>15, <1>a DEF NextTarget, Reaped, Alone, system, Locals
  <2>2. DeadBefore'
    BY <1>a, <2>1 DEF DeadBefore
  <2> QED
    BY <2>1, <2>2, AloneSound DEF Pinned
<1>16. CASE Compare
  <2>1. /\ Alone /\ file' = file /\ alive' = alive /\ task.at = "compare"
        /\ task'.at \in {"remove", "failed"}
    BY <1>16, <1>a DEF Compare, Goto, Alone, system, Locals, Placed, Reaping
  <2> QED
    BY <1>a, <2>1, AloneSound DEF Pinned, DeadBefore
<1>17. CASE ReadIdentity \/ Exists
  <2>1. /\ Alone /\ task.at \in {"identity", "exists"} /\ task'.child = task.child
        /\ task'.at \in {"exists", "publish", "abort"}
    BY <1>17, <1>a DEF ReadIdentity, Exists, Goto, Locals
  <2> QED
    BY <2>1, AloneSound DEF Pinned, DeadBefore
<1>18. CASE Cleanup
  <2>1. /\ Alone /\ file' = file /\ alive' = alive /\ task.at = "cleanup"
        /\ task'.child = task.child /\ task'.at = "unlink"
    BY <1>18, <1>a DEF Cleanup, Goto, Alone, system, Locals, Placed, DeadBefore
  <2> QED
    BY <1>a, <2>1, AloneSound DEF Pinned, DeadBefore
\* A record goes only when its process is dead.
<1>19. CASE Remove \/ Unlink
  <2>1. /\ file' = Nobody /\ UNCHANGED <<system, published, shot>>
        /\ file.token \notin alive /\ task'.at \in {"start", "done"}
    BY <1>19, <1>a DEF Remove, Unlink, Unlinked, Prepared, Goto, Locals, DeadBefore
  <2>2. AllLocated' /\ RecordedChildIsRecoverable'
    BY <1>a, <2>1 DEF AllLocated, Located, RecordedChildIsRecoverable, system, TypeOK
  <2> QED
    BY <1>a, <2>1, <2>2
       DEF Sound, Pinned, DeadBefore, SignalHitsItsTarget, CleanEndLeavesNoRecord
<1>20. CASE Publish
  <2>1. /\ UNCHANGED <<system, shot>> /\ task.at = "publish" /\ task'.child = task.child
        /\ \/ file' = file /\ published' = published /\ task'.at = "abort"
           \/ /\ file = Nobody /\ file' = task.child
              /\ published' = published \cup {task.child.token}
              /\ task'.at \in {"running", "abort"}
    BY <1>20, <1>a DEF Publish, Goto, Kept, Locals
  <2>2. Located(task.child.pid, task.child.token) /\ task.child.token \in Tokens
    BY <1>a, <2>1 DEF AllLocated, Placed
  <2>3. AllLocated'
    <3>1. UNCHANGED <<alive, table, started>>
      BY <2>1 DEF system
    <3>2. Located(file.pid, file.token)'
      BY <1>a, <2>1, <2>2, <3>1 DEF AllLocated, Located
    <3>3. published' \subseteq 1 .. started
      <4>1. started \in Nat /\ published \subseteq 1 .. started
        BY <1>a DEF AllLocated, TypeOK
      <4>2. task.child.token \in 1 .. started
        BY <2>2, <4>1 DEF Located, Tokens
      <4> QED
        BY <2>1, <4>1, <4>2
    <3> QED
      BY <1>a, <2>1, <2>2, <3>1, <3>2, <3>3 DEF AllLocated, Located
  <2>4. RecordedChildIsRecoverable'
    BY <1>a, <2>1 DEF RecordedChildIsRecoverable, system, TypeOK
  <2> QED
    BY <1>a, <2>1, <2>3, <2>4
       DEF Sound, Pinned, DeadBefore, SignalHitsItsTarget, CleanEndLeavesNoRecord
<1>21. CASE Abort \/ Finish
  <2>1. /\ UNCHANGED <<file, alive, started, published, shot>>
        /\ task'.child = task.child /\ task.child.token \notin alive
        /\ \/ task'.at = "failed"
           \/ task.at = "running" /\ task'.at = "cleanup"
    BY <1>21, <1>a DEF Abort, Finish, Goto, ChildFinished, Locals
  <2>2. task.at = "running" => file = task.child
    BY <1>a DEF DeadBefore
  <2>3. Located(file.pid, file.token)'
    BY <1>a, <1>p, <1>t, <2>1, FileLocated
  <2>4. AllLocated'
    BY <1>a, <1>p, <2>1, <2>2, <2>3 DEF AllLocated, Persist
  <2>5. RecordedChildIsRecoverable'
    BY <1>a, <2>1 DEF RecordedChildIsRecoverable
  <2> QED
    BY <1>a, <2>1, <2>2, <2>4, <2>5
       DEF Sound, Pinned, DeadBefore, SignalHitsItsTarget, CleanEndLeavesNoRecord
<1>22. CASE Rest
  BY <1>22, <1>1 DEF Rest
<1> QED
  BY <1>1, <1>2, <1>3, <1>4, <1>5, <1>6, <1>7, <1>8, <1>9, <1>10, <1>11, <1>12, <1>13,
     <1>14, <1>15, <1>16, <1>17, <1>18, <1>19, <1>20, <1>21, <1>22 DEF Next

LEMMA AlwaysSound == Spec => [](TypeOK /\ Placed /\ Sound)
<1>1. TypeOK /\ Placed /\ Sound /\ [Next]_vars => (TypeOK /\ Placed /\ Sound)'
  BY StepTyped, StepSound
<1> QED
  BY InitTyped, InitSound, <1>1, PTL DEF Spec

\* A recorded child that lives is always named by the record, whoever crashes.
THEOREM RecordedChildIsRecoverableHolds == Spec => []RecordedChildIsRecoverable
<1>1. Sound => RecordedChildIsRecoverable
  BY DEF Sound
<1> QED
  BY AlwaysSound, <1>1, PTL

\* A signal only ever hits the process whose identity was proven.
THEOREM SignalHitsItsTargetHolds == Spec => []SignalHitsItsTarget
<1>1. Sound => SignalHitsItsTarget
  BY DEF Sound
<1> QED
  BY AlwaysSound, <1>1, PTL

\* A child that ended under its manager leaves no record.
THEOREM CleanEndLeavesNoRecordHolds == Spec => []CleanEndLeavesNoRecord
<1>1. Sound => CleanEndLeavesNoRecord
  BY DEF Sound
<1> QED
  BY AlwaysSound, <1>1, PTL
=============================================================================
