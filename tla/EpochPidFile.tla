---------------------------- MODULE EpochPidFile ----------------------------
(***************************************************************************)
(* One epoch pid record across the life of several managers                *)
(* (process/pid_file.rs, and the part of process/engine.rs that spawns).   *)
(* Each task is one Command::spawn with an epoch_pid_file, followed by the *)
(* life of its child, or one reap_epoch_pid_file.  The record is owned by  *)
(* one manager, so tasks follow each other; but each can crash anywhere,   *)
(* and processes start, fork, exit and reuse pids at any time.             *)
(*                                                                         *)
(* A process is known by its start token, which is never used twice; its   *)
(* pid is.  What a record says of its epoch, executable and runtime config *)
(* is not kept: a record that does not fit, or cannot be read, is refused. *)
(***************************************************************************)
EXTENDS Naturals

CONSTANTS
  MaxPids,     \* bound of the model: pid numbers
  MaxProcs,    \* bound of the model: processes ever started
  MaxTasks     \* bound of the model: tasks ever begun

ASSUME RecordAssumption == MaxPids \in Nat /\ MaxProcs \in Nat /\ MaxTasks \in Nat

Pids == 1 .. MaxPids
Tokens == 1 .. MaxProcs
Nobody == [pid |-> 0, token |-> 0]
Records == [pid : Pids, token : Tokens]

VARIABLES
  task,       \* the running task: where it is, and its locals
  tasks,      \* tasks begun so far
  file,       \* the record at the path of the epoch, or Nobody
  \* the operating system
  table,      \* the process each pid names, 0 if free
  alive,      \* processes that have not exited; others in `table` are zombies
  parent,     \* the parent of each process, 0 for anybody else
  started,    \* processes ever started
  \* history
  tree,       \* children of the epoch and what they forked
  published,  \* children whose record was published
  shot        \* signals sent: the process meant and the process hit

system == <<table, alive, parent, started, tree>>
vars == <<task, tasks, file, system, published, shot>>

Places ==
  {"idle", "read", "identify", "list", "capture", "list_again", "capture_again",
   "confirm", "open", "check", "signal", "wait", "next", "compare", "remove",
   "start", "identity", "exists", "publish", "abort", "running", "cleanup", "unlink",
   "done", "failed"}

Locals ==
  [at : Places, kind : {"spawn", "reap"},
   rec : Records \cup {Nobody},         \* the record it read
   snapshot : SUBSET Pids,              \* descendant_pids
   captured : SUBSET Records,           \* descendants still to kill
   target : Records \cup {Nobody},      \* whom it is killing
   pidfd : 0 .. MaxProcs,               \* the process the pidfd holds
   failures : BOOLEAN,
   child : Records \cup {Nobody},       \* its child
   record : Records \cup {Nobody}]      \* PidFileGuard's record

TypeOK ==
  /\ task \in Locals
  /\ tasks \in 0 .. MaxTasks /\ file \in Records \cup {Nobody}
  /\ table \in [Pids -> 0 .. MaxProcs] /\ alive \subseteq Tokens
  /\ parent \in [Tokens -> 0 .. MaxProcs] /\ started \in 0 .. MaxProcs
  /\ tree \subseteq Tokens /\ published \subseteq Tokens
  /\ shot \subseteq Tokens \X Tokens

Fresh(at, kind) ==
  [at |-> at, kind |-> kind, rec |-> Nobody, snapshot |-> {}, captured |-> {},
   target |-> Nobody, pidfd |-> 0, failures |-> FALSE, child |-> Nobody,
   record |-> Nobody]

Init ==
  /\ task = Fresh("idle", "spawn") /\ tasks = 0 /\ file = Nobody
  /\ table = [p \in Pids |-> 0] /\ alive = {} /\ parent = [i \in Tokens |-> 0]
  /\ started = 0 /\ tree = {} /\ published = {} /\ shot = {}

(***************************************************************************)
(* The operating system.                                                   *)
(***************************************************************************)
\* process_identity: a zombie has no executable and so no identity.
Identity(pid) == IF table[pid] \in alive THEN table[pid] ELSE 0
Matches(record) == Identity(record.pid) = record.token

Below(token) == {p \in Pids : token # 0 /\ table[p] # 0 /\ parent[table[p]] = token}

Born(pid, token, of) ==
  /\ table[pid] = 0 /\ started < MaxProcs
  /\ token = started + 1 /\ started' = token
  /\ table' = [table EXCEPT ![pid] = token]
  /\ alive' = alive \cup {token}
  /\ parent' = [parent EXCEPT ![token] = of]

\* A manager's child stays a zombie until the manager waits for it.
Free(token) == [p \in Pids |-> IF table[p] = token THEN 0 ELSE table[p]]

Exit(token) ==
  /\ token \in alive
  /\ alive' = alive \ {token}
  /\ table' = IF task.child.token = token THEN table ELSE Free(token)
  /\ parent' = [i \in Tokens |-> IF parent[i] = token THEN 0 ELSE parent[i]]
  /\ UNCHANGED <<task, tasks, file, started, tree, published, shot>>

Fork(pid) ==
  /\ \E i \in tree \cap alive : parent[i] = 0 /\ Born(pid, started + 1, i)
  /\ tree' = tree \cup {started'}
  /\ UNCHANGED <<task, tasks, file, published, shot>>

Stranger(pid) ==
  /\ Born(pid, started + 1, 0)
  /\ UNCHANGED <<task, tasks, file, tree, published, shot>>

(***************************************************************************)
(* A task takes one step from where it is.                                 *)
(***************************************************************************)
Goto(from, to) == task.at = from /\ task' = [task EXCEPT !.at = to]
Alone == UNCHANGED <<tasks, file, system, published, shot>>

Begin ==
  /\ task.at \in {"idle", "done", "failed"} /\ tasks < MaxTasks
  /\ \E k \in {"spawn", "reap"} : task' = Fresh("read", k)
  /\ tasks' = tasks + 1
  /\ UNCHANGED <<file, system, published, shot>>

Prepared == IF task.kind = "spawn" THEN "start" ELSE "done"

Read ==
  /\ task.at = "read"
  /\ task' = IF file = Nobody THEN [task EXCEPT !.at = Prepared]
             ELSE [task EXCEPT !.at = "identify", !.rec = file]
  /\ Alone

\* The names, the targets and the record are validated before anything is done
\* to a process: a foreign, malformed or unsafe record ends the task.
Refused == Goto("read", "failed") /\ Alone

\* reap_record: the identity may be unreadable, and is then unproven.
Identify ==
  /\ \/ Goto("identify", "failed")
     \/ Goto("identify", "compare") /\ Identity(task.rec.pid) = 0
     \/ Goto("identify", "list") /\ Matches(task.rec)
  /\ Alone

\* capture_descendants: pids are listed, then looked at one by one.
List(from, to) ==
  /\ task.at = from
  /\ task' = [task EXCEPT !.at = to, !.snapshot = Below(table[task.rec.pid])]
  /\ Alone

Seen == {[pid |-> p, token |-> Identity(p)] : p \in {q \in task.snapshot : Identity(q) # 0}}

Capture ==
  /\ task.at = "capture"
  /\ task' = [task EXCEPT !.at = "list_again", !.captured = Seen]
  /\ Alone

\* merge_descendant_captures: the second look wins where it saw the pid.
CaptureAgain ==
  /\ task.at = "capture_again"
  /\ task' = [task EXCEPT !.at = "confirm", !.target = task.rec,
                          !.captured = {r \in @ : r.pid \notin task.snapshot} \cup Seen]
  /\ Alone

IsRoot == task.target = task.rec
Ignored == "next"                                                 \* mutant
TriesAgain == IF IsRoot THEN "confirm" ELSE "next"                \* mutant
Unproven == IF IsRoot THEN "failed" ELSE "next"

\* reap_record_with_kill: is the target still the process that was recorded?
\* A descendant that is not, or cannot be inspected, counts as dead.
Confirm ==
  /\ \/ Goto("confirm", "open") /\ Matches(task.target)
     \/ Goto("confirm", "next") /\ Identity(task.target.pid) = 0
     \/ Goto("confirm", Unproven)   \* another, or unreadable
  /\ Alone

\* kill_recorded_process: the pidfd pins the process the pid names now ...
Open ==
  /\ task.at = "open"
  /\ LET i == table[task.target.pid]
     IN task' = [task EXCEPT !.pidfd = i, !.at = IF i = 0 THEN "wait" ELSE "check"]
  /\ Alone

\* ... and only a process that still matches is signalled, through the pidfd.
Check ==
  /\ task.at = "check"
  /\ Goto("check", IF Matches(task.target) THEN "signal" ELSE "wait")
  /\ Alone

HitByPid == Identity(task.target.pid)                             \* mutant
Hit == IF task.pidfd \in alive THEN task.pidfd ELSE 0

Signal ==
  /\ Goto("signal", "wait")
  /\ shot' = IF Hit = 0 THEN shot ELSE shot \cup {<<task.target.token, Hit>>}
  /\ UNCHANGED <<tasks, file, system, published>>

\* The target is gone, is still there after KILL_WAIT_ATTEMPTS, or cannot be
\* inspected: then the root counts as alive and a descendant as dead.
Wait ==
  /\ task.at = "wait"
  /\ \/ ~Matches(task.target) /\ task' = [task EXCEPT !.at = "next"]
     \/ \E f \in {FALSE, Matches(task.target) /\ ~IsRoot} :
          task' = [task EXCEPT !.at = Unproven, !.failures = @ \/ f]
  /\ Alone

Reaped == IF task.failures THEN "failed" ELSE "compare"

NextTarget ==
  /\ task.at = "next"
  /\ \/ task.captured = {} /\ task' = [task EXCEPT !.at = Reaped]
     \/ \E r \in task.captured :
          task' = [task EXCEPT !.at = "confirm", !.target = r, !.captured = @ \ {r}]
  /\ Alone

\* remove_record_if_matches; it may fail to read the file or to remove it.
Compare ==
  /\ \/ Goto("compare", IF file = task.rec THEN "remove" ELSE Prepared)
     \/ Goto("compare", "failed")
  /\ Alone

Remove ==
  /\ Goto("remove", Prepared)
  /\ file' = Nobody
  /\ UNCHANGED <<tasks, system, published, shot>>

StartChild(pid) ==
  /\ task.at = "start"
  /\ Born(pid, started + 1, 0)
  /\ tree' = tree \cup {started'}
  /\ task' = [task EXCEPT !.at = "identity", !.child = [pid |-> pid, token |-> started']]
  /\ UNCHANGED <<tasks, file, published, shot>>

StartFails == Goto("start", "failed") /\ Alone

ReadIdentity ==
  /\ task.at = "identity"
  /\ \/ Goto("identity", "exists") /\ Matches(task.child)
     \/ Goto("identity", "abort")     \* gone, unreadable or another executable
  /\ Alone

Exists == Goto("exists", IF file = Nobody THEN "publish" ELSE "abort") /\ Alone

Forgets == Nobody                                                 \* mutant
Kept == task.child

\* atomic_move_new: the hard link fails if the path exists; when the staging
\* name cannot be removed after it, an error is returned for a published record.
Publish ==
  /\ task.at = "publish"
  /\ \/ /\ file = Nobody
        /\ file' = task.child /\ published' = published \cup {task.child.token}
        /\ task' \in {[task EXCEPT !.at = "running", !.record = Kept],
                      [task EXCEPT !.at = "abort"]}
     \/ Goto("publish", "abort") /\ UNCHANGED <<file, published>>
  /\ UNCHANGED <<tasks, system, shot>>

ChildFinished == task.child.token \notin alive

\* spawn() kills the child it cannot record and waits for it.
Abort ==
  /\ Goto("abort", "failed") /\ ChildFinished
  /\ table' = Free(task.child.token)
  /\ UNCHANGED <<tasks, file, alive, parent, started, tree, published, shot>>

\* The pump has seen the exit; PidFileGuard::cleanup follows.
Finish ==
  /\ Goto("running", "cleanup") /\ ChildFinished
  /\ table' = Free(task.child.token)
  /\ UNCHANGED <<tasks, file, alive, parent, started, tree, published, shot>>

Cleanup == Goto("cleanup", IF file = task.record THEN "unlink" ELSE "done") /\ Alone

Truncated == [file EXCEPT !.pid = 0]                              \* mutant
Unlinked == Nobody

Unlink ==
  /\ Goto("unlink", "done")
  /\ file' = Unlinked
  /\ UNCHANGED <<tasks, system, published, shot>>

\* The manager is killed; its child lives on, or is collected by init.
Crash ==
  /\ task.at \notin {"idle", "done", "failed"}
  /\ task' = Fresh("idle", "spawn")
  /\ table' = IF ChildFinished THEN Free(task.child.token) ELSE table
  /\ UNCHANGED <<tasks, file, alive, parent, started, tree, published, shot>>

Rest == task.at \in {"idle", "done", "failed"} /\ UNCHANGED vars

Next ==
  \/ \E i \in Tokens : Exit(i)
  \/ \E p \in Pids : Fork(p) \/ Stranger(p) \/ StartChild(p)
  \/ Begin \/ Read \/ Refused \/ Identify \/ List("list", "capture") \/ Capture
  \/ List("list_again", "capture_again") \/ CaptureAgain
  \/ Confirm \/ Open \/ Check \/ Signal \/ Wait \/ NextTarget
  \/ Compare \/ Remove \/ StartFails \/ ReadIdentity \/ Exists \/ Publish \/ Abort
  \/ Finish \/ Cleanup \/ Unlink \/ Crash \/ Rest

Spec == Init /\ [][Next]_vars

\* The manager's own steps from the reading of the record to its removal.
ReapStep ==
  \/ Read \/ Identify \/ List("list", "capture") \/ Capture
  \/ List("list_again", "capture_again") \/ CaptureAgain
  \/ Confirm \/ Open \/ Check \/ Signal \/ Wait \/ NextTarget \/ Compare \/ Remove

\* The future that reaps is polled: none of its awaits waits for another task.
FairSpec == Spec /\ WF_vars(ReapStep)
=============================================================================
