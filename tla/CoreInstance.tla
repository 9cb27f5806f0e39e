---------------------------- MODULE CoreInstance ----------------------------
(***************************************************************************)
(* The legacy runner of a proxy core (core/instance.rs): run(), kill() and *)
(* drop of one CoreInstance, with the two threads run() leaves behind for  *)
(* each core it starts, the waiter and the checkpoint after 1.5 s.  run()  *)
(* and kill() borrow the instance: several tasks may be in them at once.   *)
(*                                                                         *)
(* Core k is the k-th started, and k is its pid: pids are not reused.      *)
(* Whatever the code logs and goes on from may fail, a future may be       *)
(* dropped where it awaits, and blocking work it had handed to the pool    *)
(* outlives it.  Of the events only what holds the lock is kept.           *)
(***************************************************************************)
EXTENDS Naturals

CONSTANTS
  Callers,    \* tasks that call run() and kill()
  MaxMishaps, \* bound of the model: how often something goes wrong
  MaxRuns     \* bound of the model: cores ever started

ASSUME RunsAssumption == MaxRuns \in Nat /\ MaxMishaps \in Nat

Cores == 1 .. MaxRuns

VARIABLES
  state,        \* CoreInstanceState
  instance,     \* the core the instance holds, or 0
  pid_file,     \* the pid in the file, or 0
  caller,       \* where each task is in run() or kill(), and its core
  dropped,      \* the instance is gone
  n,            \* cores started
  alive,        \* cores that live
  asked,        \* cores that were sent SIGTERM
  killed,       \* cores that were sent SIGKILL
  mishaps,      \* calls that failed, writes not flushed, futures dropped
  jobs,         \* blocking work of the pool that nobody waits for
  slipped,      \* history: cores whose record, signal or handle a mishap hit
  waiter,       \* the thread of each core that waits for its end
  checkpoint    \* the thread of each core that looks at it after 1.5 s

cores == <<n, alive>>
threads == <<waiter, checkpoint>>
trouble == <<mishaps, jobs, slipped>>
vars == <<state, instance, pid_file, caller, dropped, cores, asked, killed, trouble, threads>>

Places == {"idle", "sweep", "sweep_kill", "sweep_remove", "spawn", "write_pid", "install",
           "terminate", "poll", "force", "forced", "clear", "settle"}

TypeOK ==
  /\ state \in {"Running", "Stopped"}
  /\ instance \in 0 .. MaxRuns /\ pid_file \in 0 .. MaxRuns
  /\ caller \in [Callers -> [at : Places, core : 0 .. MaxRuns]] /\ dropped \in BOOLEAN
  /\ n \in 0 .. MaxRuns /\ alive \subseteq Cores
  /\ asked \subseteq Cores /\ killed \subseteq Cores /\ slipped \subseteq Cores
  /\ mishaps \in 0 .. MaxMishaps
  /\ jobs \subseteq [op : {"open", "write", "remove", "terminate"}, core : 0 .. MaxRuns]
  /\ waiter \in [Cores -> {"none", "waiting", "done"}]
  /\ checkpoint \in [Cores -> {"none", "sleeping", "passed", "locked", "done"}]

Init ==
  /\ state = "Stopped" /\ instance = 0 /\ pid_file = 0
  /\ caller = [c \in Callers |-> [at |-> "idle", core |-> 0]] /\ dropped = FALSE
  /\ n = 0 /\ alive = {} /\ asked = {} /\ killed = {}
  /\ mishaps = 0 /\ jobs = {} /\ slipped = {}
  /\ waiter = [k \in Cores |-> "none"] /\ checkpoint = [k \in Cores |-> "none"]

Goto(c, from, to) ==
  /\ caller[c].at = from /\ caller' = [caller EXCEPT ![c].at = to]
  /\ UNCHANGED dropped

\* What a step of run() or kill() leaves alone, mishaps apart.
InstanceKept == UNCHANGED <<state, instance, cores, threads>>
Untouched == InstanceKept /\ UNCHANGED <<pid_file, asked, killed>>

\* Something goes wrong, or not.
Mishap == mishaps < MaxMishaps /\ mishaps' = mishaps + 1
Fine == UNCHANGED mishaps

\* Equal jobs count as one.
Job(op, core) == [op |-> op, core |-> core]
Writing == {k \in Cores : Job("write", k) \in jobs}

(***************************************************************************)
(* run()                                                                   *)
(***************************************************************************)
\* A second run() is refused only once the checkpoint has set Running.
Run(c) ==
  /\ ~dropped
  /\ Goto(c, "idle", IF state = "Running" THEN "idle" ELSE "sweep")
  /\ Untouched /\ UNCHANGED trouble

\* A file that is absent, empty or unreadable is no error: nothing is swept.  A pid
\* on its way into the file is not there yet.
ReadPidFile(c) ==
  /\ caller[c].at = "sweep"
  /\ \E pid \in {pid_file, 0} :
       /\ IF pid = pid_file THEN Fine ELSE Mishap
       /\ caller' = [caller EXCEPT ![c] = [at |-> IF pid = 0 THEN "spawn" ELSE "sweep_kill",
                                            core |-> pid]]
       /\ slipped' = slipped \cup Writing \cup ({pid_file} \ {0, pid})
  /\ Untouched /\ UNCHANGED <<dropped, jobs>>

\* kill_pid asks the core the file names, when it still runs.
KilledByPidFile(c) == {caller[c].core} \cap alive

SweepKill(c) ==
  /\ Goto(c, "sweep_kill", "sweep_remove")
  /\ asked' = asked \cup KilledByPidFile(c)
  /\ InstanceKept /\ UNCHANGED <<pid_file, killed, trouble>>

\* The validator does not know the executable, which counts as success; or kill_tree
\* fails, perhaps half way, and run() goes on with the file in place.
SweepMisses(c) ==
  /\ Mishap
  /\ \/ Goto(c, "sweep_kill", "sweep_remove") /\ UNCHANGED asked
     \/ Goto(c, "sweep_kill", "spawn") /\ asked' \in {asked, asked \cup KilledByPidFile(c)}
  /\ slipped' = slipped \cup KilledByPidFile(c)
  /\ InstanceKept /\ UNCHANGED <<pid_file, killed, jobs>>

\* Removes whatever file is there, also for a pid still on its way into it.
Removes(told, others) ==
  /\ pid_file' = 0 /\ Fine
  /\ slipped' = slipped \cup Writing \cup ({pid_file} \ {0, told})
  /\ jobs' = {j \in others : j.op # "write"}

SweepRemove(c) ==
  /\ Goto(c, "sweep_remove", "spawn")
  /\ \/ Removes(caller[c].core, jobs)
     \/ Mishap /\ UNCHANGED <<pid_file, jobs, slipped>>
  /\ InstanceKept /\ UNCHANGED <<asked, killed>>

Spawn(c) ==
  /\ n < MaxRuns /\ caller[c].at = "spawn"
  /\ n' = n + 1 /\ alive' = alive \cup {n + 1}
  /\ waiter' = [waiter EXCEPT ![n + 1] = "waiting"]
  /\ checkpoint' = [checkpoint EXCEPT ![n + 1] = "sleeping"]
  /\ caller' = [caller EXCEPT ![c] = [at |-> "write_pid", core |-> n + 1]]
  /\ UNCHANGED <<dropped, state, instance, pid_file, asked, killed, trouble>>

SpawnFails(c) ==
  /\ Goto(c, "spawn", "idle")
  /\ Untouched /\ UNCHANGED trouble

WritesNothing(c) == pid_file                                      \* mutant
WritesNext(c) == n + 1                                            \* mutant
WrittenPid(c) == caller[c].core

\* The file is truncated, and the pid handed to the pool: nobody flushes.
WritePid(c) ==
  /\ Goto(c, "write_pid", "install")
  /\ \/ Fine /\ pid_file' = WrittenPid(c) /\ UNCHANGED jobs
     \/ Mishap /\ pid_file' = 0 /\ jobs' = jobs \cup {Job("write", WrittenPid(c))}
  /\ InstanceKept /\ UNCHANGED <<asked, killed, slipped>>

WritePidFails(c) ==
  /\ Mishap /\ Goto(c, "write_pid", "install")
  /\ slipped' = slipped \cup ({caller[c].core} \cap alive)
  /\ Untouched /\ UNCHANGED jobs

KeepsTheFirst(c) == IF instance = 0 THEN caller[c].core ELSE instance   \* mutant
Installed(c) == caller[c].core

Install(c) ==
  /\ Goto(c, "install", "idle")
  /\ instance' = Installed(c)
  /\ UNCHANGED <<state, pid_file, cores, asked, killed, trouble, threads>>

\* The caller drops the future of run() where it awaits: the file, kill_tree, or the
\* opening of the new pid file, after which the core is in no handle.
DropRun(c) ==
  /\ Mishap
  /\ LET core == caller[c].core IN
       \/ Goto(c, "sweep", "idle") /\ UNCHANGED <<asked, jobs, slipped>>
       \/ /\ Goto(c, "sweep_kill", "idle") /\ UNCHANGED <<jobs, slipped>>
          /\ asked' \in {asked, asked \cup KilledByPidFile(c)}
       \/ /\ Goto(c, "sweep_remove", "idle") /\ UNCHANGED <<asked, slipped>>
          /\ jobs' = jobs \cup {Job("remove", 0)}
       \/ /\ Goto(c, "write_pid", "idle") /\ UNCHANGED asked
          /\ jobs' = jobs \cup {Job("open", core)} /\ slipped' = slipped \cup ({core} \cap alive)
  /\ InstanceKept /\ UNCHANGED <<pid_file, killed>>

(***************************************************************************)
(* kill()                                                                  *)
(***************************************************************************)
Kill(c) ==
  /\ ~dropped /\ caller[c].at = "idle" /\ instance # 0
  /\ caller' = [caller EXCEPT ![c] = [at |-> "terminate", core |-> instance]]
  /\ Untouched /\ UNCHANGED <<dropped, trouble>>

\* ChildExt::gracefully_kill sends SIGTERM unless the core has exited.
GracefullyKilled(core) == {core} \cap alive

Terminate(c) ==
  /\ \/ /\ Goto(c, "terminate", "poll")
        /\ asked' = asked \cup GracefullyKilled(caller[c].core)
        /\ Fine
     \/ Mishap /\ Goto(c, "terminate", "force") /\ UNCHANGED asked
  /\ InstanceKept /\ UNCHANGED <<pid_file, killed, jobs, slipped>>

\* The future is dropped while the pool is about to send the signal.
DropKill(c) ==
  /\ Mishap /\ Goto(c, "terminate", "idle")
  /\ jobs' = jobs \cup {Job("terminate", caller[c].core)}
  /\ Untouched /\ UNCHANGED slipped

\* When the core obeys, kill() returns and leaves the state to the waiter.
Poll(c) ==
  /\ \/ Goto(c, "poll", IF caller[c].core \in alive THEN "force" ELSE "idle") /\ Fine
     \/ Goto(c, "poll", "idle") /\ Mishap                   \* try_wait fails
  /\ Untouched /\ UNCHANGED <<jobs, slipped>>

ForceKill(c) ==
  /\ \/ /\ Goto(c, "force", "forced") /\ Fine
        /\ killed' = killed \cup ({caller[c].core} \cap alive)
     \/ Goto(c, "force", "idle") /\ Mishap /\ UNCHANGED killed
  /\ InstanceKept /\ UNCHANGED <<pid_file, asked, jobs, slipped>>

\* Dead, or still there when the polling ends: an error, as a failing try_wait is.
Forced(c) ==
  /\ \/ Goto(c, "forced", IF caller[c].core \in alive THEN "idle" ELSE "clear") /\ Fine
     \/ Goto(c, "forced", "idle") /\ Mishap
  /\ Untouched /\ UNCHANGED <<jobs, slipped>>

Clear(c) ==
  /\ Goto(c, "clear", "settle")
  /\ instance' = 0
  /\ UNCHANGED <<state, pid_file, cores, asked, killed, trouble, threads>>

Settle(c) ==
  /\ Goto(c, "settle", "idle")
  /\ state' = "Stopped"
  /\ UNCHANGED <<instance, pid_file, cores, asked, killed, trouble, threads>>

\* CoreInstance::drop, when nobody borrows the instance.
Drop ==
  /\ ~dropped /\ \A c \in Callers : caller[c].at = "idle"
  /\ dropped' = TRUE
  /\ LET core == {instance} \cap alive IN
       \/ Fine /\ killed' = killed \cup core /\ UNCHANGED slipped
       \/ Mishap /\ slipped' = slipped \cup core /\ UNCHANGED killed
  /\ instance' = 0
  /\ UNCHANGED <<state, pid_file, caller, cores, asked, jobs, threads>>

(***************************************************************************)
(* The pool.  A late truncation or write hits whatever record is there;    *)
(* two pids that meet in one file leave one of them, or neither.           *)
(***************************************************************************)
Overwrites(pid) ==
  /\ pid_file' = pid /\ Fine
  /\ slipped' = slipped \cup ({pid_file} \ {0, pid})

Lands(j) ==
  /\ j \in jobs
  /\ \/ j.op = "terminate" /\ asked' = asked \cup GracefullyKilled(j.core)
        /\ jobs' = jobs \ {j} /\ Fine /\ UNCHANGED <<pid_file, slipped>>
     \/ j.op = "remove" /\ Removes(0, jobs \ {j}) /\ UNCHANGED asked
     \/ j.op = "open" /\ Overwrites(0) /\ jobs' = jobs \ {j} /\ UNCHANGED asked
     \/ j.op = "write" /\ Overwrites(j.core) /\ jobs' = jobs \ {j} /\ UNCHANGED asked
  /\ InstanceKept /\ UNCHANGED <<killed, caller, dropped>>

\* The write fails, unseen by anybody, or is mixed with the pid that is there.
Spoils(j) ==
  /\ Fine /\ j \in jobs /\ j.op = "write" /\ jobs' = jobs \ {j}
  /\ pid_file' \in {pid_file, 0}
  /\ slipped' = slipped \cup ({j.core} \cap alive) \cup ({pid_file} \ {0, pid_file'})
  /\ InstanceKept /\ UNCHANGED <<asked, killed, caller, dropped>>

(***************************************************************************)
(* The threads of core k.  The checkpoint holds the lock for reading, the  *)
(* waiter for writing.  The readers of the pipes hold it for reading until *)
(* the core is gone: they only make the waiter late, as it may be anyway.  *)
(***************************************************************************)
WaiterStep(k) ==
  /\ waiter[k] = "waiting" /\ waiter' = [waiter EXCEPT ![k] = "done"]
  /\ UNCHANGED <<instance, pid_file, caller, dropped, cores, asked, killed, jobs, slipped,
                 checkpoint>>

Waiter(k) ==
  /\ WaiterStep(k) /\ k \notin alive /\ checkpoint[k] # "locked"
  /\ state' = "Stopped" /\ Fine

\* wait() fails, and the state is left as it is.
WaitFails(k) == WaiterStep(k) /\ Mishap /\ UNCHANGED state

CheckpointStep(k, from, to) ==
  /\ checkpoint[k] = from /\ checkpoint' = [checkpoint EXCEPT ![k] = to]
  /\ UNCHANGED <<instance, pid_file, caller, dropped, cores, asked, killed, jobs, slipped,
                 waiter>>

\* try_wait after 1.5 s, and Running some time after that.
Look(k) ==
  /\ \/ CheckpointStep(k, "sleeping", IF k \in alive THEN "passed" ELSE "done") /\ Fine
     \/ CheckpointStep(k, "sleeping", "done") /\ Mishap
  /\ UNCHANGED state

Pass(k) == CheckpointStep(k, "passed", "locked") /\ state' = "Running" /\ Fine

\* DelayCheckpointPass is taken by the receiver, or the receiver is gone.
Unlock(k) == CheckpointStep(k, "locked", "done") /\ Fine /\ UNCHANGED state

(***************************************************************************)
(* The cores.                                                              *)
(***************************************************************************)
Exit(k) ==
  /\ k \in alive /\ alive' = alive \ {k}
  /\ UNCHANGED <<state, instance, pid_file, caller, dropped, n, asked, killed, trouble,
                 threads>>

Dropped == dropped /\ UNCHANGED vars

Call(c) ==
  \/ ReadPidFile(c) \/ SweepKill(c) \/ SweepMisses(c) \/ SweepRemove(c)
  \/ Spawn(c) \/ SpawnFails(c) \/ WritePid(c) \/ WritePidFails(c) \/ Install(c)
  \/ Terminate(c) \/ Poll(c) \/ ForceKill(c) \/ Forced(c) \/ Clear(c) \/ Settle(c)

Thread(k) == Waiter(k) \/ Look(k) \/ Pass(k) \/ Unlock(k)

Next ==
  \/ Drop \/ Dropped
  \/ \E c \in Callers : Run(c) \/ Kill(c) \/ Call(c) \/ DropRun(c) \/ DropKill(c)
  \/ \E j \in jobs : Lands(j) \/ Spoils(j)
  \/ \E k \in Cores : Thread(k) \/ WaitFails(k) \/ Exit(k)

\* Threads and calls go on, the receiver takes its events or is dropped, and a
\* core that is asked ends and closes its pipes.
Fairness ==
  /\ \A c \in Callers : WF_vars(Call(c))
  /\ \A k \in Cores :
       /\ WF_vars(Waiter(k)) /\ WF_vars(Look(k) \/ Pass(k) \/ Unlock(k))
       /\ WF_vars(k \in asked \cup killed /\ Exit(k))

Spec == Init /\ [][Next]_vars
FairSpec == Spec /\ Fairness
=============================================================================
