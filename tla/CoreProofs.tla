----------------------------- MODULE CoreProofs -----------------------------
(***************************************************************************)
(* Proofs about the legacy runner: its types for any number of tasks, and  *)
(* that no core survives the drop unnoticed when one task at a time uses   *)
(* the instance, but those a mishap hit, however many cores are started    *)
(* and however often something goes wrong.                                 *)
(***************************************************************************)
EXTENDS MCCoreInstance, TLAPS

USE RunsAssumption

(***************************************************************************)
(* Type correctness.                                                       *)
(***************************************************************************)
Spots == [at : Places, core : 0 .. MaxRuns]
Jobs == [op : {"open", "write", "remove", "terminate"}, core : 0 .. MaxRuns]

LEMMA InitTyped == Init => TypeOK
<1> SUFFICES ASSUME Init PROVE TypeOK
  OBVIOUS
<1>1. 0 \in 0 .. MaxRuns /\ 0 \in 0 .. MaxMishaps /\ "idle" \in Places
  BY DEF Places
<1>2. /\ waiter \in [Cores -> {"none", "waiting", "done"}]
      /\ checkpoint \in [Cores -> {"none", "sleeping", "passed", "locked", "done"}]
      /\ caller \in [Callers -> [at : Places, core : 0 .. MaxRuns]]
  BY <1>1 DEF Init
<1> QED
  BY <1>1, <1>2 DEF Init, TypeOK

\* The parts of the type that the steps of run() and kill() have to do with.
FilesTyped ==
  /\ pid_file \in 0 .. MaxRuns /\ mishaps \in 0 .. MaxMishaps
  /\ asked \subseteq Cores /\ killed \subseteq Cores /\ slipped \subseteq Cores
  /\ jobs \subseteq Jobs

CallerTyped == caller \in [Callers -> Spots] /\ dropped \in BOOLEAN

LEMMA KeptTyped ==
  ASSUME TypeOK, InstanceKept, FilesTyped', CallerTyped' PROVE TypeOK'
BY DEF TypeOK, InstanceKept, cores, threads, FilesTyped, CallerTyped, Spots, Jobs

LEMMA GotoTyped ==
  ASSUME TypeOK, NEW c \in Callers, NEW from, NEW to \in Places, Goto(c, from, to)
  PROVE  CallerTyped'
BY DEF TypeOK, Goto, CallerTyped, Spots

LEMMA SpotTyped == ASSUME TypeOK, NEW c \in Callers PROVE caller[c] \in Spots
BY DEF TypeOK, Spots

\* What the steps leave of the files, the signals and the pool.
LEMMA PiecesTyped ==
  ASSUME TypeOK
  PROVE  /\ (Mishap \/ Fine) => mishaps' \in 0 .. MaxMishaps
         /\ Writing \subseteq Cores /\ {pid_file} \ {0} \subseteq Cores
         /\ jobs \subseteq Jobs /\ FilesTyped
<1>1. (Mishap \/ Fine) => mishaps' \in 0 .. MaxMishaps
  BY DEF Mishap, Fine, TypeOK
<1>2. Writing \subseteq Cores /\ {pid_file} \ {0} \subseteq Cores
  BY DEF Writing, TypeOK, Cores
<1> QED
  BY <1>1, <1>2 DEF TypeOK, FilesTyped, Jobs

LEMMA RunTyped ==
  ASSUME TypeOK, NEW c \in Callers,
         \/ Run(c) \/ ReadPidFile(c) \/ SweepKill(c) \/ SweepMisses(c) \/ SweepRemove(c)
         \/ SpawnFails(c) \/ WritePid(c) \/ WritePidFails(c) \/ DropRun(c)
  PROVE  TypeOK'
<1>p. {"idle", "sweep", "sweep_kill", "sweep_remove", "spawn", "write_pid", "install",
       "terminate", "poll", "force", "forced", "clear", "settle"} = Places
  BY DEF Places
<1>s. caller[c] \in Spots /\ caller[c].core \in 0 .. MaxRuns
  BY SpotTyped DEF Spots
<1>g. ASSUME NEW from, NEW to \in Places, Goto(c, from, to) PROVE CallerTyped'
  BY <1>g, GotoTyped
<1>k. InstanceKept
  BY DEF Run, ReadPidFile, SweepKill, SweepMisses, SweepRemove, SpawnFails, WritePid,
     WritePidFails, DropRun, Untouched
<1>j. ASSUME NEW op \in {"open", "write", "remove", "terminate"}, NEW core \in 0 .. MaxRuns
      PROVE  Job(op, core) \in Jobs
  BY <1>j DEF Job, Jobs
<1>a. alive \subseteq Cores /\ asked \subseteq Cores /\ KilledByPidFile(c) \subseteq Cores
  BY DEF TypeOK, KilledByPidFile
<1>1. CASE Run(c) \/ SpawnFails(c)
  BY <1>1, <1>g, <1>k, <1>p, KeptTyped, PiecesTyped
     DEF Run, SpawnFails, Untouched, FilesTyped, trouble
<1>2. CASE ReadPidFile(c)
  <2>1. PICK pid \in {pid_file, 0} :
          /\ IF pid = pid_file THEN Fine ELSE Mishap
          /\ caller' = [caller EXCEPT ![c] = [at |-> IF pid = 0 THEN "spawn" ELSE "sweep_kill",
                                              core |-> pid]]
          /\ slipped' = slipped \cup Writing \cup ({pid_file} \ {0, pid})
    BY <1>2 DEF ReadPidFile
  <2>2. [at |-> IF pid = 0 THEN "spawn" ELSE "sweep_kill", core |-> pid] \in Spots
    BY <1>p DEF TypeOK, Spots
  <2>3. CallerTyped'
    BY <1>2, <2>1, <2>2 DEF ReadPidFile, CallerTyped, TypeOK, Spots
  <2>4. FilesTyped'
    BY <1>2, <2>1, PiecesTyped DEF ReadPidFile, Untouched, FilesTyped
  <2> QED
    BY <2>3, <2>4, <1>k, KeptTyped
<1>3. CASE SweepKill(c)
  <2>1. CallerTyped'
    BY <1>3, <1>g, <1>p DEF SweepKill
  <2>2. FilesTyped'
    BY <1>3, <1>a, PiecesTyped DEF SweepKill, FilesTyped, trouble
  <2> QED
    BY <2>1, <2>2, <1>k, KeptTyped
<1>4. CASE SweepMisses(c)
  <2>1. CallerTyped'
    BY <1>4, <1>g, <1>p DEF SweepMisses
  <2>2. FilesTyped'
    BY <1>4, <1>a, PiecesTyped DEF SweepMisses, FilesTyped
  <2> QED
    BY <2>1, <2>2, <1>k, KeptTyped
<1>5. CASE SweepRemove(c)
  <2>1. CallerTyped'
    BY <1>5, <1>g, <1>p DEF SweepRemove
  <2>2. FilesTyped'
    BY <1>5, PiecesTyped DEF SweepRemove, Removes, FilesTyped
  <2> QED
    BY <2>1, <2>2, <1>k, KeptTyped
<1>6. CASE WritePid(c)
  <2>1. CallerTyped'
    BY <1>6, <1>g, <1>p DEF WritePid
  <2>2. Job("write", WrittenPid(c)) \in Jobs /\ WrittenPid(c) \in 0 .. MaxRuns
    BY <1>s, <1>j DEF WrittenPid
  <2>3. FilesTyped'
    BY <1>6, <2>2, PiecesTyped DEF WritePid, FilesTyped
  <2> QED
    BY <2>1, <2>3, <1>k, KeptTyped
<1>7. CASE WritePidFails(c)
  <2>1. CallerTyped'
    BY <1>7, <1>g, <1>p DEF WritePidFails
  <2>2. FilesTyped'
    BY <1>7, <1>a, PiecesTyped DEF WritePidFails, Untouched, FilesTyped
  <2> QED
    BY <2>1, <2>2, <1>k, KeptTyped
<1>8. CASE DropRun(c)
  <2>1. \E from, to \in Places : Goto(c, from, to)
    BY <1>8, <1>p DEF DropRun
  <2>2. CallerTyped'
    BY <2>1, <1>g
  <2>3. Job("remove", 0) \in Jobs /\ Job("open", caller[c].core) \in Jobs
    BY <1>s, <1>j
  <2>4. FilesTyped'
    BY <1>8, <1>a, <2>3, PiecesTyped DEF DropRun, FilesTyped
  <2> QED
    BY <2>2, <2>4, <1>k, KeptTyped
<1> QED
  BY <1>1, <1>2, <1>3, <1>4, <1>5, <1>6, <1>7, <1>8

LEMMA InstallTyped ==
  ASSUME TypeOK, NEW c \in Callers, Install(c) \/ Clear(c) \/ Settle(c) \/ Spawn(c) \/ Kill(c)
  PROVE  TypeOK'
<1>p. {"idle", "write_pid", "install", "terminate", "clear", "settle"} \subseteq Places
  BY DEF Places
<1>s. caller[c] \in Spots /\ caller[c].core \in 0 .. MaxRuns
  BY SpotTyped DEF Spots
<1>1. CASE Install(c) \/ Clear(c) \/ Settle(c)
  <2>1. \E from, to \in Places : Goto(c, from, to)
    BY <1>1, <1>p DEF Install, Clear, Settle
  <2>2. CallerTyped'
    BY <2>1, GotoTyped
  <2>3. instance' \in 0 .. MaxRuns /\ state' \in {"Running", "Stopped"}
    BY <1>1, <1>s DEF Install, Installed, Clear, Settle, TypeOK
  <2> QED
    BY <1>1, <2>2, <2>3 DEF Install, Clear, Settle, TypeOK, CallerTyped, Spots, cores, threads, trouble
<1>2. CASE Spawn(c)
  <2>1. n + 1 \in Cores /\ n + 1 \in 0 .. MaxRuns
    BY <1>2 DEF Spawn, TypeOK, Cores
  <2>2. [at |-> "write_pid", core |-> n + 1] \in Spots
    BY <2>1, <1>p DEF Spots
  <2>3. CallerTyped'
    BY <1>2, <2>2 DEF Spawn, CallerTyped, TypeOK, Spots
  <2>4. /\ waiter' \in [Cores -> {"none", "waiting", "done"}]
        /\ checkpoint' \in [Cores -> {"none", "sleeping", "passed", "locked", "done"}]
    BY <1>2, <2>1 DEF Spawn, TypeOK
  <2>5. alive' \subseteq Cores
    BY <1>2, <2>1 DEF Spawn, TypeOK
  <2> QED
    BY <1>2, <2>1, <2>3, <2>4, <2>5 DEF Spawn, TypeOK, CallerTyped, Spots, trouble
<1>3. CASE Kill(c)
  <2>1. [at |-> "terminate", core |-> instance] \in Spots
    BY <1>p DEF Spots, TypeOK
  <2>2. CallerTyped'
    BY <1>3, <2>1 DEF Kill, CallerTyped, TypeOK, Spots
  <2>3. FilesTyped'
    BY <1>3, PiecesTyped DEF Kill, Untouched, FilesTyped, trouble
  <2> QED
    BY <1>3, <2>2, <2>3, KeptTyped DEF Kill, Untouched
<1> QED
  BY <1>1, <1>2, <1>3

LEMMA KillTyped ==
  ASSUME TypeOK, NEW c \in Callers,
         Terminate(c) \/ DropKill(c) \/ Poll(c) \/ ForceKill(c) \/ Forced(c)
  PROVE  TypeOK'
<1>p. {"idle", "terminate", "poll", "force", "forced", "clear"} \subseteq Places
  BY DEF Places
<1>s. caller[c] \in Spots /\ caller[c].core \in 0 .. MaxRuns
  BY SpotTyped DEF Spots
<1>1. \E from, to \in Places : Goto(c, from, to)
  BY <1>p DEF Terminate, DropKill, Poll, ForceKill, Forced
<1>2. CallerTyped'
  BY <1>1, GotoTyped
<1>3. alive \subseteq Cores
  BY DEF TypeOK
<1>4. Job("terminate", caller[c].core) \in Jobs
  BY <1>s DEF Job, Jobs
<1>5. FilesTyped'
  <2>1. CASE Terminate(c)
    BY <2>1, <1>3, PiecesTyped DEF Terminate, GracefullyKilled, FilesTyped
  <2>2. CASE DropKill(c)
    BY <2>2, <1>4, PiecesTyped DEF DropKill, Untouched, FilesTyped
  <2>3. CASE Poll(c) \/ Forced(c)
    BY <2>3, PiecesTyped DEF Poll, Forced, Untouched, FilesTyped
  <2>4. CASE ForceKill(c)
    BY <2>4, <1>3, PiecesTyped DEF ForceKill, FilesTyped
  <2> QED
    BY <2>1, <2>2, <2>3, <2>4
<1> QED
  BY <1>2, <1>5, KeptTyped DEF Terminate, DropKill, Poll, ForceKill, Forced, Untouched

LEMMA PoolTyped ==
  ASSUME TypeOK, NEW j \in jobs, Lands(j) \/ Spoils(j) PROVE TypeOK'
<1>1. j \in Jobs /\ j.core \in 0 .. MaxRuns /\ alive \subseteq Cores
  BY PiecesTyped DEF TypeOK, Jobs
<1>2. CallerTyped'
  BY DEF Lands, Spoils, TypeOK, CallerTyped, Spots
<1>3. FilesTyped'
  <2>1. CASE Lands(j)
    BY <2>1, <1>1, PiecesTyped
       DEF Lands, Removes, Overwrites, GracefullyKilled, Fine, FilesTyped
  <2>2. CASE Spoils(j)
    BY <2>2, <1>1, PiecesTyped DEF Spoils, Fine, FilesTyped
  <2> QED
    BY <2>1, <2>2
<1> QED
  BY <1>2, <1>3, KeptTyped DEF Lands, Spoils

LEMMA ThreadTyped ==
  ASSUME TypeOK, NEW k \in Cores, Thread(k) \/ WaitFails(k) \/ Exit(k) PROVE TypeOK'
<1>1. CASE Thread(k) \/ WaitFails(k)
  <2>1. mishaps' \in 0 .. MaxMishaps
    BY <1>1, PiecesTyped DEF Thread, Waiter, WaitFails, Look, Pass, Unlock
  <2>2. /\ state' \in {"Running", "Stopped"}
        /\ waiter' \in [Cores -> {"none", "waiting", "done"}]
        /\ checkpoint' \in [Cores -> {"none", "sleeping", "passed", "locked", "done"}]
    BY <1>1 DEF Thread, Waiter, WaitFails, WaiterStep, Look, Pass, Unlock, CheckpointStep, TypeOK
  <2> QED
    BY <1>1, <2>1, <2>2
       DEF Thread, Waiter, WaitFails, WaiterStep, Look, Pass, Unlock, CheckpointStep, TypeOK, cores
<1>2. CASE Exit(k)
  BY <1>2 DEF Exit, TypeOK, threads, trouble
<1> QED
  BY <1>1, <1>2

LEMMA StepTyped == ASSUME TypeOK, [Next]_vars PROVE TypeOK'
<1>1. ASSUME NEW c \in Callers, Run(c) \/ Kill(c) \/ Call(c) \/ DropRun(c) \/ DropKill(c)
      PROVE  TypeOK'
  BY <1>1, RunTyped, InstallTyped, KillTyped DEF Call
<1>2. CASE Drop
  <2>1. mishaps' \in 0 .. MaxMishaps
    BY <1>2, PiecesTyped DEF Drop
  <2> QED
    BY <1>2, <2>1 DEF Drop, TypeOK, cores, threads
<1>3. CASE UNCHANGED vars
  BY <1>3 DEF vars, cores, threads, trouble, TypeOK
<1> QED
  BY <1>1, <1>2, <1>3, PoolTyped, ThreadTyped DEF Next, Dropped

\* The runner keeps its types for any number of tasks, of cores and of mishaps.
THEOREM TypeCorrect == Spec => []TypeOK
<1>1. TypeOK /\ [Next]_vars => TypeOK'
  BY StepTyped
<1> QED
  BY InitTyped, <1>1, PTL DEF Spec

(***************************************************************************)
(* One task at a time.                                                     *)
(***************************************************************************)
\* Cores nobody was asked to end and no mishap has hit.
Untold == alive \ (asked \cup killed \cup slipped)

Recorded(k) == pid_file = k \/ k \in Writing

\* Such a core is the one that run() is about to sweep or to install, or it is
\* installed and recorded: the next run() and drop both find it.
Held(c) ==
  LET at == caller[c].at   core == caller[c].core IN
  /\ at \in {"sweep_remove", "spawn"} => Untold = {}
  /\ at \in {"sweep_kill", "write_pid", "install"} => Untold \subseteq {core}
  /\ at = "install" /\ core \in Untold => Recorded(core)
  /\ at \notin {"sweep_remove", "spawn", "write_pid", "install"} =>
       /\ Untold \subseteq {instance}
       /\ \A k \in Untold : Recorded(k)
  /\ at \in {"terminate", "poll", "force", "forced", "clear"} => instance = core
  /\ at = "clear" => core \notin alive
  /\ dropped => Untold = {} /\ at = "idle"

\* As long as no core is started, nobody who was told or hit is forgotten.
LEMMA UntoldShrinks ==
  ASSUME alive' \subseteq alive, asked \subseteq asked', killed \subseteq killed',
         slipped \subseteq slipped'
  PROVE  Untold' \subseteq Untold
BY DEF Untold

LEMMA OnlyOne == ASSUME NEW c, Callers = {c}, TypeOK
  PROVE  /\ caller[c].at \in Places /\ caller[c].core \in 0 .. MaxRuns
         /\ n \in Nat /\ alive \subseteq Cores /\ 0 \notin alive /\ Untold \subseteq alive
         /\ \A from, to : Goto(c, from, to) =>
              /\ caller[c].at = from /\ caller'[c].at = to /\ caller'[c].core = caller[c].core
              /\ dropped' = dropped
BY DEF TypeOK, Cores, Goto, Untold

\* A record stays as long as the file and the jobs of the pool do.
LEMMA RecordStays ==
  ASSUME NEW k, pid_file' = pid_file, jobs \subseteq jobs', Recorded(k) PROVE Recorded(k)'
BY DEF Recorded, Writing

LEMMA SweepHeld ==
  ASSUME TypeOK, NEW c, Callers = {c}, Held(c),
         Run(c) \/ ReadPidFile(c) \/ SweepKill(c) \/ SweepMisses(c) \/ SweepRemove(c)
  PROVE  Held(c)'
<1> USE OnlyOne
<1>1. CASE Run(c)
  BY <1>1 DEF Run, Untouched, InstanceKept, cores, trouble, Held, Untold, Recorded, Writing
<1>2. CASE ReadPidFile(c)
  <2>1. PICK pid \in {pid_file, 0} :
          /\ caller' = [caller EXCEPT ![c] = [at |-> IF pid = 0 THEN "spawn" ELSE "sweep_kill",
                                              core |-> pid]]
          /\ slipped' = slipped \cup Writing \cup ({pid_file} \ {0, pid})
    BY <1>2 DEF ReadPidFile
  <2>2. /\ caller'[c].at = IF pid = 0 THEN "spawn" ELSE "sweep_kill"
        /\ caller'[c].core = pid
    BY <2>1 DEF TypeOK
  <2>3. /\ caller[c].at = "sweep" /\ dropped' = dropped
        /\ UNCHANGED <<alive, asked, killed, instance, pid_file, jobs>>
    BY <1>2 DEF ReadPidFile, Untouched, InstanceKept, cores
  <2>4. Untold \subseteq {instance} /\ \A k \in Untold : Recorded(k)
    BY <2>3 DEF Held
  <2>5. Untold' \subseteq Untold /\ Untold' \subseteq {pid}
    BY <2>1, <2>3, <2>4 DEF Untold, Recorded
  <2>6. \A k \in Untold' : Recorded(k)'
    BY <2>3, <2>4, <2>5, RecordStays
  <2>7. pid = 0 => Untold' = {}
    BY <2>3, <2>5 DEF Untold
  <2>8. ~dropped'
    BY <2>3 DEF Held
  <2> QED
    BY <2>2, <2>3, <2>4, <2>5, <2>6, <2>7, <2>8 DEF Held
<1>3. CASE SweepKill(c) \/ SweepMisses(c) \/ SweepRemove(c)
  <2>1. /\ caller[c].at \in {"sweep_kill", "sweep_remove"}
        /\ caller'[c].at \in {"sweep_remove", "spawn"} /\ ~dropped'
    BY <1>3 DEF SweepKill, SweepMisses, SweepRemove, Held
  <2>2. Untold' = {}
    BY <1>3 DEF SweepKill, SweepMisses, SweepRemove, Removes, KilledByPidFile, InstanceKept,
       cores, trouble, Held, Untold
  <2> QED
    BY <2>1, <2>2 DEF Held
<1> QED
  BY <1>1, <1>2, <1>3

LEMMA StartHeld ==
  ASSUME TypeOK, NEW c, Callers = {c}, Held(c),
         Spawn(c) \/ SpawnFails(c) \/ WritePid(c) \/ WritePidFails(c) \/ Install(c)
  PROVE  Held(c)'
<1> USE OnlyOne
<1>1. CASE Spawn(c)
  <2>1. caller'[c].at = "write_pid" /\ caller'[c].core = n + 1 /\ ~dropped'
    BY <1>1 DEF Spawn, TypeOK, Held
  <2>2. Untold' \subseteq {n + 1}
    BY <1>1 DEF Spawn, Held, Untold, trouble
  <2> QED
    BY <2>1, <2>2 DEF Held
<1>2. CASE SpawnFails(c)
  BY <1>2 DEF SpawnFails, Untouched, InstanceKept, cores, trouble, Held, Untold, Recorded
<1>3. CASE WritePid(c) \/ WritePidFails(c)
  <2>1. /\ caller[c].at = "write_pid" /\ caller'[c].at = "install"
        /\ caller'[c].core = caller[c].core /\ ~dropped'
    BY <1>3 DEF WritePid, WritePidFails, Held
  <2>2. Untold' \subseteq Untold /\ Untold \subseteq {caller[c].core} /\ Untold' \subseteq Cores
    BY <1>3, <2>1 DEF WritePid, WritePidFails, Untouched, InstanceKept, cores, Held, Untold
  <2>3. caller[c].core \in Untold' => Recorded(caller[c].core)'
    <3>1. CASE WritePid(c)
      BY <3>1, <2>2 DEF WritePid, WrittenPid, Recorded, Writing
    <3>2. CASE WritePidFails(c)
      BY <3>2, <2>2 DEF WritePidFails, Untold, Untouched, InstanceKept, cores
    <3> QED
      BY <1>3, <3>1, <3>2
  <2> QED
    BY <2>1, <2>2, <2>3 DEF Held
<1>4. CASE Install(c)
  <2>1. /\ caller[c].at = "install" /\ caller'[c].at = "idle" /\ ~dropped'
        /\ instance' = caller[c].core
    BY <1>4 DEF Install, Installed, Held
  <2>2. UNCHANGED <<alive, asked, killed, slipped, pid_file, jobs>>
    BY <1>4 DEF Install, cores, trouble
  <2>3. Untold' = Untold /\ Untold \subseteq {caller[c].core}
    BY <2>1, <2>2 DEF Untold, Held
  <2>4. \A k \in Untold' : Recorded(k)'
    BY <2>1, <2>2, <2>3, RecordStays DEF Held
  <2> QED
    BY <2>1, <2>3, <2>4 DEF Held
<1> QED
  BY <1>1, <1>2, <1>3, <1>4

LEMMA DropRunHeld ==
  ASSUME TypeOK, NEW c, Callers = {c}, Held(c), DropRun(c) PROVE Held(c)'
<1> USE OnlyOne
<1>1. /\ caller[c].at \in {"sweep", "sweep_kill", "sweep_remove", "write_pid"}
      /\ caller'[c].at = "idle" /\ ~dropped'
  BY DEF DropRun, Held
<1>2. /\ UNCHANGED <<alive, killed, instance, pid_file>>
      /\ asked \subseteq asked' /\ slipped \subseteq slipped' /\ jobs \subseteq jobs'
  BY DEF DropRun, InstanceKept, cores
<1>3. Untold' \subseteq Untold
  BY <1>2, UntoldShrinks
<1>4. CASE caller[c].at \in {"sweep", "sweep_kill"}
  <2>1. \A k \in Untold' : k = instance' /\ Recorded(k)'
    BY <1>2, <1>3, <1>4, RecordStays DEF Held
  <2> QED
    BY <1>1, <2>1 DEF Held
<1>5. CASE caller[c].at \in {"sweep_remove", "write_pid"}
  <2>1. Untold' = {}
    BY <1>2, <1>3, <1>5 DEF DropRun, Held, Untold
  <2> QED
    BY <1>1, <2>1 DEF Held
<1> QED
  BY <1>1, <1>4, <1>5

LEMMA KillHeld ==
  ASSUME TypeOK, NEW c, Callers = {c}, Held(c),
         \/ Kill(c) \/ Terminate(c) \/ DropKill(c) \/ Poll(c) \/ ForceKill(c) \/ Forced(c)
         \/ Clear(c) \/ Settle(c)
  PROVE  Held(c)'
<1> USE OnlyOne
<1>1. /\ caller[c].at \in {"idle", "terminate", "poll", "force", "forced", "clear", "settle"}
      /\ caller'[c].at \in {"idle", "terminate", "poll", "force", "forced", "clear", "settle"}
  BY DEF Kill, Terminate, DropKill, Poll, ForceKill, Forced, Clear, Settle, TypeOK
<1>2. /\ UNCHANGED <<alive, pid_file, slipped>>
      /\ asked \subseteq asked' /\ killed \subseteq killed' /\ jobs \subseteq jobs'
  BY DEF Kill, Terminate, DropKill, Poll, ForceKill, Forced, Clear, Settle, InstanceKept,
     Untouched, cores, trouble
<1>3. Untold' \subseteq Untold /\ \A k \in Untold' : k = instance /\ Recorded(k)'
  BY <1>1, <1>2, UntoldShrinks, RecordStays DEF Held
<1>4. ~dropped'
  BY DEF Kill, Terminate, DropKill, Poll, ForceKill, Forced, Clear, Settle, Held
<1>5. CASE Clear(c)
  <2>1. Untold' = {} /\ caller'[c].at = "settle"
    BY <1>2, <1>3, <1>5 DEF Clear, Held, Untold
  <2> QED
    BY <1>4, <2>1 DEF Held
<1>6. CASE ~Clear(c)
  <2>1. instance' = instance
    BY <1>6 DEF Kill, Terminate, DropKill, Poll, ForceKill, Forced, Settle, InstanceKept,
       Untouched
  <2>2. caller'[c].at \in {"terminate", "poll", "force", "forced", "clear"}
          => caller'[c].core = instance
    BY <1>6 DEF Kill, Terminate, DropKill, Poll, ForceKill, Forced, Settle, Held, TypeOK
  <2>3. caller'[c].at = "clear" => caller'[c].core \notin alive'
    BY <1>2, <1>6 DEF Kill, Terminate, DropKill, Poll, ForceKill, Forced, Settle, TypeOK
  <2> QED
    BY <1>1, <1>3, <1>4, <2>1, <2>2, <2>3 DEF Held
<1> QED
  BY <1>5, <1>6

\* What the pool does late leaves a core recorded or counts it as slipped.
LEMMA PoolHeld ==
  ASSUME TypeOK, NEW c, Callers = {c}, Held(c), NEW j \in jobs, Lands(j) \/ Spoils(j)
  PROVE  Held(c)'
<1> USE OnlyOne
<1>1. UNCHANGED <<caller, dropped, instance, alive, killed>>
  BY DEF Lands, Spoils, InstanceKept, cores
<1>2. asked \subseteq asked' /\ slipped \subseteq slipped'
  BY DEF Lands, Spoils, Removes, Overwrites
<1>3. Untold' \subseteq Untold
  BY <1>1, <1>2, UntoldShrinks
<1>4. ASSUME NEW k \in Untold', Recorded(k) PROVE Recorded(k)'
  <2>1. k \in alive /\ k \in Cores /\ k # 0 /\ k \notin slipped'
    BY <1>1, <1>3, <1>4 DEF Untold, Cores
  <2>2. CASE Lands(j) /\ j.op = "terminate"
    BY <1>4, <2>2 DEF Lands, Recorded, Writing, Job
  <2>3. CASE Lands(j) /\ j.op = "remove"
    BY <1>4, <2>1, <2>3 DEF Lands, Removes, Recorded
  <2>4. CASE Lands(j) /\ j.op = "open"
    BY <1>4, <2>1, <2>4 DEF Lands, Overwrites, Recorded, Writing, Job
  <2>5. CASE Lands(j) /\ j.op = "write"
    BY <1>4, <2>1, <2>5 DEF Lands, Overwrites, Recorded, Writing, Job
  <2>6. CASE Spoils(j)
    BY <1>4, <2>1, <2>6 DEF Spoils, Recorded, Writing, Job
  <2> QED
    BY <2>2, <2>3, <2>4, <2>5, <2>6 DEF Lands
<1> QED
  BY <1>1, <1>3, <1>4 DEF Held

LEMMA HeldStep ==
  ASSUME TypeOK, NEW c, Callers = {c}, Held(c), [Next]_vars PROVE Held(c)'
<1>1. ASSUME Run(c) \/ Kill(c) \/ Call(c) \/ DropRun(c) \/ DropKill(c) PROVE Held(c)'
  BY <1>1, SweepHeld, StartHeld, DropRunHeld, KillHeld DEF Call
<1>2. CASE Drop
  <2>1. caller[c].at = "idle" /\ UNCHANGED <<caller, alive, asked, pid_file, jobs>>
    BY <1>2 DEF Drop, cores
  <2>2. Untold' = {}
    BY <1>2, <2>1, OnlyOne DEF Drop, Held, Untold
  <2> QED
    BY <2>1, <2>2 DEF Held
<1>3. ASSUME NEW k \in Cores, Thread(k) \/ WaitFails(k) PROVE Held(c)'
  <2>1. UNCHANGED <<instance, pid_file, caller, dropped, cores, asked, killed, jobs, slipped>>
    BY <1>3 DEF Thread, Waiter, WaitFails, WaiterStep, Look, Pass, Unlock, CheckpointStep
  <2> QED
    BY <2>1 DEF Held, Untold, Recorded, Writing, cores
<1>4. ASSUME NEW k \in Cores, Exit(k) PROVE Held(c)'
  BY <1>4 DEF Exit, Held, Untold, Recorded, Writing, trouble
<1>5. CASE UNCHANGED vars
  BY <1>5 DEF vars, cores, trouble, Held, Untold, Recorded, Writing
<1> QED
  BY <1>1, <1>2, <1>3, <1>4, <1>5, PoolHeld DEF Next, Dropped

LEMMA InitHeld == ASSUME NEW c, Callers = {c}, Init PROVE Held(c)
BY DEF Init, Held, Untold

\* Once the instance is dropped every core that still lives was told to end or was
\* hit by a mishap, however many were started and whatever went wrong with others, as
\* long as one task at a time is in run() or kill(); with two it is not so
\* (instance.rs 212-227, 321-330, 392-402).
THEOREM OnlySlippedCoresSurviveHolds ==
  ASSUME NEW CONSTANT c, Callers = {c} PROVE Spec => []OnlySlippedCoresSurvive
<1>1. TypeOK /\ Held(c) /\ [Next]_vars => Held(c)'
  BY HeldStep
<1>2. Held(c) => OnlySlippedCoresSurvive
  BY DEF Held, Untold, OnlySlippedCoresSurvive
<1> QED
  BY InitHeld, <1>1, <1>2, TypeCorrect, PTL DEF Spec

\* A core that a later run() replaced was told to end before its successor was
\* spawned, or had slipped by then, also when the later run() came before the
\* checkpoint of the first, or after a kill() that failed: only the newest core can
\* live without one or the other (instance.rs 216-227, 321-327).
ReplacedCoresAreTold == \A k \in alive : k < n => k \in asked \cup killed \cup slipped

\* No core is forgotten but those a mishap hit, however many are started, as long as
\* one task at a time is in run() or kill(): what CoresDoNotPileUp needs besides
\* fairness (instance.rs 216-227, 321-327).
THEOREM ReplacedCoresAreToldHolds ==
  ASSUME NEW CONSTANT c, Callers = {c} PROVE Spec => []ReplacedCoresAreTold
<1>1. Init => ReplacedCoresAreTold
  BY DEF Init, ReplacedCoresAreTold
<1>2. TypeOK /\ Held(c) /\ ReplacedCoresAreTold /\ [Next]_vars
        => Held(c)' /\ ReplacedCoresAreTold'
  <2> SUFFICES ASSUME TypeOK, Held(c), ReplacedCoresAreTold, [Next]_vars
               PROVE  ReplacedCoresAreTold'
    BY HeldStep
  <2>t. n \in Nat /\ alive \subseteq 1 .. MaxRuns
    BY DEF TypeOK, Cores
  <2>1. CASE Spawn(c)
    <3>1. Untold = {} /\ slipped' = slipped
      BY <2>1 DEF Spawn, Held, trouble
    <3> QED
      BY <2>1, <3>1, <2>t DEF Spawn, Untold, ReplacedCoresAreTold
  <2>2. CASE ~Spawn(c)
    <3>1. n' = n /\ alive' \subseteq alive
      BY <2>2 DEF Next, Call, Dropped, Drop, Run, Kill, ReadPidFile, SweepKill, SweepMisses,
         SweepRemove, SpawnFails, WritePid, WritePidFails, Install, DropRun, Terminate, DropKill,
         Poll, ForceKill, Forced, Clear, Settle, Lands, Spoils, Thread, Waiter, WaitFails,
         WaiterStep, Look, Pass, Unlock, CheckpointStep, Exit, InstanceKept, Untouched, vars, cores
    <3>2. asked \subseteq asked' /\ killed \subseteq killed' /\ slipped \subseteq slipped'
      BY <2>2 DEF Next, Call, Dropped, Drop, Run, Kill, ReadPidFile, SweepKill, SweepMisses,
         SweepRemove, Removes, SpawnFails, WritePid, WritePidFails, Install, DropRun, Terminate,
         DropKill, Poll, ForceKill, Forced, Clear, Settle, Lands, Overwrites, Spoils, Thread,
         Waiter, WaitFails, WaiterStep, Look, Pass, Unlock, CheckpointStep, Exit, InstanceKept,
         Untouched, vars, trouble
    <3> QED
      BY <3>1, <3>2 DEF ReplacedCoresAreTold
  <2> QED
    BY <2>1, <2>2
<1> QED
  BY InitHeld, <1>1, <1>2, TypeCorrect, PTL DEF Spec
=============================================================================
