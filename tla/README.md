# A TLA+ model of nyanpasu-utils

`nyanpasu-utils` runs proxy cores for its users: it spawns a child process,
streams its output, kills it with everything it forked, restarts it when it
crashes, and finds it again through a pid file after a crash of its own. This
directory models the parts where several tasks, processes and failures meet,
checks them with TLC and proves with TLAPS, for every value of the constants, every
safety and step property that holds and both refinements. What stays with TLC is
liveness under fairness. Paths below are relative to the crate (`src/process/...`).

## 1. Inventory

| component | state it keeps | operations | properties that make it right |
|---|---|---|---|
| **Supervisor** `process/supervisor.rs` | cancellation token, shared handle `current`, `ready_pending`, channel of acknowledged pids, restart attempt, exits in the storm window | `SupervisorBuilder::spawn` and its loop, `stop`, `acknowledge_ready`, `current_pid`, `kill_current_process`, `Drop` | one generation at a time; nothing left when it returns; an acknowledgement reaches exactly the child it names; restarts are bounded; the hook sees the documented order; `stop` returns |
| **Engine** `process/engine.rs` | per child: pending event, deadlines, open/closed ends, what was dropped | `spawn`, `pump` (three `select!` loops), `handle_ctrl`, `write_stdin`, `normalize_finish` | a line the pump is handed is delivered or its loss is reported; the pid file outlives the child; deadlines hold; the pump always ends; stdin has no hole |
| **ProcessHandle** `process/handle.rs` | sender of requests, watch of the outcome | `wait`, `kill`, `graceful_kill`, `write_stdin`, `send_ctrl` | kills are idempotent and return, whatever they race with |
| **Command** `process/command.rs` | builder | setters, `spawn`, `output` | what it promises is the contract of a child |
| **Pid files** `process/pid_file.rs` | one JSON record per epoch, on disk | `prepare_epoch`, `write`, `cleanup`, `reap_epoch_pid_file`, parsing and path validation | a recorded child can be found again; only the recorded tree is signalled |
| **CoreInstance** `core/instance.rs` | state, shared child, pid file, three kinds of thread per core | `check_config_`, `run`, `kill`, `state`, `Drop` | cores do not pile up; state and core agree in the end |
| `core/utils.rs` | none | pipe readers, log line parsing | order of events |
| `os/*` | none | process lookup, legacy pid files, `gracefully_kill`, elevation | single calls |
| `io/*` | none | `read_line`, `atomic_move_new`, atomic writes | single calls; no replacement of an existing file |
| `runtime`, `network`, `dirs`, `core/definition.rs`, `process/event.rs`, `process/error.rs` | none | helpers and data | – |

**Interactions.** A Supervisor calls `Command::spawn`, which prepares the pid
record (reaping what an earlier manager left), starts the child, publishes the
record and hands everything to a pump task. The pump talks to the owner through
three channels: bounded events, requests with a reply, and a watch that holds
the outcome. The supervisor's loop consumes the events; `stop`, the cancel branch
of the loop and `kill_current_process` send requests; `acknowledge_ready` meets
the loop through an atomic pid and an unbounded channel. `CoreInstance` is the
older runner and shares nothing with the rest but `os/`.

**What is hard.** Two cancellation paths racing for one handle; a spawn already
in flight when the cancellation comes; acknowledgements that race with exit and
respawn; biased `select!` loops with four deadlines; the end of output, the exit
of the child, the outcome and the last events coming in any order; receivers that
stall; pids recycled between two reads; crashes between starting a child and
recording it; threads that write `state` long after what they looked at changed; failures that
are logged and survived, and futures dropped half way.
`PROJECT.json` lists 33 such hazards at their lines with the properties for them.

## 2. Modules

```
SupervisorLifecycle   what the hook may observe          (abstract)
ManagedChild          what Command::spawn promises       (contract)
   ^ implemented by        ^ used by                ^ implemented by
Supervisor -- EXTENDS ManagedChild, Backoff    ProcessPump
   ^                                                ^
MCSupervisor  properties, refinement           MCPump   properties, refinement
   ^                                                ^
SupervisorProofs  safety, delays               PumpProofs    safety
   ^         ^                                      ^
RestartProofs LifecycleProofs                  ChildProofs   refinement
 verdicts      refinement

EpochPidFile <- MCEpochPidFile <- PidFileProofs <- ReapProofs
CoreInstance <- MCCoreInstance <- CoreProofs
```

The supervisor is composed with its children through `ManagedChild`, a
contract of six phases from birth to end: it is what the supervisor is checked
against, and `ProcessPump`, 480 lines of detail, is proved to implement each step of
it (`ImplementsChild`), the content of `Terminated` included. A child ends as
`delivered` (`Terminated` says how it exited), `blank` (`finish()` failed, and
`Terminated` carries neither code nor signal, `engine.rs` 138-145 and 505) or `lost`
(the channel closes without it). So what is found for the supervisor does not rest on
an idealised child.

### Supervisor
One action per stretch of the loop between two points where another task can
interfere (an await, a lock, an atomic access). `pc` names them: `watch` →
`ready` → `readied` → `event` are the branches of the biased `select!` polled in
order (`PollCancelled`, `PollTimer`, `PollAcknowledged`, `PollEvent`), `wind_up`
awaits the kill task and emits `Exited`, `judge`, `storm`, `count`, `backoff`,
`spawn`, `install`, `announce` are the rest of the round. The owner's `stop` is
`StopCancels`, `StopTakes`, `StopAsks`, `StopJoins`; `Drop` is `DropCancels`,
`DropCloses`; `acknowledge_ready` is three actions (`AckChecks`, `AckSwaps`,
`AckSends`) per task. `abnormal_exits` holds times of a bounded clock; `crashes`,
`announced` are histories for the properties.
The sleep of the backoff is one step: what matters is that it can be interrupted.
How long it lasts is `delay`, chosen with every `Restarting` from what `Backoff`
allows for that attempt: the closed form with its two saturations, and the jitter
for every value its entropy can take.
The probe `None` is `AliveAfter` with no delay. A pid is the index of its child:
pids are taken to be unique while one supervisor lives.

### ProcessPump
`pump` is the record of the locals of `pump()`. `Main(b)`, `Drain(b)` and
`Flush(b)` say that branch `b` of a biased `select!` is the first one ready; each
action is one branch, in every loop that has it. Time is a countdown per deadline;
`Tick` may be delayed, a due deadline may not be skipped. Lines are counted, not
told apart. `proc` is the process tree: the direct child, whoever else holds the
pipes, how it exited, the lines processkit holds for the pump, and the result of
`finish()`, which may drain lines that `events.next()` has not returned yet, and may
fail, so that `payload`, what `Terminated` will say, is not the `outcome`.
processkit keeps at most 256 KiB of output (`engine.rs` 55): a line that comes while
the pump is paused by a full channel evicts the oldest, and nobody is told
(`command.rs` 97-99, 137-144). The ring of the model holds `Ring` lines, and `missed`
counts what it evicted, and the one other line that goes uncounted: a blank line
alone in the tail of standard error, which `finish()` cannot tell from no line
(`engine.rs` 118-122, `Split`). `kill_all` may fail, silently where the
code ignores its error. `StdinWriter` is the other task of a child: it takes a
write from its bounded queue, and the write succeeds, or breaks and takes the
queue and the pipe with it; a child that does not read keeps it in hand for ever.
Writes are numbered in the order of their requests, which share one channel with
the kills. The callers of `kill`, `graceful_kill` and `write_stdin`, the receiver
and the drop of both are actions of their own. A graceful kill is the one of Unix,
SIGTERM and a deadline; on Windows it is a kill at once. The channel of
requests has room for 8 in the code and for all in the model: the ninth would wait
where it waits now, before its reply. `processkit` is external: it is modelled by
how `engine.rs` uses it.

### EpochPidFile
One record at one path and a succession of tasks: each is a `Command::spawn` with
the life of its child, or a `reap_epoch_pid_file`, and can crash at any step. The
operating system is a table from pids to processes; a process is its start token,
which is never reused, while its pid is. Every await of the reap that reads the
system or the disk is a step: the two listings of descendants and the two rounds
of identities, the confirmation, the opening of the pidfd, the check, the signal,
the wait, the comparison and the removal.

### CoreInstance
`caller` is where each caller of `run` or `kill` is: both borrow the instance, so
several may be in them. Waiter and checkpoint of each core are threads of their own,
and the lock they share is a condition in their guards; the readers of its pipes hold
that lock too, but only make the waiter late. The drop needs all callers out. A core's
pid is its number.

`run` sweeps what the pid file names (`ReadPidFile`, `SweepKill`, `SweepRemove`),
starts the core, writes its pid and stores the handle. What may go wrong there is
logged and survived, and modelled as it is: an unreadable file, an executable that
is not recognised, a `kill_tree` that fails half way (`SweepMisses`) or a file that
is not removed (`instance.rs` 222-224), a pid that is not written (`WritePidFails`,
322-324), a pid handed to the blocking pool and not flushed (`os/mod.rs` 31), so that
the file is empty until the pool gets to it (`Lands`) or the write is spoilt
(`Spoils`); failing signals and `wait` calls; and a future of `run` or `kill` dropped
where it awaits (`DropRun`, `DropKill`), which leaves its blocking work in `jobs`.
`MaxMishaps` bounds how many of these a behaviour has, and the history `slipped` names
the cores whose signal, record or handle one of them hit. With one caller no core is put
there for any other reason, so the properties with `slipped` say what the code owes to
every core that no mishap touched, also when mishaps happened around it.

## 3. Runs

| run | question and answer | instance |
|---|---|---|
| `supervisor_safety` | Do two generations ever overlap, is a process ever left behind or orphaned, does an acknowledgement reach another child, does the hook see an order the docs exclude; is a child restarted whose `Terminated` said exit code zero? No. | 3 children, 2 acknowledging tasks, a restart budget of 1, a stalling receiver, a failing `finish()` |
| `supervisor_live` | Do `stop` and cancellation always finish, is an acknowledgement that returned true heard, is a crash always handled? Yes. | 2 children, 1 acknowledging task, stalling receiver, failing `finish()` |
| `supervisor_alive` | With `AliveAfter` and a hook that keeps up: does the storm window bound restarts although `Ready` gives the budget back, does a survivor become ready, does no spawn begin after cancellation, does the delay of each restart double up to its maximum, within the jitter? Yes. | 3 children, 2 failures per window, clock 0..1, delays 4, 8, 10 with jitter |
| `supervisor_lost_exit` | Is exit code zero final when the hook stalls? **No** (finding). | 2 children |
| `supervisor_late_restart` | Does cancellation prevent every further restart? **No**, a spawn already begun goes on (finding). | 2 children |
| `pump_safety` | Is a line the pump was handed ever lost without being counted, the pid file removed too early, a kill answered `AlreadyExited`, a deadline postponed; is any step outside the child's contract? No. | 2 callers, capacity 1, a ring of 1 line, timeout 2, grace 1, stall 1, stdin not piped, lines and writes 2 together, `kill_all` may fail |
| `pump_live` | With stdin piped: do kills return, deadlines bite, the pump end and an abandoned child die, with a receiver that owes nothing; does a full queue of writes never hold the pump up, has every write its answer in the end, and is none delivered behind one that broke? Yes. | 1 caller, no timeout, a ring of 1 line, a child that exits in one way, a queue of 1 write, lines and writes 2 together |
| `pid_file` | Can a recorded child be lost, a signal hit another process than the one proven, a clean end leave a record, a reap go on for ever or be taken a step back? No. | 3 tasks, 4 processes on 2 pids |
| `pid_file_stray` | Is only the recorded tree killed? **No** (finding). | 2 tasks, 3 processes on 2 pids |
| `core_instance` | Do replaced cores die, does the drop leave any, or one it told nothing? They die, and none is left but one a mishap hit itself. | 1 caller, 2 cores, 1 mishap |
| `core_instance_shared` | Has the drop told every core when two tasks used the instance and nothing failed? **No** (finding). | 2 callers, 2 cores, no mishap |
| `core_instance_stuck` | Does the state always leave `Running` when no core lives? **No** (finding). | 1 core, no mishap |

**Why the bounds are enough.** Three children give a child that is replaced by one
that is itself replaced, the least in which an acknowledgement of the first can be
mistaken for one of the third and in which the storm window slides; two
acknowledging tasks give every race on `ready_pending`. `MaxRestarts = 1` puts
the budget's boundary within reach and `MaxFailures = 9` keeps the storm guard
out of the runs that are not about it. `supervisor_alive` needs three attempts for
a delay that is the first, a doubled one and one cut off at the maximum. In the pump, capacity 1 with two
lines already makes the channel full while a line waits, a ring of one line then
evicts with the next, and the deadlines differ (grace 1, timeout 2) so that a grace period can come before and after the timeout.
Two writes and a queue of one already give one in hand and one queued behind it, or
one refused. `pump_safety` has no stdin,
so that every write is refused, and `pump_live` has one: the writer only shares the
queue of requests with the rest. The callers of the pump are interchangeable, and TLC
is told so where it checks safety.
Two pids for four processes force the reuse every property is about; three tasks
give a spawn, the reap or spawn that follows its crash, and one after that. Every
bound is a constant named in its module: `MaxSpawns`, `MaxTime`, `MaxTraffic`,
`MaxPids`, `MaxProcs`, `MaxTasks`, `MaxRuns`, `MaxMishaps`; `Ring` is the size of
processkit's ring, and `Endings` says how the child of the pump may exit: nothing the
pump does depends on it, so `pump_live` has one way and only the contract needs two.
One mishap is enough to lose a core, and the theorems about `CoreInstance` hold for
any number. `MayStall` and `MayErr` switch the two ways in which
the loop does not hear of an exit code: both are on in `supervisor_safety` and
`supervisor_live`; `supervisor_alive` is about what follows when the loop does hear,
and each violation run has only the switch it needs. A bound only stops an action from
happening again; no property holds because of it except where a leads-to ends in
"the bound's last child lives on", which none of them says.
Where the system may stop (loop ended, pump gone, instance dropped, task at rest) an explicit
stuttering action says so, and deadlock is checked in every run.

## 4. Fairness

* *Supervisor* (`FairSpec`): the loop, the owner's call in progress and an
  acknowledgement past its check are tokio tasks that are polled when ready: weak
  fairness on their steps. Nobody has to call anything: starting a `stop`, a
  `Drop`, an acknowledgement or a cancellation has no fairness. A spawn that is
  awaited may succeed or fail but comes to an end.
* *Children*: a child ends only if it is asked to (`WF(asked /\ Exit)`), because
  the pump turns a graceful kill into `kill_all` after the grace period, which
  `pump_live` checks (`DeadlineKills`, `KillReturns`); its tree lets go of the
  pipes for the same reason. A child that nobody asks may live for ever.
* *Pump*: the two tasks are polled and time passes; a process that was sent SIGKILL
  dies; `finish()` resolves once the pipes are closed; a write to a pipe nobody
  reads from any more fails. The receiver may stop taking events for ever,
  descendants may hold the pipes for ever, the child may ignore SIGTERM and may
  never read. `pump_live` takes `kill_all` to work: the code does not try again,
  so a deadline does not bite when it fails.
* *EpochPidFile* (`FairSpec`): the steps of a reap, whose every await is answered
  by the system. Nothing is asked of the processes, and no task has to begin.
* *CoreInstance*: threads run, calls go on, the receiver takes its events or is
  dropped, and a core that was sent a signal ends. The work that the pool still has is
  owed nothing: an unflushed pid may never reach its file.

## 5. What is proved

### The supervisor

`SupervisorProofs`, `RestartProofs` and `LifecycleProofs` prove, for every number of
children, every set of acknowledging tasks, every budget, window, probe and policy:

| theorem | statement |
|---|---|
| `TypeCorrect` | `Spec => []TypeOK` |
| `OneChildAtATimeHolds` | `Spec => []OneChildAtATime` |
| `DoneMeansNoChildHolds` | `Spec => []DoneMeansNoChild` |
| `NobodyIsOrphanedHolds` | `Spec => []NobodyIsOrphaned` |
| `AcknowledgedOnceHolds` | `Spec => []AcknowledgedOnce` |
| `ReadyWasAcknowledgedHolds` | `Spec => []ReadyWasAcknowledged` |
| `DelayIsBounded` | `Spec => [](4 * delay <= 5 * Greater(MaxDelay, 1))` |
| `AcknowledgementIsKeptHolds` | `Spec => []AcknowledgementIsKept` |
| `ProbeStaysArmedHolds` | `Spec => []ProbeStaysArmed` |
| `NoWaitInVainHolds` | `Spec => []NoWaitInVain` |
| `RestartProofs!ToldExitIsFinalHolds` | `Spec => []ToldExitIsFinal` |
| `RestartProofs!StormIsBoundedHolds` | `Spec => []StormIsBounded` |
| `RestartProofs!BackoffDoublesHolds` | `Spec => []BackoffDoubles` |
| `RestartProofs!NoSpawnBeginsAfterCancelHolds` | `Spec => NoSpawnBeginsAfterCancel` |
| `LifecycleProofs!ImplementsLifecycleHolds` | `Spec => ImplementsLifecycle` |

The assumptions are those of the modules: `ChildAssumption` (at least one child
can be spawned), `SupervisorAssumption` (types of the policy, `MaxFailures` at
least one, as `max_failures.max(1)` makes it) and `BackoffAssumption`, which also
states that the powers of two up to the thirtieth are natural numbers that begin at
one and double: the prover knows nothing of `^`, and TLC evaluates the facts in
every run of the supervisor.
Durations are taken to be short of the 584 years that fill 64 bits of nanoseconds.

*Types* need `Indexed`: where the loop or a call looks a child up there is one.

*Children.* `OneChildAtATime` is not inductive: nothing in it says that the latest
child is over when the loop comes to the spawn. `ChildrenInOrder` adds exactly
that (outside `Busy` places the latest child is over too, later ones are not
born, and `stop` returns only after the loop). `NobodyIsOrphaned` needs
`KillerInRound`: a kill task exists only in a round that has seen the
cancellation, so the loop never forgets one by starting another.

*Acknowledgements.* `Permits`: `ready_pending` is a permit, created once per
announced child. A call that took it holds the pid for good, so no call holds a
pid that is still pending, no two calls hold the same, and nothing beyond the last
announced child was ever pending. `ReadyEarned` then says that every pid in the
channel, and the child the loop is about to call ready, was acknowledged by a call
that returned true. The other direction is `AcknowledgementIsKept`: what returned
true is in the channel, with the probe armed, until it is announced, as long as its
child lives and nobody cancels. `Listening` says who may still use it up: a channel
is emptied, and a probe disarmed, only for the child that watches it. With fairness
this is why an acknowledgement is heard (`AcknowledgementIsHeard`). For the other
probe, `ProbeStaysArmed` says that the timer of a running child is spent on nothing
but its own `Ready` (`SurvivorBecomesReady`).

*Stopping.* `NoWaitInVain`: nobody waits for a child that nobody ends. `stop()` joins
a loop it has cancelled and a child it has asked, and a loop that saw the cancellation
watches a child that was asked, or will be by the kill task or by `stop()`. It needs
`Unshared`: the cancellation empties the shared handle, and only a new round, which
looks at the token again, fills it. This is what `StopReturns` and `CancelEnds` need
besides fairness.

*Verdicts.* `ToldExitIsFinal` speaks of children that have successors: none of them
had exited with code zero and said so in its `Terminated`. `Informed` adds what the
loop knows on its way there: from `wind_up` on its `payload` is the outcome of a child
that was delivered, and past `judge` that outcome was not clean. That the condition is
needed, the finding `supervisor_lost_exit` shows.
`StormIsBounded` speaks of the history of all crashes, the code of a queue it pops.
`Remembered`: the times never decrease, the queue is the end of the history, and
what was popped is older than the window; so the crashes in the window are among
those in the queue.

*Delays.* `BackoffDoubles` compares the closed form of the code, with its two
saturations, to a recursive function. That it doubles for every attempt is an
induction over data, which the prover cannot do; but the behaviour itself goes
through the attempts one by one. `Following` says that the two agree at the present
attempt; the step that counts one carries it over, and the temporal rule is the
induction. That the function exists at all is shown by giving it: the closed form
satisfies its defining equation.

*Cancellation.* `NoSpawnBeginsAfterCancel` has one `[]` inside another. Its inner
part is proved as an invariant of the steps that follow the cancellation: the token
stays cancelled, and every way to `spawn` looks at it first.

*Lifecycle.* `Told` says for every place of the loop which event was the last one,
that the latest child has been announced except where a cancellation overtook its
spawn, that a spent probe cannot announce `Ready` twice, and that the attempt stays
in the budget. Under it each action of the supervisor is a step of
`SupervisorLifecycle` or a stutter.

### The pump

`PumpProofs` and `ChildProofs` prove, for every set of callers, capacity, deadline,
ring and amount of traffic, whether `kill_all` may fail or not, from `PumpAssumption`
(types; the capacities at least one, as `.max(1)` and the constants make them;
callers are not numbers) and `EndingsAssumption`:

| theorem | statement |
|---|---|
| `TypeCorrect` | `Spec => []TypeOK` |
| `PidFileOutlivesTheChildHolds` | `Spec => []PidFileOutlivesTheChild` |
| `NeverAlreadyExitedHolds` | `Spec => []NeverAlreadyExited` |
| `NeverPostponedHolds` | `Spec => NeverPostponed` |
| `NoHoleInStdinHolds` | `Spec => []NoHoleInStdin` |
| `EverythingBeforeTerminatedHolds` | `Spec => []EverythingBeforeTerminated` |
| `NothingIsForgottenHolds` | `Spec => []NothingIsForgotten` |
| `NothingIsAnsweredTwiceHolds` | `Spec => []NothingIsAnsweredTwice` |
| `StallIsBoundedHolds` | `Spec => []StallIsBounded` |
| `ChildProofs!ImplementsChildHolds` | `Spec => ImplementsChild` |

`Settled` orders the end of a child: the result of `finish()` comes after the exit,
the outcome after the result, the drain after the pipes closed, and the cleanup
after both. The pid file, the kills that find their channel closed, and every step
of the contract rest on it. `InOrder` says that the numbers of the writes increase
from those that succeeded over the one in hand and the queue to the requests, so
nothing that succeeds can have a broken one before it. `Accounts` is a balance: while
the pump reads, the lines the tree wrote are those in the ring, in the pump's hand,
in the tail of `finish()`, in the channel, received, counted as dropped, or `missed`
before the pump could be handed them; in the end what is still to come is lines, then
the count of the lost ones, then `Terminated`. The code counts what it drops and has
no number for what the ring evicts, so this is the most it can promise. `Honest` is
what the refinement needs of the exit code: what `Terminated` will say is the outcome
of the child or nothing, and only the exit and `finish()` have a say in it.

Three theorems are what the liveness properties of `pump_live` need besides fairness.
`NothingIsForgotten`: whoever waits for the pump is in its queue, and an accepted
write is with the writer, so `KillReturns` and `WritesAreAnswered` wait for nothing
that was dropped on the way; `NothingIsAnsweredTwice` is the converse.
`StallIsBounded`: a pump whose child was killed or is gone knows it, and waits for
the receiver only with a deadline armed that is within the stall limit, so
`PumpEnds` and `DeadlineKills` do not hang on a receiver that owes nothing.

### The pid file and the instance

`PidFileProofs` and `ReapProofs` prove, for every number of pids, processes and tasks, from
`RecordAssumption` (those bounds are natural numbers):

| theorem | statement |
|---|---|
| `TypeCorrect` | `Spec => []TypeOK` |
| `RecordedChildIsRecoverableHolds` | `Spec => []RecordedChildIsRecoverable` |
| `SignalHitsItsTargetHolds` | `Spec => []SignalHitsItsTarget` |
| `CleanEndLeavesNoRecordHolds` | `Spec => []CleanEndLeavesNoRecord` |
| `ReapProofs!ReapAdvancesHolds` | `Spec => ReapAdvances` |
| `ReapProofs!ReapIsBounded` | `Spec => [](StepsLeft \in 0 .. 6 * MaxPids + 14)` |

*Types* need `Placed`: a task past the reading of the record, the choice of a target
or the start of its child has one, and while it reaps, what it read is what the file
holds. The rest is `Sound`. `AllLocated`: a recorded process that lives still
has the pid it was recorded with, and no token at hand will be used again.
`Pinned`: what the pidfd holds is either dead or what the target's pid names, and
after the check it is the target or dead; this is why a signal cannot hit the wrong
process. `DeadBefore`: a reaper gets past the root, and a manager past its child,
only when it is dead, and every later step that removes the record relies on it.
The steps of the operating system are dealt with once: `StepPersists` says what any
step leaves of the processes, and `LocatedKept` that this is enough.

*The end of a reap.* `StepsLeft` counts down: six steps for each target that is left
and one for each stage still to come. Every step of a reap lowers it and nobody
else's raises it, so the fairness of `FairSpec` takes it to its end (`ReapEnds`).
The bound needs `Single`: two looks at the descendants are merged, and yet no pid
is a target twice, so there are no more targets than pids.

`CoreProofs` proves, for every number of cores and of mishaps, from `RunsAssumption`:

| theorem | statement |
|---|---|
| `TypeCorrect` | `Spec => []TypeOK` |
| `OnlySlippedCoresSurviveHolds` | `Callers = {c}` gives `Spec => []OnlySlippedCoresSurvive` |
| `ReplacedCoresAreToldHolds` | `Callers = {c}` gives `Spec => []ReplacedCoresAreTold` |

`Held(c)` says, by the place of the only caller, which core may live without having
been told to end or been hit by a mishap (`Untold`): the one `run` is about to sweep or
to install, or the one that is installed and `Recorded`, in the pid file or on its way
there. `ReplacedCoresAreTold` is stated in the proof module: when a core is started,
all those before it were told or had slipped. An unflushed pid is no mishap of its core
until somebody reads the file without it: a write that lands late but in time is
covered. With two callers `Held` fails without any mishap, which is the finding
`core_instance_shared`.

### Only model-checked

Liveness under fairness, which is out of the prover's reach: `StopReturns` and its
like for the supervisor, the pump, the reap and the instance. For most of them the
theorems above give the half that is about states: what is waited for is still there,
and the deadline or the measure that ends the waiting is in force. The rest is that
a task with a step to take takes it. The properties of the violation runs do not
hold.

## 6. Where code and documentation differ

1. **A clean exit can be restarted** (`supervisor_lost_exit`). The loop learns the
   exit code from `Terminated` only; a closed channel counts as an abnormal exit
   (`supervisor.rs:407`). The engine drops its terminal events when the receiver
   stalls for five seconds (`engine.rs:540`), as an `on_event` hook that blocks
   makes it do. A `finish()` that fails is a second way: `Terminated` then has no code
   (`engine.rs:505`), which counts as abnormal too (phase `blank`). The handle's watch still has the real code. Docs: "exit code zero
   ends the loop without a restart" (`supervisor.rs:292`).
2. **A restart after the cancellation** (`supervisor_late_restart`). The token is
   checked before and after `spawn().await`: a cancellation in between still starts
   a process, which is killed unannounced. Docs: "prevents further restarts"
   (`supervisor.rs:295`). `NoSpawnBeginsAfterCancel` is the form that holds.
3. **A stranger can be reaped** (`pid_file_stray`). Descendants are listed as pids
   and identified afterwards; a pid recycled in between is recorded with the
   stranger's identity, and the merge keeps it when the second listing does not
   name it. Docs: "deliberately not killed" (`pid_file.rs:220`).
4. **`Running` for ever** (`core_instance_stuck`). The checkpoint looks at the core
   and writes `Running` afterwards; a core that exits in between leaves the
   waiter's `Stopped` overwritten, and `run()` is refused from then on.
5. **A core survives the drop** (`core_instance_shared`). `run()` borrows the
   instance. Two calls at once both sweep the old pid file before either writes its
   own; the second to store its child overwrites the handle of the first, and the
   drop kills only what is stored (`instance.rs:327`). Docs: "clean-up the instance
   when the manager is dropped" (`instance.rs:392`). With one caller it takes a mishap:
   a sweep or a pid write that fails, a pid still unflushed when the next `run()` reads
   the file, or a `run()` dropped while it writes the pid. The code logs the first two
   and goes on; these are the cores in `slipped`, and no others are lost.

Two smaller ones that no run is spent on. The doc of `read_line` (`io/mod.rs:13`)
says it reads until `\n` or `\r` is reached; the code looks for a `\r` only in a
buffer without `\n`, so `a\rb\n` is one line or two by how the reader buffers it.
And the doc of the builder says `Restarting` is
emitted when restarting after a backoff (`supervisor.rs:292-294`), and the code
emits it before the sleep; the model follows the code.

## 7. What is not modelled

* Configuration and data: builders' setters, `event.rs`, `error.rs`, `definition.rs`,
  `dirs.rs`, what makes a pid record invalid (that it may be refused is modelled),
  decoding of output.
* Single system calls without a protocol: `os/elevated.rs`, the Windows queries,
  `network`, `runtime`, `io/atomic_fs.rs` (whose move without replacement is the
  hard link of `Publish`). `read_line` is a pure loop over buffers.
* Failure of `PidFileGuard::cleanup`, which is best effort: the record is then left for
  the next manager to reap. Legacy numeric pid files of the engine.
* The bytes of a line: the ring of processkit is counted in lines. What it evicts is
  reported to nobody by design (`command.rs` 97-99, 137-144), so nothing is said of it
  but that it is not among what the pump loses.
* Two managers on one record: `EpochPidFile` is documented as owned by one manager
  (`pid_file.rs:16`). Nor the overlap that one manager can make by itself: `wait()`
  returns with the outcome, before the pump has removed the record (`engine.rs`
  487-491), and a `spawn` right then finds the old record, or has its new one
  compared with the old by a cleanup that comes late. Tasks of the model take turns.
  Platforms without pidfd, whose remaining reuse window the
  code documents (`pid_file.rs:213-216`).
* The reuse of pids in `CoreInstance`, whose sweep checks the name of the executable and
  nothing else. The threads that read its pipes, and the order of its events: each line is sent by a task of its own
  (`core/utils.rs:67`), and nothing in the code or its documentation promises one.

## 8. Plan

All of the plan but its last items is done.

1. `Supervisor` with `ManagedChild`, `SupervisorLifecycle` and `Backoff`; safety,
   liveness, refinement; `SupervisorProofs`, `RestartProofs`, `LifecycleProofs`.
2. `ProcessPump`: loss accounting, kills, deadlines, stdin; refinement of
   `ManagedChild`; `PumpProofs`, `ChildProofs`.
3. `EpochPidFile`: recovery across crashes and pid reuse, the end of a reap;
   `PidFileProofs`, `ReapProofs`.
4. `CoreInstance`: threads against state, one caller and two; `CoreProofs`.
5. Left: a spawn right after `wait()` on the same record, and two managers on one, to
   say what the documented ownership is needed for; `read_line` over every split of its
   input into buffers, against its doc.
