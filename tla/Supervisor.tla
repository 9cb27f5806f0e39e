----------------------------- MODULE Supervisor -----------------------------
(***************************************************************************)
(* The supervision loop of process/supervisor.rs and everything that       *)
(* shares state with it: the builder that spawns the first child, the      *)
(* owner of the Supervisor (stop or drop), concurrent acknowledge_ready    *)
(* calls, the caller's cancellation token and the children.                *)
(*                                                                         *)
(* A step of the loop runs up to the next point where another task can     *)
(* interfere.  Code between two such points is one action, also when it    *)
(* holds several accesses that commute with all the other tasks'.  The     *)
(* biased select! of the watching state is polled branch by branch.        *)
(***************************************************************************)
EXTENDS ManagedChild, Backoff, Sequences, FiniteSets

CONSTANTS
  Acknowledged,  \* ReadinessProbe::Acknowledged, otherwise AliveAfter
  RestartNever,  \* RestartPolicy::Never, otherwise OnFailure
  MaxRestarts,   \* OnFailure { max_restarts }
  MaxFailures,   \* RestartStormPolicy { max_failures }
  Window,        \* RestartStormPolicy { window }, in clock ticks
  MaxTime,       \* bound of the model: last value of the clock
  Ackers         \* tasks that call acknowledge_ready, once each

ASSUME SupervisorAssumption ==
  /\ Acknowledged \in BOOLEAN /\ RestartNever \in BOOLEAN
  /\ MaxRestarts \in Nat
  /\ MaxFailures \in Nat \ {0}    \* max_failures.max(1)
  /\ Window \in Nat
  /\ MaxTime \in Nat

VARIABLES
  pc,                 \* where the builder or the loop is
  n,                  \* children spawned so far; the latest is child n
  \* local to one round of watching
  cancelled,          \* the round has reacted to the cancellation
  readiness_pending,
  timer,              \* sleep_until(ready_at) has elapsed
  kill_task,          \* child whose handle the kill task owns, 0 if None
  \* local to the loop
  payload,            \* outcome learnt from the event channel
  attempt,
  abnormal_exits,     \* VecDeque of exit times
  crashes,            \* history: times of all the abnormal exits judged
  \* seen by the hook
  event,              \* last SupervisorEvent
  announced,          \* history: latest child a Started event was emitted for
  delay,              \* delay of the last Restarting event
  \* shared with other tasks
  token,              \* the token is cancelled
  current,            \* Mutex<Option<ProcessHandle>>, 0 if None
  ready_pending,      \* pid that may still be acknowledged, 0 if none
  ready_rx,           \* unbounded channel of acknowledged pids
  now,
  owner, stopping,    \* the owner's call in progress and the handle it took
  acker, ack_pid      \* each acknowledge_ready call and its argument

round == <<cancelled, readiness_pending, timer, kill_task>>
books == <<payload, attempt, abnormal_exits, crashes>>
told == <<event, announced, delay>>
shared == <<token, current, ready_pending, ready_rx>>
calls == <<owner, stopping, acker, ack_pid>>
rest == <<now, calls, childVars>>
vars == <<pc, n, round, books, told, shared, rest>>

PCs == {"new", "first", "greet", "refused", "watch", "ready", "readied", "event",
        "wind_up", "judge", "storm", "count", "backoff", "spawn", "install",
        "announce", "done"}
Watching == {"watch", "ready", "readied", "event"}
Ended == {"done", "refused"}
Events == {"none", "Started", "Ready", "Exited", "Restarting", "GaveUp", "Stopped"}
Owners == {"absent", "held", "taking", "killing", "joining", "returned",
           "closing", "dropped"}
Pids == 0 .. MaxSpawns

TypeOK ==
  /\ ChildTypeOK
  /\ pc \in PCs /\ n \in Pids
  /\ cancelled \in BOOLEAN /\ readiness_pending \in BOOLEAN
  /\ timer \in BOOLEAN /\ kill_task \in Pids
  /\ payload \in Outcomes /\ attempt \in Nat
  /\ abnormal_exits \in Seq(Nat) /\ crashes \in Seq(Nat)
  /\ event \in Events /\ announced \in Pids /\ delay \in Nat
  /\ token \in BOOLEAN /\ current \in Pids /\ ready_pending \in Pids
  /\ ready_rx \in Seq(Children)
  /\ now \in 0 .. MaxTime
  /\ owner \in Owners /\ stopping \in Pids
  /\ acker \in [Ackers -> {"idle", "cas", "send", "true", "false"}]
  /\ ack_pid \in [Ackers -> Pids]

Init ==
  /\ ChildInit
  /\ pc = "new" /\ n = 0
  /\ token \in BOOLEAN      \* the caller's token may be cancelled already
  /\ cancelled = FALSE /\ readiness_pending = TRUE /\ timer = FALSE
  /\ current = 0 /\ ready_pending = 0 /\ kill_task = 0 /\ ready_rx = <<>>
  /\ payload = "unknown" /\ attempt = 0
  /\ abnormal_exits = <<>> /\ crashes = <<>>
  /\ event = "none" /\ announced = 0 /\ delay = 0 /\ now = 0
  /\ owner = "absent" /\ stopping = 0
  /\ acker = [a \in Ackers |-> "idle"] /\ ack_pid = [a \in Ackers |-> 0]

Goto(l) == pc' = l
Emit(e) == event' = e

(***************************************************************************)
(* SupervisorBuilder::spawn: the caller spawns the first child.            *)
(***************************************************************************)
BuilderChecksToken ==
  /\ pc = "new" /\ Goto(IF token THEN "refused" ELSE "first")
  /\ UNCHANGED <<n, round, books, told, shared, rest>>

SpawnOk(from, next) ==
  /\ pc = from /\ n < MaxSpawns
  /\ n' = n + 1 /\ Start(n + 1)
  /\ Goto(next)
  /\ UNCHANGED <<round, books, told, shared, now, calls>>

FirstSpawn == SpawnOk("first", "greet")

FirstSpawnFails ==
  /\ pc = "first" /\ Goto("refused")
  /\ UNCHANGED <<n, round, books, told, shared, rest>>

StoreAndStart ==
  /\ ready_pending' = IF Acknowledged THEN n ELSE ready_pending
  /\ Emit("Started") /\ announced' = n
  /\ Goto("watch")

\* Nobody can acknowledge or stop before the Supervisor is returned.
FirstStarted ==
  /\ pc = "greet" /\ StoreAndStart
  /\ current' = n
  /\ owner' = "held"
  /\ UNCHANGED <<n, round, books, delay, token, ready_rx, now, stopping, acker, ack_pid,
                 childVars>>

(***************************************************************************)
(* Watching a child.  "watch" polls the token, "ready" the readiness probe *)
(* and "event" the child's event channel; a miss goes to the next branch.  *)
(***************************************************************************)
ForgetHandle == kill_task' = 0       \* mutant: the handle is just dropped
TakeForKill == kill_task' = current

PollCancelled ==
  /\ pc = "watch"
  /\ \/ /\ token /\ ~cancelled
        /\ cancelled' = TRUE /\ readiness_pending' = FALSE
        /\ TakeForKill /\ current' = 0
        /\ UNCHANGED <<pc, timer>>
     \/ /\ ~token \/ cancelled
        /\ Goto("ready") /\ UNCHANGED <<round, current>>
  /\ UNCHANGED <<n, books, told, token, ready_pending, ready_rx, rest>>

\* Found alive under the lock, and supervision still wanted just after.
PassesAnyPid(pid) == current # 0 /\ ~watch[current] /\ ~token        \* mutant
Passes(pid) == pid # 0 /\ current = pid /\ ~watch[pid] /\ ~token

\* AliveAfter: the probe is spent whether or not the child is found alive.
PollTimer ==
  /\ pc = "ready" /\ ~Acknowledged
  /\ \/ /\ readiness_pending /\ timer
        /\ readiness_pending' = FALSE
        /\ Goto(IF Passes(current) THEN "readied" ELSE "watch")
     \/ /\ ~readiness_pending \/ ~timer
        /\ Goto("event") /\ UNCHANGED readiness_pending
  /\ UNCHANGED <<n, cancelled, timer, kill_task, books, told, shared, rest>>

\* Acknowledged: a pid that is not the current live child is discarded; recv
\* is None once every sender is gone.
PollAcknowledged ==
  /\ pc = "ready" /\ Acknowledged
  /\ \/ /\ readiness_pending /\ ready_rx # <<>>
        /\ ready_rx' = Tail(ready_rx)
        /\ readiness_pending' = ~Passes(Head(ready_rx))
        /\ Goto(IF Passes(Head(ready_rx)) THEN "readied" ELSE "watch")
     \/ /\ readiness_pending /\ ready_rx = <<>> /\ owner = "dropped"
        /\ readiness_pending' = FALSE
        /\ Goto("watch") /\ UNCHANGED ready_rx
     \/ /\ readiness_pending => ready_rx = <<>> /\ owner # "dropped"
        /\ Goto("event") /\ UNCHANGED <<readiness_pending, ready_rx>>
  /\ UNCHANGED <<n, cancelled, timer, kill_task, books, told, token, current,
                 ready_pending, rest>>

ForgetStorm == abnormal_exits' = <<>>       \* mutant: Ready forgives everything
KeepStorm == UNCHANGED abnormal_exits

\* By now the child may have died and supervision may have been cancelled.
BecomeReady ==
  /\ pc = "readied"
  /\ attempt' = 0 /\ KeepStorm
  /\ Emit("Ready") /\ Goto("watch")
  /\ UNCHANGED <<n, round, payload, crashes, announced, delay, shared, rest>>

\* Output events are forwarded and change nothing; a closed channel counts as
\* an exit with no code.
WatchIsSet == watch[n]                      \* mutant: the loop trusts the watch
TerminatedOnly == phase[n] # "lost" /\ phase[n] \in Over   \* mutant: a closed channel is ignored
ChannelOver == phase[n] \in Over

PollEvent ==
  /\ pc = "event"
  /\ \/ /\ ChannelOver
        /\ payload' = IF phase[n] = "delivered" THEN outcome[n] ELSE "unknown"
        /\ Goto("wind_up")
     \/ /\ ~ChannelOver
        /\ Goto("watch") /\ UNCHANGED payload
  /\ UNCHANGED <<n, round, attempt, abnormal_exits, crashes, told, shared, rest>>

(***************************************************************************)
(* The child is over.                                                      *)
(***************************************************************************)
WindUp ==
  /\ pc = "wind_up"
  /\ kill_task # 0 => asked[kill_task] /\ watch[kill_task]     \* task.await
  /\ kill_task' = 0 /\ current' = 0 /\ ready_pending' = 0
  /\ Emit("Exited") /\ Goto("judge")
  /\ UNCHANGED <<n, cancelled, readiness_pending, timer, books, announced, delay,
                 token, ready_rx, rest>>

SeenByTheLoop == cancelled             \* mutant: the token is not read again
Interrupted == cancelled \/ token

NoRestart == payload = "clean" \/ RestartNever

\* pop_front while the front is older than the window: the times never decrease.
Expired(times) == {i \in DOMAIN times : now - times[i] > Window}

Judge ==
  /\ pc = "judge"
  /\ \/ /\ Interrupted
        /\ Emit("Stopped") /\ Goto("done")
        /\ UNCHANGED <<abnormal_exits, crashes>>
     \/ /\ ~Interrupted /\ NoRestart
        /\ Goto("done")
        /\ UNCHANGED <<event, abnormal_exits, crashes>>
     \/ /\ ~Interrupted /\ ~NoRestart
        /\ LET times == Append(abnormal_exits, now)
           IN abnormal_exits' = SubSeq(times, Cardinality(Expired(times)) + 1, Len(times))
        /\ crashes' = Append(crashes, now)
        /\ Goto("storm") /\ UNCHANGED event
  /\ UNCHANGED <<n, round, payload, attempt, announced, delay, shared, rest>>

StormGuard ==
  /\ pc = "storm"
  /\ \/ Len(abnormal_exits) >= MaxFailures /\ Emit("GaveUp") /\ Goto("done")
     \/ Len(abnormal_exits) < MaxFailures /\ Goto("count") /\ UNCHANGED event
  /\ UNCHANGED <<n, round, books, announced, delay, shared, rest>>

(***************************************************************************)
(* Restarting.                                                             *)
(***************************************************************************)
OneTooMany == attempt > MaxRestarts    \* mutant: tested before counting
Exhausted == attempt + 1 > MaxRestarts

DelayOfTheNext == DelayFor(attempt + 1)     \* mutant: the first restart counts
Delays == DelayFor(attempt)

CountAttempt ==
  /\ pc = "count"
  /\ attempt' = attempt + 1
  /\ \/ Exhausted /\ Emit("GaveUp") /\ Goto("done") /\ UNCHANGED delay
     \/ ~Exhausted /\ Emit("Restarting") /\ Goto("backoff") /\ delay' \in Delays
  /\ UNCHANGED <<n, round, payload, abnormal_exits, crashes, announced, shared, rest>>

UncheckedGoto(next) == Goto(next) /\ UNCHANGED event     \* mutant
StopOrGoto(next) ==
  \/ token /\ Emit("Stopped") /\ Goto("done")
  \/ ~token /\ Goto(next) /\ UNCHANGED event

\* The sleep ends, by itself or cancelled; the token is read last of all.
SleepBackoff ==
  /\ pc = "backoff" /\ StopOrGoto("spawn")
  /\ UNCHANGED <<n, round, books, announced, delay, shared, rest>>

Respawn == SpawnOk("spawn", "install")

RespawnFails ==
  /\ pc = "spawn" /\ StopOrGoto("count")
  /\ UNCHANGED <<n, round, books, announced, delay, shared, rest>>

SameProbe == timer' = FALSE /\ UNCHANGED readiness_pending           \* mutant
FreshProbe == timer' = FALSE /\ readiness_pending' = TRUE

\* The handle is shared before the token is read; without a Started event when
\* it is cancelled.  The next round starts from fresh local variables.
Install ==
  /\ pc = "install"
  /\ current' = n
  /\ Goto(IF token THEN "watch" ELSE "announce")
  /\ cancelled' = FALSE /\ FreshProbe
  /\ UNCHANGED <<n, kill_task, books, told, token, ready_pending, ready_rx, rest>>

Announce ==
  /\ pc = "announce" /\ StoreAndStart
  /\ UNCHANGED <<n, round, books, delay, token, current, ready_rx, rest>>

(***************************************************************************)
(* The tasks around the loop.                                              *)
(***************************************************************************)
LoopWaits == UNCHANGED <<pc, n, cancelled, readiness_pending, kill_task, books, told>>

TimerFires ==
  /\ pc \in Watching /\ ~Acknowledged /\ ~timer
  /\ timer' = TRUE
  /\ LoopWaits /\ UNCHANGED <<shared, rest>>

Tick ==
  /\ now < MaxTime
  /\ now' = now + 1
  /\ LoopWaits /\ UNCHANGED <<timer, shared, calls, childVars>>

\* The token the caller gave to the builder is cancelled.
CancelToken ==
  /\ ~token
  /\ token' = TRUE
  /\ LoopWaits /\ UNCHANGED <<timer, current, ready_pending, ready_rx, rest>>

\* stop_process, run by the kill task.
KillTaskAsks ==
  /\ kill_task # 0 /\ ~asked[kill_task]
  /\ Ask(kill_task)
  /\ LoopWaits /\ UNCHANGED <<timer, shared, now, calls>>

\* stop and drop consume the Supervisor, acknowledge_ready borrows it: they
\* cannot overlap.
Idle == \A a \in Ackers : acker[a] \notin {"cas", "send"}

OwnerGoes(from, to) ==
  /\ owner = from /\ owner' = to
  /\ LoopWaits /\ UNCHANGED <<timer, ready_pending, ready_rx, now, acker, ack_pid>>

ForgetToken == UNCHANGED token         \* mutant: stop only kills the child
CancelOwnToken == token' = TRUE

StopCancels ==
  /\ Idle /\ OwnerGoes("held", "taking")
  /\ CancelOwnToken
  /\ UNCHANGED <<current, stopping, childVars>>

StopTakes ==
  /\ OwnerGoes("taking", IF current # 0 THEN "killing" ELSE "joining")
  /\ stopping' = current /\ current' = 0
  /\ UNCHANGED <<token, childVars>>

StopAsks ==
  /\ OwnerGoes("killing", "joining")
  /\ Ask(stopping)
  /\ UNCHANGED <<token, current, stopping>>

\* stop_process waits for the watch, then the loop is joined.
StopJoins ==
  /\ OwnerGoes("joining", "returned")
  /\ stopping # 0 => watch[stopping]
  /\ pc = "done"
  /\ stopping' = 0
  /\ UNCHANGED <<token, current, childVars>>

\* Drop::drop cancels the token, then the fields are dropped: ready_tx closes.
DropCancels ==
  /\ Idle /\ OwnerGoes("held", "closing")
  /\ token' = TRUE
  /\ UNCHANGED <<current, stopping, childVars>>

DropCloses ==
  /\ OwnerGoes("closing", "dropped")
  /\ UNCHANGED <<token, current, stopping, childVars>>

AckerGoes(a, from, to) ==
  /\ acker[a] = from /\ acker' = [acker EXCEPT ![a] = to]
  /\ LoopWaits /\ UNCHANGED <<timer, token, current, now, owner, stopping, childVars>>

AckChecks(a, pid) ==
  /\ owner = "held" /\ pid <= n
  /\ AckerGoes(a, "idle", IF current = pid /\ ~watch[pid] THEN "cas" ELSE "false")
  /\ ack_pid' = [ack_pid EXCEPT ![a] = pid]
  /\ UNCHANGED <<ready_pending, ready_rx>>

LoadOnly(a) == ready_pending           \* mutant: a load, not an exchange
Exchanged(a) == IF ready_pending = ack_pid[a] THEN 0 ELSE ready_pending

AckSwaps(a) ==
  /\ AckerGoes(a, "cas", IF ready_pending = ack_pid[a] THEN "send" ELSE "false")
  /\ ready_pending' = Exchanged(a)
  /\ UNCHANGED <<ready_rx, ack_pid>>

SentStore(a) == ready_pending          \* mutant: sends what the exchange left
SentPid(a) == ack_pid[a]

\* The send fails once the loop task is gone: the pid is put back.
AckSends(a) ==
  /\ AckerGoes(a, "send", IF pc = "done" THEN "false" ELSE "true")
  /\ \/ /\ pc # "done"
        /\ ready_rx' = Append(ready_rx, SentPid(a)) /\ UNCHANGED ready_pending
     \/ /\ pc = "done"
        /\ ready_pending' = ack_pid[a] /\ UNCHANGED ready_rx
  /\ UNCHANGED ack_pid

ChildMoves(k) ==
  /\ ChildStep(k)
  /\ LoopWaits /\ UNCHANGED <<timer, shared, now, calls>>

Builder == BuilderChecksToken \/ FirstSpawn \/ FirstSpawnFails \/ FirstStarted
Watch == PollCancelled \/ PollTimer \/ PollAcknowledged \/ BecomeReady \/ PollEvent
Verdict == WindUp \/ Judge \/ StormGuard
Restart == CountAttempt \/ SleepBackoff \/ Respawn \/ RespawnFails \/ Install \/ Announce
Loop == Builder \/ Watch \/ Verdict \/ Restart
OwnerContinues == StopTakes \/ StopAsks \/ StopJoins \/ DropCloses
AckContinues(a) == AckSwaps(a) \/ AckSends(a)

\* The loop has returned and no call is in progress.
Finished ==
  /\ pc \in Ended
  /\ Idle /\ owner \in {"absent", "held", "returned", "dropped"}
  /\ UNCHANGED vars

Next ==
  \/ Loop \/ TimerFires \/ Tick \/ CancelToken \/ KillTaskAsks
  \/ StopCancels \/ DropCancels \/ OwnerContinues
  \/ \E a \in Ackers : AckContinues(a) \/ \E pid \in Children : AckChecks(a, pid)
  \/ \E k \in Children : ChildMoves(k)
  \/ Finished

\* The runtime runs every task that can run and fires its timers, and every
\* child keeps the contract of ManagedChild; nobody has to call or to cancel.
Fairness ==
  /\ WF_vars(Loop) /\ WF_vars(TimerFires) /\ WF_vars(KillTaskAsks)
  /\ WF_vars(OwnerContinues) /\ \A a \in Ackers : WF_vars(AckContinues(a))
  /\ \A k \in Children :
       /\ WF_vars(asked[k] /\ ChildMoves(k) /\ phase[k] \in Alive
                  /\ phase'[k] # phase[k])
       /\ WF_vars(phase[k] = "exited" /\ ChildMoves(k))

Spec == Init /\ [][Next]_vars
FairSpec == Spec /\ Fairness
=============================================================================
