# TLA+ models of ework-runner

ework-runner is a distributed cron. Scheduler processes share a MySQL table of
tasks, take due tasks over with a lease and hand each execution to an executor
process over gRPC; they follow the execution through the states that executors
report, and use completion events on a message queue to finish it, compute the
next trigger and give the lease back. Executors register themselves in etcd and
are found through a resolver and a routing balancer. These modules model that
protocol; TLC checks it on small instances, and TLAPS proves the safety
properties of all of them for every instance.

All paths below are relative to `src/`.

## 1. Inventory of the system

| Component | State it keeps | Operations | Talks to |
|---|---|---|---|
| Task lease: `internal/repository/dao/task.go`, `internal/service/acquirer`, `internal/service/task/service.go` | table `tasks`: status, schedule_node_id, version, utime, next_time | FindScheduleTasks, Acquire, Renew, Release, UpdateNextTime, UpdateStatus | MySQL |
| Scheduler: `internal/service/scheduler/scheduler.go` | fetched batch, context | scheduleLoop, renewLoop, Stop, GracefulStop | lease, runner, picker |
| Runner: `internal/service/runner/normal_task.go`, `internal/service/invoker` | one goroutine per invocation | Run, Retry, Reschedule | lease, execution record, executors |
| Execution record: `internal/service/task/execution_service.go`, `internal/repository/dao/task_execution.go`, `internal/grpc/reporter.go` | table `task_executions`: status, retry_count, next_retry_time, deadline | Create, UpdateState, HandleReports, sendCompletedEvent, the three Find queries | MySQL, event queue |
| Completion events: `internal/event`, `internal/event/complete/consumer.go`, `pkg/mpx/consumer.go` | the queue | Produce, Consume / handleTask | lease, execution record |
| Compensators: `internal/compensator` | the list each round works through | retry, reschedule, interrupt loops | execution record, runner, executors |
| Executor SDK: `sdk/executor/executor.go` | maps `states` and `cancels`, one goroutine per run | Execute, Interrupt, Query, executeTask, reportFinalResult | reporter |
| Retry strategies: `pkg/retry` | retries, maxIntervalReached | NewRetry, NextWithRetries, Next | - |
| Executor picker: `internal/service/picker` | - | Pick | registry |
| Client pool: `pkg/grpc/clients.go` | a client per service | Get | resolver, balancer |
| Routing balancer: `pkg/grpc/balancer` | SubConns, ready SubConns, picker | UpdateClientConnState, UpdateSubConnState, Close, Pick | gRPC |
| Resolver and registry: `pkg/grpc/resolver.go`, `pkg/grpc/registry` | etcd keys, a watch | Register, ListServices, Subscribe, Build, ResolveNow, watch, Close | etcd, gRPC |
| gRPC server: `pkg/grpc/server.go` | listener, session, registration | Serve, Stop, GracefulStop | registry |
| Script runners: `internal/execute`, `internal/grpc/scripts` | temporary files, archive directories | Consume / Receive, Run | Kafka, file system |
| Web, policy, wiring, runner registration, JWT, sqlx, generated code | - | request mapping, I/O | - |

What is hard, and what has to be right:

* **Lease.** Schedulers run without coordination: what one fetched may be
  changed by another one's acquire, by its own renew loop, or by a consumer in
  a third process before it is used. A lease must not be taken from a node that
  renews it, rows must not be left with a wrong owner, next_time must not go
  back, a finished one-time task must stay finished, and a due task must be
  acquired in the end.
* **Execution record.** `UpdateState` decides on a row it read earlier, and most
  of its writes are keyed by id alone; answers, reports, interrupts and
  (repeated) completion events arrive in any order. Retries must stop at the
  limit and pending ones must be served; an ended execution must not run again.
* **Executor.** Requests are served concurrently over two maps; one execution
  should have one run, Interrupt must reach it, and what the executor says about
  its end must have happened.
* **Dispatch.** Which executor gets an execution, a retry, a reschedule or an
  interrupt depends on connections, on the recorded node and on what the map of
  that executor holds; a record must not stay behind without a reason.
* **Discovery and routing.** Lists, watches, connectivity callbacks and calls
  are asynchronous: the list gRPC has may be older than the registry, and the
  picker older than the connections.
* **Scripts.** Every system call may fail and the process may die between two
  of them; files must be put away and messages answered.
* **Crashes, clock skew, lost or repeated messages** touch most of this.

`PROJECT.json` lists every hazard with its line and the properties that cover it.

## 2. The modules

```
Lease  <--- TaskLease  <------ MCTaskLease        lease, scheduler loops, consumer
              ^-- TaskLeaseProofs
ExecutionState <-------------- MCExecutionState   UpdateState, events, compensators
              ^-- ExecutionStateProofs
Executor <-------------------- MCExecutor         one executor process
              ^-- ExecutorProofs
RoutingPicker <-- Dispatch <-- MCDispatch         one execution among executors
      |                ^-- DispatchProofs
      +---- RoutingBalancer <- MCRoutingBalancer  SubConns and pickers
                       ^-- RoutingBalancerProofs
Discovery <------------------- MCDiscovery        servers, etcd, resolver
              ^-- DiscoveryProofs
Scripts <--------------------- MCScripts          worker and script handlers
              ^-- ScriptsProofs
RetryBackoff <---------------- MCRetryBackoff     length of the waits
              ^-- RetryBackoffProofs
```

`TaskLease` implements `Lease` (`INSTANCE ... WITH`). `Dispatch` composes the
runner, the compensators, the record and several executors with larger steps
than `ExecutionState` and `Executor`, which have the statements and the map
accesses inside them. `RoutingPicker` is the pure algorithm that `Dispatch` and
`RoutingBalancer` share.

### TaskLease and Lease

One process per scheduler node; every SQL statement or transaction is one
action, and what a process reads in one statement and uses in the next is in
variables of its own.

| Variable | Code |
|---|---|
| `clock`, `Skew[n]` | `time.Now()` on node n is `clock + Skew[n]` |
| `task[t]` | the row of t: type, status, schedule_node_id, version, utime, next_time |
| `up[n]` | process running, context cancelled (`Stop`), or dead |
| `batch[n]` | what is left of `tasks` in `scheduleLoop`: id and fetched version |
| `holding[n]` | the task acquired in `Run` until `handleNormalTask` has created the record |
| `execs` | execution records with their completion events (sent, queued, consumed) |
| `consumer[n]` | `handleTask` / `UpdateNextTime` between two statements |
| `expiries` | history: tasks once taken over with an expired lease |

`FetchBatch`, `AcquireTask`, `CreateExecution`/`CreateFails` are the schedule
loop; `Renew` the renew loop; `TakeEvent`, `Decide`, then `Deactivate` or
`AdvanceNextTime`, then `ReleaseLease` the consumer, each of which may fail
(`HandlingFails`) and so drop the message. `Complete` and `LoseEvent` stand for
everything that produces or loses a completion event. `Stop`, `Crash` and
`Restart` are the life of the process; its node ID is configured, so it comes
back under the same identity. Cron is an arbitrary function with what the
library promises (`CronAssumption`): strictly later, monotone, and a task whose
expression never fires is not created.

`Lease` is what the table promises, without versions, snapshots and consumers:
a task is granted when due and free, or taken from a node that was silent for
the timeout; it is renewed, given back, moved and retired. The mapping takes the
holder from status and schedule_node_id together (`HolderOf`), the last sign of
life from utime, the due time from next_time.

### ExecutionState

The record of each execution, with time kept as two facts ("next_retry_time has
come", "the deadline has passed"). A call of `UpdateState` is a slot in `calls`:
`BeginCall` is its read and decision, and `SetRunningState`,
`UpdateRetryResult`, `UpdateScheduleResult`, `SendCompletedEvent` are the
statements that follow; `CallFails` is any of them failing, or the process dying.
Calls start from the answer of an invocation (`Answer`), from the reporter
(`Report`) or from the interrupt compensator (`Interrupt`). Executors are the
environment: whatever was sent to one may be reported in any state, repeatedly.
Reporting the progress of a running execution changes nothing modelled. The
three compensators of every scheduler fetch a list (`FindExecutions`) and work
it off (`Redispatch`, `Interrupt`, `InterruptFails`) on rows that may have
changed since. A list is a batch (`Batches`, `BatchSize`): the query for
reschedules is ordered by utime, of which `older` keeps what that query sees, and
the query for retries has no order. An invocation writes nothing: a record whose
RPC fails keeps its place at the head of the list.

`UpdateRetryResult` passes the schedule parameters as a bare map
(`internal/repository/dao/task_execution.go:214`), where `UpdateScheduleResult`
wraps them in a `JSONColumn` (`:289`). The database layer may well refuse that
statement, each time the execution has parameters; the model leaves open whether
it does (`UNCHANGED row`), and Dispatch counts it as a loss.

### Executor

`Execute` allocates a state object and starts one run with it, so `runs[k]` is
both; `states[e]` and `cancels[e]` are the maps. The load, the store and the
start in `Execute` are three actions, and so are the load, the store and the
report in `reportFinalResult`; answers of `Execute` and `Query` are marshalled
from the object after the handler has returned the pointer. The TaskHandler
interface gives handlers no access to `runCtx`, so a cancelled handler ends when
it ends and only then counts as interrupted.

### Dispatch

One execution of one service. `row` and `events` are the record and the queue,
`states[n]` and `run[n]` what executor n holds and does, `ready` the executors
that are up and connected, `calls` the RPCs.

| Action | Code |
|---|---|
| `Run` | `newContext` with the picker's choice, `handleNormalTask` |
| `Retry`, `Reschedule`, `Interrupt` | the runner and the compensators: excluding the recorded node, asking for it, asking for any |
| `Serve`, `Marshal`, `Return`, `CallFails` | the routing picker and the RPC, its answer leaving the executor, `UpdateState` in the goroutine, any error |
| `HandlerReturns`, `ReportFinal` | `executeTask` and the report that changes the record |
| `ConsumeEvent` | the completion consumer: the final state, and no node |
| `Connect`, `Disconnect` | a connection is made in the background, or breaks |
| `Die` | an executor restarts and its maps are empty |

At the start any executor may still be without a connection. `losses` counts and
bounds what goes wrong; `reasons` remembers why a record may stay behind:
something lost, retries used up, an answer overtaken by a report, or no connection
to the node a call named. `Explains` says which reason counts in which state.

### Discovery

`server[s]` and `key[k]` are the processes and the keys in etcd: `StartServer`
resolves the advertised address and registers under a session, `StopServer`
unregisters, `Die` leaves the key until `ExpireLease`. A lease may expire under
a living process. On the client side `Build` is the first list, `Subscribe` the
watch, `WatchEvent` and `ResolveNow` start lists in two goroutines
(`ListServices` reads, `UpdateState` hands the answer, or the empty list after an
error, to gRPC). etcd's revisions (`rev`) date the answers.

### RoutingPicker, RoutingBalancer

`Pick` chooses the specific node, or any ready one but the excluded, falling
back as the code does. `RoutingBalancer` receives address lists and state changes
one at a time through gRPC's serializer (`callbacks`), while connections move
(`ConnMoves`) and calls pick from the last published picker. Addresses carry
attributes that every `resolve` allocates, so a list makes every address new.

### Scripts

Jobs of two kinds, messages of the older worker and executions of the script
handlers, share temporary files and an archive named by task and second. Each
system call is a step that may fail; `GivesUp` is what each kind then does.
`Workers` goroutines take the messages (five in the code); one that cannot be
parsed is consumed and dropped, and a script keeps its worker until it ends, which
may be never, since it runs without a context or a timeout. The worker dies of a nil command for an unknown language and of a nil file
(`ProcessDies`), and the broker delivers its messages again.

### RetryBackoff

Integers of `Width` bits with wrap-around, and `Power` for the conversion of a
large float. A strategy comes in two uses: fresh for each report
(`UpdateRetryState`), and kept (`NextInterval`), fixed or exponential. The
program only uses the first, exponential; the second is the library's interface.

## 3. What is checked

| Run | Module / cfg | Properties | Bounds |
|---|---|---|---|
| `lease` | MCTaskLease, TaskLease.cfg | `TypeOK`, `LeaseHasOwner`, `SnapshotSound`, `OverlapExplained`, `LeaseNotStolen`, `NextTimeMonotone`, `ImplementsLease`, `InactiveIsFinal`, `DueIsAcquired` | 2 nodes, 1 task of either type, time 0..3, timeout 2, 5 versions, 2 executions with 1 event each, equal clocks, fairness |
| `execution` | MCExecutionState, ExecutionState.cfg | `TypeOK`, `RetryCountBounded`, `StatusWasReported`, `NoRestartAfterEnd`, `RetryIsServed`, `RescheduleIsServed` | 2 executions, 1 scheduler, lists of 1, 1 call at a time, 1 retry; both kinds of failure reported for either, RUNNING and SUCCESS for one; fairness |
| `executor` | MCExecutor, Executor.cfg | `TypeOK`, `ToldWasDecided`, `OneLiveRun`, `RunIsInterruptible`, `AcceptedIsSettled` | 1 execution, 2 requests, 2 interrupts, 2 runs, fairness |
| `dispatch` | MCDispatch, Dispatch.cfg | `TypeOK`, `SecondNodeIsRetry`, `RunningIsExplained`, `EndsUnlessExplained` | 2 executors, any of them connected at the start, 2 RPCs at a time, 1 retry, 1 loss, fairness |
| `discovery` | MCDiscovery, Discovery.cfg | `TypeOK`, `ServingIsRegistered`, `SettledIsCurrent`, `ChangeIsFollowed`, `DeadIsForgotten` | a server of the service that starts twice, one of a service whose name extends it; 1 fault, 1 ResolveNow, 1 build, fairness |
| `balancer` | MCRoutingBalancer, RoutingBalancer.cfg | `TypeOK`, `OneConnPerNode`, `DeliveredPickerIsCurrent`, `RemovedIsNotCalled` | 2 nodes, 1 call at a time, 3 lists, 1 broken connection |
| `scripts` | MCScripts, Scripts.cfg | `TypeOK`, `LeftoverIsExplained`, `ArchiveIsWhole`, `MessageIsAnswered` | 2 jobs out of 9 requests, 1 worker, 2 deliveries, 2 seconds, 1 fault, fairness |
| `backoff` | MCRetryBackoff, RetryBackoff.cfg | `TypeOK`, `WaitIsBounded`, `ShrinkIsOverflow` | 8-bit durations, 2 units a millisecond, intervals 0..60 and 64, 78, 100, 127, 128, 130, limits -1, 0, 2, 5, nine calls |

The properties in words:

* `LeaseHasOwner`: PREEMPTED rows name a node, ACTIVE rows name none.
* `SnapshotSound`: as long as the version is the fetched one, the row is still
  due for the node that fetched it, so checking id and version in `Acquire` is
  enough.
* `LeaseNotStolen`: a lease moves to another node only if it had expired by that
  node's clock; a renewal in time always wins.
* `OverlapExplained`: two unfinished executions of a task exist only after a
  takeover of an expired lease or a completion event handled twice.
* `NextTimeMonotone`: next_time never goes back while the clocks agree. With
  skewed clocks a slower node may write an earlier instant (TLC finds it in a few
  steps), so the run has equal clocks; what does not need them is proved for any
  skew.
* `InactiveIsFinal`: a finished one-time task is never scheduled again.
* `ImplementsLease`: the table is a `Lease`.
* `DueIsAcquired`: as long as one scheduler stays up, a due task or an expired
  lease is acquired, however many of its snapshots were stale.
* `RetryCountBounded`, `StatusWasReported`, `NoRestartAfterEnd`: whatever races,
  retry_count respects MaxRetries, the record shows only reported states, and an
  ended execution is never RUNNING again.
* `RetryIsServed`: a record that waits for a retry is invoked again or moves on,
  unless more records wait than the query lists. `RescheduleIsServed`: the same for
  a reschedule, unless a whole batch of others comes before it by utime. Both
  exceptions are real starvation: the query for retries may list the same records
  each time, and records whose RPC keeps failing are never written and stay at the
  head. TLC refutes both properties without the exception.
* `ToldWasDecided`: an end that the scheduler was told of was decided by a run of
  that execution. `AcceptedIsSettled`: every accepted execution reaches a final
  state unless the process restarts. `OneLiveRun`, `RunIsInterruptible`: a second
  run, or a run Interrupt does not find, exists only after two Execute requests
  were served at once.
* `SecondNodeIsRetry`: only a retry takes an execution to a second executor.
  `RunningIsExplained`: a record says RUNNING only while an executor is at it or
  the news of its end is on the way, or for a recorded reason.
  `EndsUnlessExplained`: a due task ends, or is left FAILED_RESCHEDULED, or stays
  in a state for a reason that explains this state: PREPARE for a loss or a missing
  connection, FAILED_RETRYABLE for used up retries. What the comments promise in the
  last case, and of a record that waits for a reschedule, is refuted by runs of its
  own (below).
* `ServingIsRegistered`: a serving server is in the registry under its present
  session, also after a restart before the old lease expired.
  `SettledIsCurrent`: when nothing is in progress gRPC has the present servers,
  except in three ways: the last list failed, an older list arrived last, or the
  change fell between the first list and the watch. `ChangeIsFollowed`: a watched
  change is answered. `DeadIsForgotten`: a dead server leaves the registry.
* `OneConnPerNode`: every connection that was not shut down is tracked, one per
  node. `DeliveredPickerIsCurrent`: once the callbacks are delivered the picker
  has exactly the connections that are up, besides some that were shut down
  (`balancer_ready` shows that they stay).
  `RemovedIsNotCalled`: no new call goes to a node the last list does not have.
* `LeftoverIsExplained`, `ArchiveIsWhole`: leftover files and incomplete
  directories have a named reason. `MessageIsAnswered`: a message of the worker's
  topic gets a result event, unless it cannot be parsed, a system call fails or the
  process dies under it, its own script does not end, or as many scripts as there
  are workers do not end.
* `WaitIsBounded`: a configured maximum bounds every exponential wait and no wait
  is zero.
  `ShrinkIsOverflow`: a record's waits shrink only where the configured first
  interval times the maximum does not fit. No interval is validated, so the first
  one may have wrapped round by itself: with 78 units of 2 (8 bits) it is negative,
  the maximum is waited for, and a later wait is shorter. The intervals of the run
  above 60 are there for this.

Each property has a mutant: a changed definition (a dropped version check, a
missing reset, an off-by-one in the retry limit, a handler that answers early)
under which TLC finds it violated.

### Why the bounds are enough

Two nodes are what every race in the lease needs: a holder and a rival, and a
third party is one of them at another moment. With timeout 2 and time up to 3 a
lease can be taken, renewed, expire and be taken over; five versions cover
acquire, renew, takeover, advance and release. Two executions give overlapping
executions and events out of order; an event of each is enough, since the death of
its consumer repeats it.
`DueIsAcquired` stops where a row has used up its versions, which no trace has
after a single acquisition. The type of a task is a column and chosen at
the start, so the run has tasks of both types; a one-time task whose next_time has
not passed by the consumer's clock is advanced like a recurring one.

The safety properties of ExecutionState are about one record at a time, and a
record is written only by what concerns it. One call of `UpdateState` at a time gives
a stale read against the consumer and the compensators; two calls that race for one
record are in `execution_terminal`, and any number of calls and schedulers in the
proofs. Executions do compete for the lists of the compensators: two of them and lists
of one are the smallest case in which one can keep the other out. For the
competitor failures are all that matters, so nothing else is reported of it
(`EventfulAndFailing`). In the executor
two racing requests are what it takes to replace an entry of a map. In Dispatch
two executors tell "the same" from "another", two RPCs let an answer be overtaken
by a later call, one retry gives the last one and what comes after it, and one
loss is enough since `reasons` remembers it. In Discovery one server that starts twice gives old and new sessions, and the
second one gives changes of the same prefix; a shared address is met by the
restart only. Three lists give an old, a current and a new connection of one
node. Two scripts are what it takes to share a directory or to die together.
Eight bits behave like sixty-four: the power reaches the width, the product wraps
round more than once, and all orders of first interval, maximum and limit occur. The run takes the
conversion of amd64, where too large a float gives the smallest integer
(`Saturates = FALSE`).

### Fairness

No safety property depends on fairness. What the liveness properties assume:

* `TaskLease!FairSpec`: the schedule loop continues after every error (it has no
  exit but a cancelled context), and the transaction that acquires does not fail
  each time it would win. Nothing is assumed of clocks, events and consumers, nor
  that a process restarts.
* `ExecutionState!FairSpec`: goroutines go on, the loops of the compensators
  come round (`for { ... time.After }` in each `Start`) and fetch some batch the
  query allows, time passes, the broker
  delivers and an RPC ends with an answer or an error; nothing is forced to fail
  and no executor to report. Every list of a round is worked off to the end
  because the loops continue after an error.
* `Executor!FairSpec`: requests are served and handlers return; nothing about
  crashes.
* `Dispatch!FairSpec`: a due task is run and the two compensators that
  redispatch come round; an RPC that is under way is served and answered;
  handlers return and report; the broker delivers; as long as there is no
  connection at all, one comes up in the end. No particular executor has to be
  connected, and no interrupt has to be sent.
* `Discovery!FairSpec`: etcd expires the lease of a dead session and delivers
  watch events; the two goroutines of the resolver go on.
* `Scripts!FairSpec`: a free worker takes the messages that wait, and the
  goroutines go on. Nothing is assumed of the script itself.

### Disagreements between the code and its comments

Four runs end in a counterexample to what a comment says; `PROJECT.json` quotes
the lines. Nothing is lost and no connection breaks in those of Dispatch.

| Run | The comment | The code |
|---|---|---|
| `execution_terminal` | a record in a terminal state does not change state (`internal/service/task/execution_service.go:160`) | checked on a stale read; the writes are keyed by id alone |
| `dispatch_reschedule` | an interrupted execution is rescheduled to node B (`api/proto/executor/v1/executor.proto:32`) | it is sent to the recorded node, whose map answers with the ended state; it never runs again though nothing fails |
| `dispatch_exhausted` | at the maximum of retries a completion event is sent and the consumer sets the final state (`internal/service/task/execution_service.go:183`, `:252`), and the query for retries filters it out (`internal/repository/dao/task_execution.go:194`) | `sendCompletedEvent` returns at line 318, since FAILED_RETRYABLE is not terminal, and the query (line 196) does not look at retry_count: the record is invoked in every round, never ends, and the lease is never released |
| `balancer_ready` | `readySCs` holds only READY SubConns, and `UpdateSubConnState` takes removed ones out (`pkg/grpc/balancer/routing_balancer.go:25`, `:60`) | it ignores a SubConn that is not in `scToAddrMap` (line 96), from which the removed one was just deleted |

Two disagreements have no run of their own. The configuration of the retry
compensator has a timeout window for PREPARE (`internal/compensator/retry.go:16`) that
nothing reads, and no query looks at PREPARE: if the node named for the first call
is not in the picker yet (`pkg/grpc/balancer/routing_picker.go:44`) the call fails
(`internal/service/runner/normal_task.go:96`) and the record stays there, although
nothing was lost. Dispatch has the step, and `EndsUnlessExplained` names it
(`unreached`). The comment of `ResolverError`
(`pkg/grpc/balancer/routing_balancer.go:166`) says that gRPC suggests to leave the
connections alone on a resolver error and to wait until the resolver recovers; the
balancer does, but `resolve` goes on after `ReportError` and hands on the empty
list (`pkg/grpc/resolver.go:84`), which shuts every connection down. Discovery has
the step, and `SettledIsCurrent` names it as an exception.

Other behaviour met while modelling, contained in the models and not stated as a
property of its own:

* `next_time < now` (`internal/service/task/service.go:61`) is strict and by the
  consumer's clock: a one-time task that completes at that very instant, or on a
  node whose clock is behind, is triggered again.
* A renewal between the read and the write of `UpdateNextTime`
  (`internal/service/task/service.go:80`) makes the handler fail; the message is
  dropped and the task stays leased.
* `Execute` checks and stores in two steps (`sdk/executor/executor.go:98`), so
  two requests at once start two runs; `OneLiveRun` allows exactly this.
* A node that loses its etcd session while it lives is not registered again
  (`pkg/grpc/server.go:189`), and a cancelled watch is not set up again
  (`pkg/grpc/registry/etcd/registry.go:104`).
* An interrupt names no node (`internal/compensator/interrupt.go:113`) and may come
  to an executor that does not run the execution; the record stays RUNNING as long
  as the run.

## 4. What is proved

Each `...Proofs` module holds the theorems of one component, for every value of
its constants under the assumptions the component's module names
(`LeaseAssumption`, `CronAssumption`, `ExecutionAssumption`, ...): any number of
nodes, tasks, executions, calls, addresses and servers, any skew and timeout,
and any value of the bounds. Nothing else is assumed but where the table says so.

| Module | Theorem | Statement |
|---|---|---|
| TaskLeaseProofs | `TypeCorrect` | `Spec => []TypeOK` |
| | `LeaseOwnership` | `Spec => []LeaseHasOwner` |
| | `SnapshotsAreSound` | `Spec => []SnapshotSound` |
| | `LeasesAreNotStolen` | `Spec => LeaseNotStolen` |
| | `InactiveStaysInactive` | `Spec => InactiveIsFinal` |
| | `OverlapsAreExplained` | `Spec => []OverlapExplained` |
| | `NextTimeDoesNotGoBack` | `ClocksAgree /\ Spec => NextTimeMonotone` |
| | `LeaseRefinement` | `Spec => ImplementsLease` |
| ExecutionStateProofs | `ExecutionTypeCorrect` | `Spec => []TypeOK` |
| | `RetriesAreBounded` | `Spec => []RetryCountBounded` |
| | `StatusesWereReported` | `Spec => []StatusWasReported` |
| | `EndedIsNotRestarted` | `Spec => NoRestartAfterEnd` |
| ExecutorProofs | `ExecutorTypeCorrect` | `Spec => []TypeOK` |
| | `EndsToldWereDecided` | `Spec => []ToldWasDecided` |
| | `OneRunUnlessRaced` | `Spec => []OneLiveRun` |
| | `HandlersAreInterruptible` | `Spec => []RunIsInterruptible` |
| DispatchProofs | `DispatchTypeCorrect` | `Spec => []TypeOK` |
| | `SecondNodeNeedsRetry` | `Spec => []SecondNodeIsRetry` |
| | `RunningHasReason` | `Spec => []RunningIsExplained` |
| RoutingBalancerProofs | `BalancerTypeCorrect` | `Spec => []TypeOK` |
| | `ConnsAreTracked` | `Spec => []OneConnPerNode` |
| | `PickerCatchesUp` | `Spec => []DeliveredPickerIsCurrent` |
| | `CallsGoToListedNodes` | `Spec => RemovedIsNotCalled` |
| DiscoveryProofs | `DiscoveryTypeCorrect` | `Spec => []TypeOK` |
| | `ServersAreRegistered` | `Spec => []ServingIsRegistered` |
| | `SettledListIsCurrent` | `Spec => []SettledIsCurrent` |
| ScriptsProofs | `ScriptsTypeCorrect` | `Spec => []TypeOK` |
| | `LeftoversAreExplained` | `Spec => []LeftoverIsExplained` |
| | `ArchivesAreWhole` | `Spec => []ArchiveIsWhole` |
| RetryBackoffProofs | `BackoffTypeCorrect` | `Spec => []TypeOK` |
| | `WaitsAreBounded` | `Spec => []WaitIsBounded` |
| | `ShrinkingOverflows` | `Spec => ShrinkIsOverflow` |

Every invariant was checked by TLC on the bounds of its run before it was proved.

### The lease

The inductive invariant is `LeaseInv == TypeOK /\ LeaseHasOwner /\
SnapshotSound`. `LeaseHasOwner` alone is not enough for the action properties:
the acquiring statement checks nothing but the version, so to know that it hits
an ACTIVE row or an expired lease one needs `SnapshotSound`, which holds because
every write of a row increments its version (`VersionCounts`) and an unchanged
row can only become more due as time passes (`StaysSchedulable`). The argument
goes through `RowStep`, which says what any step may do to one row: nothing,
acquisition of a schedulable row, renewal by its holder, release of a leased
row, a new next_time, or deactivation (`EveryRowStep`). Each safety theorem then
is a short case analysis over these six cases.

The refinement uses the same cases: `TableStep` says that a step ticks the
clock, renews the rows of one node, or writes one row, and each case of `RowStep`
is one abstract action on the lease that row stands for.

`OverlapExplained` needs to know where the right to run a task is at any moment
(`OverlapInv`): with one acquirer, with one unfinished execution, or with one
handler of a completion, and nowhere while the row is ACTIVE (`Carried`). Each
step hands it on (`CarriedByExecution`, `CarriedByHandler`) or loses it
(`CarriedStays`); a second carrier only comes with one of the explanations.

`NextTimeMonotone` needs `MonotoneInv`: a next_time is never later than the
instant cron gives to whoever asks now (`NotAhead`), and what a consumer computed
is no earlier than the row's next_time as long as the row has the version it
read. The first part is where the hypothesis `ClocksAgree` is needed: with a skew
of one tick TLC finds a consumer on the slow node that writes an earlier instant.

### The execution record

`ExecutionInv` adds two facts to the three invariants. `CallsDecided`: a call
between its read and its write carries a reported state that asks for this write,
and its retry was allowed by the row *it read*, however old that is, which is why
`RetryCountBounded` survives stale writes. `TrafficIsSent`: what is on its way, as an
invocation or an event, belongs to an execution that was sent out, and an event
to a reported state. `NoRestartAfterEnd` follows from the condition on the status in
`SetRunningState`, the one statement that looks at the row.

### The executor

`ExecutorInv` relates runs, objects, maps and requests. `RunsDecide`: a run that
is not over has an entry in the map. `RequestsHold`: the reference to a run that
has not started is with one request only. `OneWorkingRun` is `OneLiveRun` for all
phases but the last, which is what the store of a second request breaks and so
where `raced` is needed. `ObjectsDecided` carries the state from the run that
decided it through `set` and `kept` to any later object of the execution, so
that also an answer read after the handler returned tells a decided end.

### Dispatch

`SecondNodeIsRetry` says nothing of calls, but a call that is sent may go
anywhere. `OneHome`: as long as no retry was written, either nothing was served yet and
at most one Execute is under way, or one node has all the states, the served calls
and the record, and every Execute under way asks for it. `CallsAreServed` and
`EndsAreKept` give a served call a node with a state to answer with.
`RunningIsExplained` is inductive with these.

### Routing and discovery

`PickerCatchesUp` needs what the callbacks that wait will do: `LastNewsIsTrue`
says that the last news of a SubConn in the queue is its real state, and that one
without news is counted as ready exactly if it is. `ListsAreNew` (addresses of a
list that waits have no SubConn yet) and `NewsIsOfConns` keep the queue apart from
the tracked connections. `BalancerAssumption` includes that the set of nodes is
finite, for the picker chooses from a finite list.

`SettledListIsCurrent` needs `AnswersAreTrue` (an answer of the present revision
is the list of the present servers), `GivenIsCounted` (gRPC was given no newer
list than `newest`) and `WatchIsFollowed` (a change the watch covers waits, is
being answered or was answered): when nothing is in progress only the last case is
left, and `newest` is the list gRPC has unless it was overtaken.

### Scripts

Both properties speak of jobs that are over; `ScriptsInv` says of every job
without a fault which of its temporary files are still in use (`TempInUse`: the
code until it is filed, which `ToFileIs` shows is the first entry of the list, the
variables until their entry is reached) and which entries of its list are in the
directory (`FiledAre`). `ArchiveIsOf` says of every archived file whose it is: of a
job of that task whose list names it and that has that second, or was delivered
again. A job whose fault is on record needs no more than its type.

### Retry waits

The provers know nothing of `2^n`, and induction is out of reach, but a power of two
is the number of subsets of a set: `PowerNat` and `PowerSum`
(`2^(m + n) = 2^m * 2^n`, from the bijection that splits a subset of a union) come
from the theorems about cardinalities. `WrapIs` says that what an operation leaves
fits and differs from the exact value by a multiple of `2^Width`.

`WaitIsLast` (the wait of a record is what a fresh strategy gives for its last
retry) makes `ShrinkIsOverflow` a statement about two consecutive retries,
`ShorterOverflows`. Suppose the first interval times the maximum fits. Where the
power still fits (`Uncapped`), product and `2^Width` are multiples of it, so a
positive wait is at least the power; a wait below the maximum then says that the
product fits too, nothing has wrapped round and the wait before was no longer. Where
the power is the extreme a too large float converts to (`Capped`), the
multiplication leaves at least `2^(Width-1) - i + 1` for a first interval `i`, which
is below no maximum that fits with `i`. A first interval that has wrapped by itself
is larger than any Duration, and so is its product with a maximum of at least one.

### Only model-checked

* Liveness: `DueIsAcquired`, `RetryIsServed`, `RescheduleIsServed`,
  `AcceptedIsSettled`, `EndsUnlessExplained`, `ChangeIsFollowed`,
  `DeadIsForgotten`, `MessageIsAnswered`. They rest on fairness, and so on
  ENABLED, which is out of the proof system's reach.

## 5. What is left out, and why

* Names, parameters, progress, schedule parameters, JSON and logging: data no
  property depends on. Milliseconds are ticks.
* Tasks are created before the run starts: creation is one INSERT of a fresh row.
* `UpdateScheduleParams`, `BatchCreate`, `TaskExecutionDAO.UpdateStatus`,
  `FindByPlanID`, `MultipleProducer` and the service's `releaseTask` have no
  caller.
* HTTP and local invokers return no usable state, and a task made by the web
  handler always has a gRPC configuration, which the dispatcher prefers;
  `Prepare` and `ReportProgress` are stubs.
* A nil retry or gRPC configuration makes the code panic; the models assume both
  are set, as the web handler does.
* A task whose execution record can never be created would be released with its
  old next_time and head every batch (`internal/repository/dao/task.go:116`);
  `DueIsAcquired` is checked for one task. The batches of the compensators are
  modelled (`Batches`).
* The broker is at-least-once between producer and consumer and may lose an event
  whose produce failed; its own internals, and those of gRPC, etcd and MySQL, are
  the environment: the map marks their actions external.
* `pkg/registry/etcd` is a second registry of which `main.go` calls only
  `Register`.

Not modelled: the client pool (one load, dial and LoadOrStore: goroutines that
race for the first client of a service all use the stored one, and the losers'
connections stay open), the web handlers, policy checks and wiring (sequential request
mapping; the initial state of a task is taken from the handler), the runner
registration (one request, one event), JWT and sqlx (stateless conversions) and
the generated code.

## 6. Plan

Done: the modules above, and the proofs of section 4. What is left:

1. An abstract specification for a second component: what `Executor` promises for
   one execution (asked, running, ended, told), with `OneLiveRun`'s exception
   as an action of its own.
