------------------------------ MODULE TaskLease ------------------------------
(***************************************************************************)
(* The lease on a row of the tasks table: how scheduler nodes fetch due    *)
(* tasks, take them over with a compare-and-swap on "version", renew them, *)
(* and how the consumer of completion events advances next_time and gives  *)
(* the lease back.                                                         *)
(*                                                                         *)
(* Source: internal/repository/dao/task.go, internal/service/task/         *)
(* service.go, internal/service/scheduler/scheduler.go, internal/service/  *)
(* runner/normal_task.go, internal/event/complete/consumer.go.             *)
(*                                                                         *)
(* One process of the scheduler is a member of Nodes: its schedule loop,   *)
(* its renew loop and its event consumer.  Every SQL statement (or         *)
(* transaction) is one action; what is read in one statement and used in a *)
(* later one is kept in the process's own variables.                       *)
(***************************************************************************)
EXTENDS Integers, Sequences, FiniteSets

CONSTANTS
    Nodes,             \* identities of the scheduler processes (node IDs)
    Tasks,             \* primary keys of the tasks table
    NoNode,            \* SQL NULL in schedule_node_id
    NoTask,            \* "no task at hand" in a schedule loop
    PreemptedTimeout,  \* config PreemptedTimeout: age at which a lease is dead
    BatchSize,         \* config BatchSize: LIMIT of the fetch
    Cron,              \* Cron[t][now]: next instant after now, 0 if none
    Skew,              \* Skew[n]: how far the clock of n is ahead
    MaxSkew,           \* bound of Skew
    MaxTime,           \* bound: the last instant of the run
    MaxVersion,        \* bound: the last version a row reaches
    MaxExecs,          \* bound: executions created in the run
    MaxEvents          \* bound: completion events produced per execution

Instants == 0..(MaxTime + MaxSkew)

ASSUME LeaseAssumption ==
    /\ NoNode \notin Nodes
    /\ NoTask \notin Tasks
    /\ IsFiniteSet(Tasks)
    /\ PreemptedTimeout \in Nat
    /\ BatchSize \in Nat \ {0}
    /\ {MaxSkew, MaxTime, MaxVersion, MaxExecs, MaxEvents} \subseteq Nat
    /\ Skew \in [Nodes -> 0..MaxSkew]

\* What cron's Next promises: a later instant, and never an earlier one for a
\* later question (0 stands for Go's zero time, "never again").
ASSUME CronAssumption ==
    /\ Cron \in [Tasks -> [Instants -> Nat]]
    /\ \A t \in Tasks, now \in Instants :
           Cron[t][now] = 0 \/ Cron[t][now] > now
    /\ \A t \in Tasks, a, b \in Instants :
           a <= b /\ Cron[t][b] # 0 => Cron[t][a] # 0 /\ Cron[t][a] <= Cron[t][b]
    /\ \A t \in Tasks : Cron[t][0] # 0

VARIABLES
    clock,     \* true time; process n reads clock + Skew[n]
    task,      \* the tasks table
    up,        \* process state: "up", "stopped" (context cancelled), "down"
    batch,     \* batch[n]: what is left of the list the schedule loop fetched
    holding,   \* holding[n]: acquired task without an execution record yet
    execs,     \* execution records, with their completion events
    consumer,  \* consumer[n]: the completion event n is handling
    expiries   \* history: tasks whose lease was once found expired

vars == <<clock, task, up, batch, holding, execs, consumer, expiries>>
nodeVars == <<up, batch, holding>>

ACTIVE == "ACTIVE"
PREEMPTED == "PREEMPTED"
INACTIVE == "INACTIVE"

RECURRING == "RECURRING"
ONE_TIME == "ONE_TIME"
Types == {RECURRING, ONE_TIME}

Row == [type : Types, status : {ACTIVE, PREEMPTED, INACTIVE},
        node : Nodes \cup {NoNode}, version : Nat, utime : Nat, nextTime : Nat]

Snapshot == [id : Tasks, version : Nat]

\* "consumed" saturates at 2: handled never, once, or more than once.
Exec == [task : Tasks, node : Nodes \cup {NoNode},
         sent : 0..MaxEvents, queued : Nat, consumed : 0..2]

Phases == {"idle", "loaded", "deactivate", "advance", "release"}

\* What UpdateNextTime uses of the row it has read.
Read == [type : Types, status : {ACTIVE, PREEMPTED, INACTIVE}, version : Nat, nextTime : Nat]

ReadOf(row) == [type |-> row.type, status |-> row.status, version |-> row.version,
                nextTime |-> row.nextTime]

Handling == [phase : Phases, exec : 0..MaxExecs, row : Read, next : Nat]

Now(n) == clock + Skew[n]

----------------------------------------------------------------------------
(* Statements on the tasks table. *)

\* "PREEMPTED but not renewed in time, presumably a zombie".
Expired(row, now) == row.utime <= now - PreemptedTimeout

\* The WHERE clause of FindScheduleTasks, evaluated by a reader whose clock
\* shows now.
Schedulable(row, now) ==
    /\ row.nextTime <= now
    /\ \/ row.status = ACTIVE
       \/ row.status = PREEMPTED /\ Expired(row, now)

\* Every write of the table increments version and stamps utime.
Touched(row, now) == [row EXCEPT !.version = @ + 1, !.utime = now]

AcquiredBy(row, n) == [Touched(row, Now(n)) EXCEPT !.status = PREEMPTED, !.node = n]

Leased(row, n) == row.status = PREEMPTED /\ row.node = n

\* Mutant of Renewed: the renewal stamps utime and keeps the version.
RenewedKeepingVersion(row, n) ==
    IF Leased(row, n) THEN [row EXCEPT !.utime = Now(n)] ELSE row

Renewed(row, n) == IF Leased(row, n) THEN Touched(row, Now(n)) ELSE row

\* Mutant of Released: schedule_node_id is not set back to NULL.
ReleasedKeepingNode(row, now) == [Touched(row, now) EXCEPT !.status = ACTIVE]

Released(row, now) == [Touched(row, now) EXCEPT !.status = ACTIVE, !.node = NoNode]

Advanced(row, next, now) == [Touched(row, now) EXCEPT !.nextTime = next]

\* Mutant of Deactivated: a status write that does not count as a change.
DeactivatedKeepingVersion(row, now) == [row EXCEPT !.status = INACTIVE, !.utime = now]

Deactivated(row, now) == [Touched(row, now) EXCEPT !.status = INACTIVE]

MayWrite(t) == task[t].version < MaxVersion

----------------------------------------------------------------------------
Idle == [phase |-> "idle", exec |-> 0, next |-> 0,
         row |-> [type |-> RECURRING, status |-> ACTIVE, version |-> 0, nextTime |-> 0]]

\* The web handler creates tasks of either type, ACTIVE with version 1, and Create computes the
\* first next_time (CronAssumption: it refuses an expression that never fires).
Init ==
    /\ clock = 0
    /\ \E types \in [Tasks -> Types] :
           task = [t \in Tasks |-> [type |-> types[t], status |-> ACTIVE, node |-> NoNode,
                                    version |-> 1, utime |-> 0, nextTime |-> Cron[t][0]]]
    /\ up = [n \in Nodes |-> "up"]
    /\ batch = [n \in Nodes |-> <<>>]
    /\ holding = [n \in Nodes |-> NoTask]
    /\ execs = <<>>
    /\ consumer = [n \in Nodes |-> Idle]
    /\ expiries = {}

Tick ==
    /\ clock < MaxTime
    /\ clock' = clock + 1
    /\ UNCHANGED <<task, nodeVars, execs, consumer, expiries>>

----------------------------------------------------------------------------
(* The schedule loop and the renew loop of a scheduler process. *)

Due(n) == {t \in Tasks : Schedulable(task[t], Now(n))}

\* ORDER BY next_time LIMIT BatchSize: the answers the database may give.
Batches(due) ==
    LET size == IF Cardinality(due) <= BatchSize THEN Cardinality(due) ELSE BatchSize
        before(t, u) == task[t].nextTime <= task[u].nextTime
    IN  {s \in [1..size -> due] :
            /\ \A i, j \in 1..size : i < j => s[i] # s[j] /\ before(s[i], s[j])
            /\ \A i \in 1..size, t \in due :
                   (\A j \in 1..size : s[j] # t) => before(s[i], t)}

FetchBatch(n) ==
    /\ up[n] = "up" /\ batch[n] = <<>> /\ holding[n] = NoTask
    /\ Due(n) # {}
    /\ \E s \in Batches(Due(n)) :
           batch' = [batch EXCEPT ![n] =
                        [i \in DOMAIN s |-> [id |-> s[i], version |-> task[s[i]].version]]]
    /\ UNCHANGED <<clock, task, up, holding, execs, consumer, expiries>>

\* Mutant of AcquireTask: the UPDATE is keyed by id alone.
AcquireAnyVersion(n) ==
    /\ up[n] = "up" /\ batch[n] # <<>> /\ holding[n] = NoTask
    /\ LET id == Head(batch[n]).id
           row == task[id]
       IN  /\ MayWrite(id)
           /\ task' = [task EXCEPT ![id] = AcquiredBy(row, n)]
           /\ holding' = [holding EXCEPT ![n] = id]
           /\ expiries' = IF row.status = PREEMPTED /\ Expired(row, Now(n))
                          THEN expiries \cup {id} ELSE expiries
    /\ batch' = [batch EXCEPT ![n] = Tail(@)]
    /\ UNCHANGED <<clock, up, execs, consumer>>

\* Mutant of AcquireTask: the loop tries a stale snapshot until it is won.
AcquireUntilWon(n) ==
    /\ up[n] = "up" /\ batch[n] # <<>> /\ holding[n] = NoTask
    /\ LET e == Head(batch[n])
           row == task[e.id]
       IN  /\ row.version = e.version /\ MayWrite(e.id)
           /\ task' = [task EXCEPT ![e.id] = AcquiredBy(row, n)]
           /\ holding' = [holding EXCEPT ![n] = e.id]
           /\ expiries' = IF row.status = PREEMPTED /\ Expired(row, Now(n))
                          THEN expiries \cup {e.id} ELSE expiries
    /\ batch' = [batch EXCEPT ![n] = Tail(@)]
    /\ UNCHANGED <<clock, up, execs, consumer>>

\* Run takes the next snapshot of the batch; the lease is won only if the row
\* still has the version that was fetched, and the transaction may fail.
AcquireTask(n) ==
    /\ up[n] = "up" /\ batch[n] # <<>> /\ holding[n] = NoTask
    /\ LET e == Head(batch[n])
           row == task[e.id]
       IN  \/ /\ row.version = e.version /\ MayWrite(e.id)
              /\ task' = [task EXCEPT ![e.id] = AcquiredBy(row, n)]
              /\ holding' = [holding EXCEPT ![n] = e.id]
              /\ expiries' = IF row.status = PREEMPTED /\ Expired(row, Now(n))
                             THEN expiries \cup {e.id} ELSE expiries
           \/ UNCHANGED <<task, holding, expiries>>
    /\ batch' = [batch EXCEPT ![n] = Tail(@)]
    /\ UNCHANGED <<clock, up, execs, consumer>>

\* The repository reads the task row again and copies it into the execution,
\* so that the recorded schedule node is the one of the row at this moment.
CreateExecution(n) ==
    /\ up[n] # "down" /\ holding[n] # NoTask
    /\ Len(execs) < MaxExecs
    /\ execs' = Append(execs, [task |-> holding[n], node |-> task[holding[n]].node,
                               sent |-> 0, queued |-> 0, consumed |-> 0])
    /\ holding' = [holding EXCEPT ![n] = NoTask]
    /\ UNCHANGED <<clock, task, up, batch, consumer, expiries>>

\* Create failed: the runner releases the lease in its own name.  The release
\* may fail as well (always so under a cancelled context) and is only logged.
CreateFails(n) ==
    /\ up[n] # "down" /\ holding[n] # NoTask
    /\ LET t == holding[n]
       IN  \/ /\ up[n] = "up" /\ Leased(task[t], n) /\ MayWrite(t)
              /\ task' = [task EXCEPT ![t] = Released(@, Now(n))]
           \/ UNCHANGED task
    /\ holding' = [holding EXCEPT ![n] = NoTask]
    /\ UNCHANGED <<clock, up, batch, execs, consumer, expiries>>

\* One statement renews every row the node holds.
Renew(n) ==
    /\ up[n] = "up"
    /\ \E t \in Tasks : Leased(task[t], n)
    /\ \A t \in Tasks : Leased(task[t], n) => MayWrite(t)
    /\ task' = [t \in Tasks |-> Renewed(task[t], n)]
    /\ UNCHANGED <<clock, nodeVars, execs, consumer, expiries>>

\* Stop and GracefulStop only cancel the context: leases are kept.
Stop(n) ==
    /\ up[n] = "up"
    /\ up' = [up EXCEPT ![n] = "stopped"]
    /\ batch' = [batch EXCEPT ![n] = <<>>]
    /\ UNCHANGED <<clock, task, holding, execs, consumer, expiries>>

\* The process dies.  The broker may deliver the event it was handling again.
Crash(n) ==
    /\ up[n] # "down"
    /\ up' = [up EXCEPT ![n] = "down"]
    /\ batch' = [batch EXCEPT ![n] = <<>>]
    /\ holding' = [holding EXCEPT ![n] = NoTask]
    /\ consumer' = [consumer EXCEPT ![n] = Idle]
    /\ \/ UNCHANGED execs
       \/ /\ consumer[n].phase # "idle"
          /\ execs' = [execs EXCEPT ![consumer[n].exec].queued = @ + 1]
    /\ UNCHANGED <<clock, task, expiries>>

\* The node ID is configured, so a process comes back under the same identity.
Restart(n) ==
    /\ up[n] = "down"
    /\ up' = [up EXCEPT ![n] = "up"]
    /\ UNCHANGED <<clock, task, batch, holding, execs, consumer, expiries>>
----------------------------------------------------------------------------
(* Completion events: where they come from and how a consumer handles one. *)

\* Somebody (the answer of Execute, a Report, an interrupt) found execution e
\* finished and produced a completion event: more than once is possible.
Complete(e) ==
    /\ execs[e].sent < MaxEvents
    /\ execs' = [execs EXCEPT ![e].sent = @ + 1, ![e].queued = @ + 1]
    /\ UNCHANGED <<clock, task, nodeVars, consumer, expiries>>

\* Mutant of LoseEvent: an event that was already taken is dropped again.
LoseTakenEvent(e) ==
    /\ execs[e].sent > 0
    /\ execs' = [execs EXCEPT ![e].queued = @ - 1]
    /\ UNCHANGED <<clock, task, nodeVars, consumer, expiries>>

\* A produce error is logged and a failed first write drops the message: in
\* both cases the event is gone before it touched anything.
LoseEvent(e) ==
    /\ execs[e].queued > 0
    /\ execs' = [execs EXCEPT ![e].queued = @ - 1]
    /\ UNCHANGED <<clock, task, nodeVars, consumer, expiries>>

Handles(n, phase) == up[n] # "down" /\ consumer[n].phase = phase

To(n, phase) == [consumer EXCEPT ![n].phase = phase]

Done(n) == [consumer EXCEPT ![n] = Idle]

\* handleTask: the execution is marked finished and UpdateNextTime reads the
\* task row.
TakeEvent(n, e) ==
    /\ Handles(n, "idle")
    /\ execs[e].queued > 0
    /\ execs' = [execs EXCEPT ![e].queued = @ - 1,
                              ![e].consumed = IF @ = 0 THEN 1 ELSE 2]
    /\ consumer' = [consumer EXCEPT ![n] =
                       [phase |-> "loaded", exec |-> e, row |-> ReadOf(task[execs[e].task]), next |-> 0]]
    /\ UNCHANGED <<clock, task, nodeVars, expiries>>

TaskOf(n) == execs[consumer[n].exec].task

\* A one-time task whose next_time is past has run.
Finished(row, now) == row.type = ONE_TIME /\ row.nextTime > 0 /\ row.nextTime < now

\* CalculateNextTime: zero for a finished one-time task, else what cron says.
NextTime(t, row, now) ==
    IF row.type = ONE_TIME /\ row.status = INACTIVE THEN 0 ELSE Cron[t][now]

\* UpdateNextTime looks at its clock and decides what to write.  Without a next
\* time the row it has read is returned as it is.
Decide(n) ==
    /\ Handles(n, "loaded")
    /\ LET row == consumer[n].row
           next == NextTime(TaskOf(n), row, Now(n))
       IN  consumer' =
              IF Finished(row, Now(n)) THEN To(n, "deactivate")
              ELSE IF next # 0
                   THEN [consumer EXCEPT ![n].phase = "advance", ![n].next = next]
              ELSE IF row.status = PREEMPTED THEN To(n, "release")
              ELSE Done(n)
    /\ UNCHANGED <<clock, task, nodeVars, execs, expiries>>

\* UpdateStatus: by primary key only, whatever became of the row.
Deactivate(n) ==
    /\ Handles(n, "deactivate") /\ MayWrite(TaskOf(n))
    /\ task' = [task EXCEPT ![TaskOf(n)] = Deactivated(@, Now(n))]
    /\ consumer' = Done(n)
    /\ UNCHANGED <<clock, nodeVars, execs, expiries>>

\* Mutant of AdvanceNextTime: the write is not conditional on the version.
AdvanceAnyVersion(n) ==
    /\ Handles(n, "advance") /\ MayWrite(TaskOf(n))
    /\ LET t == TaskOf(n)
       IN  /\ task' = [task EXCEPT ![t] = Advanced(@, consumer[n].next, Now(n))]
           /\ consumer' = IF task[t].status = PREEMPTED THEN To(n, "release") ELSE Done(n)
    /\ UNCHANGED <<clock, nodeVars, execs, expiries>>

\* UpdateNextTime's write, conditional on the version that was read.  On a
\* conflict the handler fails and the message is dropped.
AdvanceNextTime(n) ==
    /\ Handles(n, "advance")
    /\ LET t == TaskOf(n)
       IN  \/ /\ task[t].version = consumer[n].row.version /\ MayWrite(t)
              /\ task' = [task EXCEPT ![t] = Advanced(@, consumer[n].next, Now(n))]
              /\ consumer' = IF task[t].status = PREEMPTED THEN To(n, "release") ELSE Done(n)
           \/ /\ task[t].version # consumer[n].row.version
              /\ UNCHANGED task
              /\ consumer' = Done(n)
    /\ UNCHANGED <<clock, nodeVars, execs, expiries>>

\* Release on behalf of the schedule node recorded in the execution.
ReleaseLease(n) ==
    /\ Handles(n, "release")
    /\ LET t == TaskOf(n)
           owner == execs[consumer[n].exec].node
           mine == owner # NoNode /\ Leased(task[t], owner)
       IN  \/ /\ mine /\ MayWrite(t)
              /\ task' = [task EXCEPT ![t] = Released(@, Now(n))]
           \/ /\ ~mine
              /\ UNCHANGED task
    /\ consumer' = Done(n)
    /\ UNCHANGED <<clock, nodeVars, execs, expiries>>

\* Any statement may fail; the handler returns the error and the consume loop
\* logs it and goes on to the next message.
HandlingFails(n) ==
    /\ up[n] # "down" /\ consumer[n].phase # "idle"
    /\ consumer' = Done(n)
    /\ UNCHANGED <<clock, task, nodeVars, execs, expiries>>

----------------------------------------------------------------------------
Scheduling(n) ==
    \/ FetchBatch(n) \/ AcquireTask(n) \/ CreateExecution(n) \/ CreateFails(n)
    \/ Renew(n) \/ Stop(n) \/ Crash(n) \/ Restart(n)

Consuming(n) ==
    \/ \E e \in DOMAIN execs : TakeEvent(n, e)
    \/ Decide(n) \/ Deactivate(n) \/ AdvanceNextTime(n) \/ ReleaseLease(n)
    \/ HandlingFails(n)

Next ==
    \/ Tick
    \/ \E n \in Nodes : Scheduling(n) \/ Consuming(n)
    \/ \E e \in DOMAIN execs : Complete(e) \/ LoseEvent(e)

Spec == Init /\ [][Next]_vars

\* The loop of a process goes on whatever fails, and the transaction that
\* acquires does not fail every time it would win.
FairSpec ==
    /\ Spec
    /\ \A n \in Nodes : /\ WF_vars(FetchBatch(n))
                        /\ WF_vars(AcquireTask(n))
                        /\ SF_vars(AcquireTask(n) /\ holding'[n] # NoTask)
                        /\ WF_vars(CreateExecution(n) \/ CreateFails(n))

----------------------------------------------------------------------------
(* Properties. *)

\* Type invariant.  A consumer that handles an event points at an execution.
TypeOK ==
    /\ clock \in 0..MaxTime
    /\ task \in [Tasks -> Row]
    /\ up \in [Nodes -> {"up", "stopped", "down"}]
    /\ batch \in [Nodes -> Seq(Snapshot)]
    /\ holding \in [Nodes -> Tasks \cup {NoTask}]
    /\ execs \in Seq(Exec) /\ Len(execs) <= MaxExecs
    /\ consumer \in [Nodes -> Handling]
    /\ \A n \in Nodes : consumer[n].phase # "idle" => consumer[n].exec \in DOMAIN execs
    /\ expiries \subseteq Tasks

\* A row is leased exactly to somebody: PREEMPTED rows name their node, ACTIVE
\* rows name nobody, over every mix of acquire, takeover, renew, the two
\* releases and the status write that leaves schedule_node_id alone.
LeaseHasOwner ==
    \A t \in Tasks : /\ task[t].status = PREEMPTED => task[t].node \in Nodes
                     /\ task[t].status = ACTIVE => task[t].node = NoNode

\* No ABA: as long as a row still has the version a schedule loop fetched,
\* however long ago, the row is still one the WHERE clause of FindScheduleTasks
\* selects for that node.  This is what makes the unguarded UPDATE of Acquire
\* (id and version only) correct.
SnapshotSound ==
    \A n \in Nodes : \A i \in DOMAIN batch[n] :
        LET e == batch[n][i]
        IN  /\ e.version <= task[e.id].version
            /\ e.version = task[e.id].version => Schedulable(task[e.id], Now(n))

\* A lease changes hands only when it was not renewed for PreemptedTimeout, as
\* seen by the clock of the node that takes it; in particular a renewal between
\* a rival's fetch and its acquire saves the lease.
LeaseNotStolen ==
    [][\A t \in Tasks, a, b \in Nodes :
          a # b /\ Leased(task[t], a) /\ Leased(task'[t], b)
             => Expired(task[t], Now(b))]_vars

\* A finished one-time task (INACTIVE) is never put back to work by a stale
\* snapshot, a late release or a second completion event.
InactiveIsFinal ==
    [][\A t \in Tasks : task[t].status = INACTIVE => task'[t].status = INACTIVE]_vars

\* While the clocks of the processes agree, next_time never moves back: of two
\* consumers that computed it from clock readings of different age, the older
\* answer does not overwrite the newer.
NextTimeMonotone ==
    [][\A t \in Tasks : task'[t].nextTime >= task[t].nextTime]_vars

\* Two executions of a task are unfinished together only after an expired lease
\* was taken over, or after a completion event was handled twice.
OverlapExplained ==
    \A i, j \in DOMAIN execs :
        i < j /\ execs[i].task = execs[j].task
              /\ execs[i].consumed = 0 /\ execs[j].consumed = 0
        => \/ execs[i].task \in expiries
           \/ \E k \in DOMAIN execs : execs[k].task = execs[i].task /\ execs[k].consumed = 2

\* As long as one scheduler stays up, a task that is due, or whose lease has
\* expired by its clock, is acquired (or renewed) in the end: stale snapshots,
\* rivals, failing statements and dying holders only delay it.
DueIsAcquired ==
    \A n \in Nodes : <>[](up[n] = "up") =>
        \A t \in Tasks :
            Schedulable(task[t], Now(n)) ~>
                (~Schedulable(task[t], Now(n)) \/ ~MayWrite(t))

\* The table seen as a lease: what PREEMPTED and schedule_node_id say together.
HolderOf(row) == IF row.status = PREEMPTED THEN row.node ELSE NoNode

L == INSTANCE Lease WITH
    holder <- [t \in Tasks |-> HolderOf(task[t])],
    heard <- [t \in Tasks |-> task[t].utime],
    due <- [t \in Tasks |-> task[t].nextTime],
    retired <- {t \in Tasks : task[t].status = INACTIVE}

\* The whole protocol of stale fetches, conditional writes, unconditional ones
\* and two ways to release implements the abstract lease: whatever a process
\* acts on, the row goes only through grants of due tasks, takeovers from silent
\* nodes, renewals by the holder, and ends in retirement.
ImplementsLease == L!LeaseSpec
=============================================================================
