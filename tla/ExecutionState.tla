--------------------------- MODULE ExecutionState ---------------------------
(***************************************************************************)
(* The record of an execution: which states executors report, how          *)
(* UpdateState turns a report into a write of the task_executions table or *)
(* into a completion event, how the consumer of those events writes the    *)
(* final state, and how the three compensators find executions to retry,   *)
(* to reschedule and to interrupt.                                         *)
(*                                                                         *)
(* Source: internal/service/task/execution_service.go,                     *)
(* internal/repository/dao/task_execution.go, internal/compensator,        *)
(* internal/event/complete/consumer.go, internal/service/runner.           *)
(*                                                                         *)
(* UpdateState reads the row, decides, and writes in a later statement     *)
(* that is mostly keyed by id alone: the read is the start of a call and   *)
(* the write a step of its own.  Executors are the environment: an         *)
(* execution that was sent out may be reported in any state at any time.   *)
(***************************************************************************)
EXTENDS Integers, FiniteSets

CONSTANTS
    Execs,        \* ids of execution records
    Nodes,        \* scheduler processes, each with its three compensators
    NoExec,       \* the exec field of a call slot that is free
    NoNode,       \* the caller of an UpdateState call that is no interrupt loop
    Calls,        \* slots for concurrent UpdateState calls
    BatchSize,    \* LIMIT of the compensators' queries
    Reports,      \* bound: Reports[e] are the states that executors report for e
    MaxRetries,   \* RetryConfig.MaxRetries; zero or less: no limit
    MaxInflight,  \* bound: counted invocations of an execution waiting for an answer
    MaxQueued,    \* bound: equal completion events of an execution in the queue
    MaxCount      \* bound of retry_count when there is no limit

NONE == "NONE"   \* no row yet
PREPARE == "PREPARE"
RUNNING == "RUNNING"
SUCCESS == "SUCCESS"
FAILED == "FAILED"
FAILED_RETRYABLE == "FAILED_RETRYABLE"
FAILED_RESCHEDULED == "FAILED_RESCHEDULED"
UNKNOWN == "UNKNOWN"

Terminal == {SUCCESS, FAILED}

\* What TaskExecutionStatusFromProto can return.
Reportable == {RUNNING, SUCCESS, FAILED, FAILED_RETRYABLE, FAILED_RESCHEDULED, UNKNOWN}

ASSUME ExecutionAssumption ==
    /\ NoExec \notin Execs /\ NoNode \notin Nodes
    /\ BatchSize \in Nat \ {0} /\ MaxRetries \in Int
    /\ Reports \in [Execs -> SUBSET Reportable]
    /\ {MaxInflight, MaxQueued, MaxCount} \subseteq Nat

Compensators == {"retry", "reschedule", "interrupt"}

VARIABLES
    row,       \* the task_executions table; time is kept as "has it passed?"
    inflight,  \* invocations of the execution whose answer is outstanding
    calls,     \* UpdateState calls between their read and their write
    events,    \* completion events in the queue, counted by result
    older,     \* <<a, b>>: UpdateScheduleResult wrote a before b (utime)
    found,     \* found[n][k]: list that compensator k of n is working through
    sent,      \* executions handed to an executor at least once
    reported   \* history: states reported for the execution

vars == <<row, older, inflight, calls, events, found, sent, reported>>

Row == [status : {NONE, PREPARE, RUNNING, FAILED_RETRYABLE, FAILED_RESCHEDULED} \cup Terminal,
        retryCount : Nat,
        retryDue : BOOLEAN,   \* next_retry_time <= now
        overdue : BOOLEAN]    \* deadline <= now

Phases == {"idle", "running", "retry", "exhausted", "reschedule", "complete"}

Call == [phase : Phases, exec : Execs \cup {NoExec}, status : Reportable, retryCount : Nat,
         by : Nodes \cup {NoNode}]

\* Mutant of ShouldRetry: retries already made instead of the coming one.
ShouldRetryOneMore(k) == MaxRetries <= 0 \/ k - 1 <= MaxRetries

\* NextWithRetries of a fresh strategy: is retry number k still allowed?
ShouldRetry(k) == MaxRetries <= 0 \/ k <= MaxRetries

----------------------------------------------------------------------------
Free == [phase |-> "idle", exec |-> NoExec, status |-> UNKNOWN, retryCount |-> 0,
         by |-> NoNode]

Init ==
    /\ row = [e \in Execs |-> [status |-> NONE, retryCount |-> 0,
                               retryDue |-> TRUE, overdue |-> FALSE]]
    /\ older = {}
    /\ inflight = [e \in Execs |-> 0]
    /\ calls = [c \in Calls |-> Free]
    /\ events = [e \in Execs |-> [r \in Terminal |-> 0]]
    /\ found = [n \in Nodes |-> [k \in Compensators |-> {}]]
    /\ sent = {}
    /\ reported = [e \in Execs |-> {}]

----------------------------------------------------------------------------
(* UpdateState. *)

\* What UpdateState does next with status s, having read row r.  A terminal row
\* refuses every state, and a progress report changes nothing modelled here.
PhaseFor(r, s) ==
    CASE r.status \in Terminal \/ s = UNKNOWN -> "idle"
      [] r.status \notin Terminal /\ s = RUNNING ->
             IF r.status = RUNNING THEN "idle" ELSE "running"
      [] r.status \notin Terminal /\ s = FAILED_RETRYABLE ->
             IF ShouldRetry(r.retryCount + 1) THEN "retry" ELSE "exhausted"
      [] r.status \notin Terminal /\ s = FAILED_RESCHEDULED -> "reschedule"
      [] r.status \notin Terminal /\ s \in Terminal -> "complete"

\* The read of the row and the choice of what to do, for caller n.
BeginCall(c, e, s, n) ==
    LET phase == PhaseFor(row[e], s)
    IN  /\ calls[c].phase = "idle"
        /\ calls' = [calls EXCEPT ![c] =
                        IF phase = "idle" THEN Free
                        ELSE [phase |-> phase, exec |-> e, status |-> s,
                              retryCount |-> row[e].retryCount, by |-> n]]
        /\ reported' = [reported EXCEPT ![e] = @ \cup {s}]

In(c, phase) == calls[c].phase = phase

\* The call is over, whether it wrote something or not.
Return(c) == calls' = [calls EXCEPT ![c] = Free]

\* Mutant of SetRunningState: the UPDATE relies on what the call has read.
SetRunningUnchecked(c) ==
    /\ In(c, "running")
    /\ row' = [row EXCEPT ![calls[c].exec].status = RUNNING, ![calls[c].exec].overdue = FALSE]
    /\ Return(c)
    /\ UNCHANGED <<older, inflight, events, found, sent, reported>>

\* UPDATE ... WHERE status IN (PREPARE, FAILED_RETRYABLE, FAILED_RESCHEDULED),
\* with a new deadline.
SetRunningState(c) ==
    /\ In(c, "running")
    /\ LET e == calls[c].exec
       IN  row' = IF row[e].status \in {PREPARE, FAILED_RETRYABLE, FAILED_RESCHEDULED}
                  THEN [row EXCEPT ![e].status = RUNNING, ![e].overdue = FALSE]
                  ELSE row
    /\ Return(c)
    /\ UNCHANGED <<older, inflight, events, found, sent, reported>>

\* UPDATE keyed by id alone, with the retry count computed from the read.  The
\* parameters are passed as a bare map and not as a JSONColumn: the database
\* layer may refuse the statement whatever the state of the database.
UpdateRetryResult(c) ==
    /\ In(c, "retry")
    /\ \/ /\ calls[c].retryCount < MaxCount
          /\ row' = [row EXCEPT ![calls[c].exec].status = FAILED_RETRYABLE,
                                ![calls[c].exec].retryCount = calls[c].retryCount + 1,
                                ![calls[c].exec].retryDue = FALSE]
       \/ UNCHANGED row
    /\ Return(c)
    /\ UNCHANGED <<older, inflight, events, found, sent, reported>>

\* utime is set: e is now the youngest.  Every write sets utime, but the order is
\* read of FAILED_RESCHEDULED rows only, and this is the write that makes one.
LatestWrite(e) ==
    {p \in older : e \notin {p[1], p[2]}} \cup {<<x, e>> : x \in Execs \ {e}}

\* UPDATE keyed by id alone.
UpdateScheduleResult(c) ==
    /\ In(c, "reschedule")
    /\ row' = [row EXCEPT ![calls[c].exec].status = FAILED_RESCHEDULED]
    /\ older' = LatestWrite(calls[c].exec)
    /\ Return(c)
    /\ UNCHANGED <<inflight, events, found, sent, reported>>

\* sendCompletedEvent: reached with a terminal state, and when the retries are
\* used up.  The event carries the reported state, and only terminal states
\* are sent.
SendCompletedEvent(c) ==
    /\ In(c, "complete") \/ In(c, "exhausted")
    /\ LET e == calls[c].exec
           s == calls[c].status
       IN  IF s \in Terminal
           THEN /\ events[e][s] < MaxQueued
                /\ events' = [events EXCEPT ![e][s] = @ + 1]
           ELSE UNCHANGED events
    /\ Return(c)
    /\ UNCHANGED <<row, older, inflight, found, sent, reported>>

\* A failing statement, a failing produce or the death of the process.
CallFails(c) ==
    /\ ~In(c, "idle")
    /\ Return(c)
    /\ UNCHANGED <<row, older, inflight, events, found, sent, reported>>

----------------------------------------------------------------------------
(* Invocations: runner.Run, Retry and Reschedule start one in a goroutine   *)
(* of its own, which hands the answer of Execute to UpdateState.            *)

\* Invocations beyond the bound are made and not counted: a Report stands for
\* their answers.
Invoke(e) ==
    /\ inflight' = [inflight EXCEPT ![e] = IF @ < MaxInflight THEN @ + 1 ELSE @]
    /\ sent' = sent \cup {e}

\* handleNormalTask: the record is created PREPARE and invoked.
CreateExecution(e) ==
    /\ row[e].status = NONE
    /\ row' = [row EXCEPT ![e].status = PREPARE]
    /\ Invoke(e)
    /\ UNCHANGED <<older, calls, events, found, reported>>

Answer(e, c, s) ==
    /\ inflight[e] > 0
    /\ inflight' = [inflight EXCEPT ![e] = @ - 1]
    /\ BeginCall(c, e, s, NoNode)
    /\ UNCHANGED <<row, older, events, found, sent>>

\* The RPC fails (or the process dies): the goroutine logs and returns.
InvocationFails(e) ==
    /\ inflight[e] > 0
    /\ inflight' = [inflight EXCEPT ![e] = @ - 1]
    /\ UNCHANGED <<row, older, calls, events, found, sent, reported>>

\* Mutant of Report: a state for an id that has no record is accepted.
ReportUnknownExecution(e, c, s) ==
    /\ BeginCall(c, e, s, NoNode)
    /\ UNCHANGED <<row, older, inflight, events, found, sent>>

\* An executor that was handed the execution reports on its own.
Report(e, c, s) ==
    /\ e \in sent
    /\ BeginCall(c, e, s, NoNode)
    /\ UNCHANGED <<row, older, inflight, events, found, sent>>

----------------------------------------------------------------------------
(* The consumer of completion events writes the final state, by id alone.   *)
(* An event may be delivered again, and is lost if the write fails.         *)

\* Mutant of ConsumeEvent: the two branches are swapped.
ConsumeSwapped(e, s) ==
    /\ events[e][s] > 0
    /\ row' = [row EXCEPT ![e].status = IF s = SUCCESS THEN FAILED ELSE SUCCESS]
    /\ \/ events' = [events EXCEPT ![e][s] = @ - 1]
       \/ UNCHANGED events
    /\ UNCHANGED <<older, inflight, calls, found, sent, reported>>

ConsumeEvent(e, s) ==
    /\ events[e][s] > 0
    /\ row' = [row EXCEPT ![e].status = IF s = SUCCESS THEN SUCCESS ELSE FAILED]
    /\ \/ events' = [events EXCEPT ![e][s] = @ - 1]
       \/ UNCHANGED events
    /\ UNCHANGED <<older, inflight, calls, found, sent, reported>>

LoseEvent(e, s) ==
    /\ events[e][s] > 0
    /\ events' = [events EXCEPT ![e][s] = @ - 1]
    /\ UNCHANGED <<row, older, inflight, calls, found, sent, reported>>

----------------------------------------------------------------------------
(* Compensators: a list is fetched and then worked off entry by entry.      *)

\* Mutant of Retryable: the comparison with next_retry_time is reversed.
RetryableTooEarly == {e \in Execs : row[e].status = FAILED_RETRYABLE /\ ~row[e].retryDue}

Retryable == {e \in Execs : row[e].status = FAILED_RETRYABLE /\ row[e].retryDue}
Reschedulable == {e \in Execs : row[e].status = FAILED_RESCHEDULED}
TimedOut == {e \in Execs : row[e].status = RUNNING /\ row[e].overdue}

Eligible(k) ==
    CASE k = "retry" -> Retryable
      [] k = "reschedule" -> Reschedulable
      [] k = "interrupt" -> TimedOut

\* The interrupt loop waits for the UpdateState call of one entry before it goes
\* on; the two others only start goroutines.
Interrupting(n) == \E c \in Calls : calls[c].by = n

\* LIMIT: that many of the rows, or all there are.
Limited(k) ==
    {list \in SUBSET Eligible(k) :
        \/ Cardinality(list) = BatchSize
        \/ list = Eligible(k) /\ Cardinality(list) < BatchSize}

\* Mutant of Batches: the youngest first.
BatchesOfYoungest(k) ==
    {list \in Limited(k) :
        k = "reschedule" => \A e \in list, f \in Eligible(k) \ list : <<e, f>> \notin older}

\* ORDER BY utime picks the rows to reschedule.  The retry query has no order, and
\* the deadlines that order the rows to interrupt are not kept.
Batches(k) ==
    {list \in Limited(k) :
        k = "reschedule" => \A e \in list, f \in Eligible(k) \ list : <<f, e>> \notin older}

FindExecutions(n, k) ==
    /\ found[n][k] = {} /\ (k = "interrupt" => ~Interrupting(n))
    /\ Eligible(k) # {}
    /\ \E list \in Batches(k) : found' = [found EXCEPT ![n][k] = list]
    /\ UNCHANGED <<row, older, inflight, calls, events, sent, reported>>

TakeFound(n, k, e) ==
    /\ e \in found[n][k]
    /\ found' = [found EXCEPT ![n][k] = @ \ {e}]

\* Retry and Reschedule only start an invocation; the row stays as it is.
Redispatch(n, k, e) ==
    /\ k \in {"retry", "reschedule"}
    /\ TakeFound(n, k, e)
    /\ Invoke(e)
    /\ UNCHANGED <<row, older, calls, events, reported>>

\* The answer to Interrupt is the executor's current state of the execution.
Interrupt(n, e, c, s) ==
    /\ s \in {RUNNING, SUCCESS, FAILED, FAILED_RESCHEDULED}
    /\ ~Interrupting(n)
    /\ TakeFound(n, "interrupt", e)
    /\ BeginCall(c, e, s, n)
    /\ UNCHANGED <<row, older, inflight, events, sent>>

\* The RPC fails, or the executor it reached does not run the execution.
InterruptFails(n, e) ==
    /\ ~Interrupting(n)
    /\ TakeFound(n, "interrupt", e)
    /\ UNCHANGED <<row, older, inflight, calls, events, sent, reported>>

\* Looked at in this state only, which is never entered with a time that has come.
RetryTimeComes(e) ==
    /\ row[e].status = FAILED_RETRYABLE /\ ~row[e].retryDue
    /\ row' = [row EXCEPT ![e].retryDue = TRUE]
    /\ UNCHANGED <<older, inflight, calls, events, found, sent, reported>>

\* Looked at in this state only, which is entered with a new deadline.
DeadlinePasses(e) ==
    /\ row[e].status = RUNNING /\ ~row[e].overdue
    /\ row' = [row EXCEPT ![e].overdue = TRUE]
    /\ UNCHANGED <<older, inflight, calls, events, found, sent, reported>>

----------------------------------------------------------------------------
Calling(c) ==
    \/ SetRunningState(c) \/ UpdateRetryResult(c) \/ UpdateScheduleResult(c)
    \/ SendCompletedEvent(c) \/ CallFails(c)

Executing(e) ==
    \/ CreateExecution(e) \/ InvocationFails(e)
    \/ \E c \in Calls, s \in Reports[e] : Answer(e, c, s) \/ Report(e, c, s)
    \/ \E s \in Terminal : ConsumeEvent(e, s) \/ LoseEvent(e, s)
    \/ RetryTimeComes(e) \/ DeadlinePasses(e)

Compensating(n) ==
    \/ \E k \in Compensators : FindExecutions(n, k)
    \/ \E k \in Compensators, e \in Execs : Redispatch(n, k, e)
    \/ \E e \in Execs, c \in Calls : \E s \in Reports[e] : Interrupt(n, e, c, s)
    \/ \E e \in Execs : InterruptFails(n, e)

Next ==
    \/ \E c \in Calls : Calling(c)
    \/ \E e \in Execs : Executing(e)
    \/ \E n \in Nodes : Compensating(n)

Spec == Init /\ [][Next]_vars

\* The code's scheduling: goroutines run on, loops come round again, time
\* passes, the broker delivers, and an RPC ends with an answer or an error.
\* Nothing forces an executor to report, nor anything to fail.
Fairness ==
    /\ \A c \in Calls :
           WF_vars(SetRunningState(c) \/ UpdateRetryResult(c)
                   \/ UpdateScheduleResult(c) \/ SendCompletedEvent(c))
    /\ \A e \in Execs :
           /\ WF_vars(InvocationFails(e) \/ \E c \in Calls, s \in Reports[e] : Answer(e, c, s))
           /\ \A s \in Terminal : WF_vars(ConsumeEvent(e, s))
           /\ WF_vars(RetryTimeComes(e)) /\ WF_vars(DeadlinePasses(e))
    /\ \A n \in Nodes :
           /\ \A k \in Compensators : WF_vars(FindExecutions(n, k))
           /\ \A k \in Compensators, e \in Execs : WF_vars(Redispatch(n, k, e))
           /\ \A e \in Execs :
                  WF_vars(InterruptFails(n, e)
                          \/ \E c \in Calls, s \in Reports[e] : Interrupt(n, e, c, s))

FairSpec == Spec /\ Fairness

----------------------------------------------------------------------------
(* Properties. *)

\* Type invariant; a call in progress works on an execution that was created.
TypeOK ==
    /\ row \in [Execs -> Row] /\ older \subseteq Execs \X Execs
    /\ inflight \in [Execs -> 0..MaxInflight]
    /\ calls \in [Calls -> Call]
    /\ \A c \in Calls : calls[c].phase # "idle" => calls[c].exec \in sent
    /\ events \in [Execs -> [Terminal -> 0..MaxQueued]]
    /\ found \in [Nodes -> [Compensators -> SUBSET sent]]
    /\ sent \subseteq Execs
    /\ \A e \in Execs : (row[e].status # NONE) <=> (e \in sent)
    /\ reported \in [Execs -> SUBSET Reportable]

\* retry_count never exceeds MaxRetries, although it is written from a stale
\* read by calls that may run at the same time.
RetryCountBounded ==
    MaxRetries > 0 => \A e \in Execs : row[e].retryCount <= MaxRetries

\* The record never claims a state that no executor reported for it: the
\* consumer, the compensators and the stale writes invent nothing.
StatusWasReported ==
    \A e \in Execs : row[e].status \notin {NONE, PREPARE} => row[e].status \in reported[e]

\* A finished execution is never shown as running again, even by a call that
\* read the row before it was finished.
NoRestartAfterEnd ==
    [][\A e \in Execs : row[e].status \in Terminal => row'[e].status # RUNNING]_vars

\* An execution waiting for a retry is invoked again or moves on, unless more
\* records wait than the query lists: without an ORDER BY it may be left out for
\* ever.
RetryIsServed ==
    \A e \in Execs :
        []<>(\/ row[e].status # FAILED_RETRYABLE \/ inflight[e] > 0
             \/ Cardinality(Retryable) > BatchSize)

\* Records that wait for a reschedule and come before e in the query.
Ahead(e) == {x \in Reschedulable : <<x, e>> \in older}

\* An execution that asked to be rescheduled is invoked again or moves on, unless
\* a whole batch of others comes before it: those whose invocations fail keep
\* their utime and stay in front.
RescheduleIsServed ==
    \A e \in Execs :
        []<>(\/ row[e].status # FAILED_RESCHEDULED \/ inflight[e] > 0
             \/ Cardinality(Ahead(e)) >= BatchSize)

\* execution_service.go: "an execution record in a terminal state may not
\* change its state any more".
TerminalIsFinal ==
    [][\A e \in Execs : row[e].status \in Terminal => row'[e].status = row[e].status]_vars
=============================================================================
