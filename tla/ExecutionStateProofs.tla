------------------------ MODULE ExecutionStateProofs ------------------------
(***************************************************************************)
(* Proofs about ExecutionState, for every set of executions, schedulers    *)
(* and concurrent calls, every retry limit and every value of the bounds.  *)
(***************************************************************************)
EXTENDS ExecutionState, TLAPS

----------------------------------------------------------------------------
(* The inductive invariant. *)

\* Whatever waits for an answer or in the queue belongs to an execution that
\* was handed out, and an event carries a state reported for it.
TrafficIsSent ==
    \A e \in Execs :
        /\ inflight[e] > 0 => e \in sent
        /\ \A s \in Terminal : events[e][s] > 0 => e \in sent /\ s \in reported[e]

\* A call between its read and its write carries a reported state, is about to
\* do what that state asks for, and was allowed the retry it makes by the row
\* it read.
CallsDecided ==
    \A c \in Calls : ~In(c, "idle") =>
        /\ calls[c].exec \in sent
        /\ calls[c].status \in reported[calls[c].exec]
        /\ In(c, "running") => calls[c].status = RUNNING
        /\ In(c, "reschedule") => calls[c].status = FAILED_RESCHEDULED
        /\ In(c, "retry") => /\ calls[c].status = FAILED_RETRYABLE
                             /\ ShouldRetry(calls[c].retryCount + 1)

ExecutionInv ==
    TypeOK /\ TrafficIsSent /\ CallsDecided /\ RetryCountBounded /\ StatusWasReported

----------------------------------------------------------------------------
(* UpdateState. *)

\* What UpdateState decides fits the state it was given and the row it read.
LEMMA PhaseForDecides ==
    ASSUME NEW r \in Row, NEW s \in Reportable
    PROVE  /\ PhaseFor(r, s) \in Phases
           /\ PhaseFor(r, s) = "running" => s = RUNNING
           /\ PhaseFor(r, s) = "reschedule" => s = FAILED_RESCHEDULED
           /\ PhaseFor(r, s) = "retry" => /\ s = FAILED_RETRYABLE
                                          /\ ShouldRetry(r.retryCount + 1)
BY DEF PhaseFor, Phases, Reportable, Terminal, RUNNING, SUCCESS, FAILED, FAILED_RETRYABLE,
       FAILED_RESCHEDULED, UNKNOWN

\* Starting a call keeps what is known of the calls; it adds a report.
LEMMA BeginCallKeeps ==
    ASSUME ExecutionInv, NEW c \in Calls, NEW e \in Execs, NEW s \in Reportable,
           NEW n \in Nodes \cup {NoNode}, e \in sent, BeginCall(c, e, s, n), sent' = sent
    PROVE  /\ calls' \in [Calls -> Call] /\ CallsDecided'
           /\ reported' \in [Execs -> SUBSET Reportable]
           /\ \A x \in Execs : reported[x] \subseteq reported'[x]
<1>1. row[e] \in Row /\ row[e].retryCount \in Nat
    BY DEF ExecutionInv, TypeOK, Row
<1>. DEFINE phase == PhaseFor(row[e], s)
            new == IF phase = "idle" THEN Free
                   ELSE [phase |-> phase, exec |-> e, status |-> s,
                         retryCount |-> row[e].retryCount, by |-> n]
<1>2. new \in Call
    BY <1>1, PhaseForDecides DEF Call, Free, Reportable, Phases
<1>3. calls' = [calls EXCEPT ![c] = new] /\ reported' = [reported EXCEPT ![e] = @ \cup {s}]
    BY DEF BeginCall
<1>4. /\ reported' \in [Execs -> SUBSET Reportable]
      /\ \A x \in Execs : reported[x] \subseteq reported'[x]
      /\ s \in reported'[e]
    BY <1>3 DEF ExecutionInv, TypeOK
<1>5. CallsDecided'
    <2>. SUFFICES ASSUME NEW d \in Calls, calls'[d].phase # "idle"
                  PROVE  /\ calls'[d].exec \in sent
                         /\ calls'[d].status \in reported'[calls'[d].exec]
                         /\ calls'[d].phase = "running" => calls'[d].status = RUNNING
                         /\ calls'[d].phase = "reschedule" =>
                                calls'[d].status = FAILED_RESCHEDULED
                         /\ calls'[d].phase = "retry" =>
                                /\ calls'[d].status = FAILED_RETRYABLE
                                /\ ShouldRetry(calls'[d].retryCount + 1)
        BY DEF CallsDecided, In, ShouldRetry
    <2>1. CASE d = c
        <3>1. calls'[d] = new /\ phase # "idle"
            BY <1>3, <2>1 DEF ExecutionInv, TypeOK, Free
        <3>. QED
            BY <3>1, <1>1, <1>4, PhaseForDecides
    <2>2. CASE d # c
        BY <1>3, <1>4, <2>2 DEF ExecutionInv, CallsDecided, In, TypeOK
    <2>. QED
        BY <2>1, <2>2
<1>. QED
    BY <1>2, <1>3, <1>4, <1>5 DEF ExecutionInv, TypeOK

\* A call that returns, having written or not, leaves the others alone.
LEMMA ReturnKeeps ==
    ASSUME ExecutionInv, NEW c \in Calls, Return(c), UNCHANGED <<sent, reported>>
    PROVE  /\ calls' \in [Calls -> Call] /\ CallsDecided'
           /\ \A d \in Calls : calls'[d].phase # "idle" => calls'[d].exec \in sent
<1>1. Free \in Call
    BY DEF Free, Call, Phases, Reportable
<1>2. calls' \in [Calls -> Call]
    BY <1>1 DEF Return, ExecutionInv, TypeOK
<1>3. \A d \in Calls : calls'[d].phase # "idle" => calls'[d] = calls[d]
    BY DEF Return, ExecutionInv, TypeOK, Free
<1>. QED
    BY <1>2, <1>3 DEF ExecutionInv, CallsDecided, In, ShouldRetry

\* What a call knows when it makes its write.
LEMMA CallKnows ==
    ASSUME ExecutionInv, NEW c \in Calls, ~In(c, "idle")
    PROVE  /\ calls[c].exec \in Execs /\ calls[c].exec \in sent
           /\ row[calls[c].exec] \in Row /\ row[calls[c].exec].status # NONE
           /\ calls[c].status \in Reportable /\ calls[c].retryCount \in Nat
           /\ calls[c].status \in reported[calls[c].exec]
BY DEF ExecutionInv, CallsDecided, In, TypeOK, Call

----------------------------------------------------------------------------
(* The initial state and the steps. *)

LEMMA InitInv == Init => ExecutionInv
<1>. SUFFICES ASSUME Init PROVE ExecutionInv
    OBVIOUS
<1>1. TypeOK
    <2>1. Free \in Call /\ Free.phase = "idle"
        BY DEF Free, Call, Phases, Reportable
    <2>. QED
        BY <2>1, ExecutionAssumption DEF Init, TypeOK, Row, NONE
<1>2. TrafficIsSent /\ CallsDecided
    BY DEF Init, TrafficIsSent, CallsDecided, In, Free
<1>3. RetryCountBounded /\ StatusWasReported
    BY ExecutionAssumption DEF Init, RetryCountBounded, StatusWasReported
<1>. QED
    BY <1>1, <1>2, <1>3 DEF ExecutionInv

\* A statement that leaves in the row of e a reported state, or PREPARE, and a
\* retry count within the limit keeps what is known of the rows.
LEMMA RowWriteKeeps ==
    ASSUME ExecutionInv, NEW e \in Execs, NEW r \in Row, row' = [row EXCEPT ![e] = r],
           r.status # NONE, r.status = PREPARE \/ r.status \in reported[e],
           MaxRetries > 0 => r.retryCount <= MaxRetries,
           sent' = sent \cup {e}, reported' = reported
    PROVE  /\ row' \in [Execs -> Row] /\ sent' \subseteq Execs
           /\ \A x \in Execs : (row'[x].status # NONE) <=> (x \in sent')
           /\ RetryCountBounded' /\ StatusWasReported'
BY DEF ExecutionInv, TypeOK, RetryCountBounded, StatusWasReported

\* Sending or taking an event keeps the counters within their bound.
LEMMA EventsType ==
    ASSUME TypeOK, NEW e \in Execs, NEW s \in Terminal
    PROVE  /\ events[e][s] < MaxQueued =>
                  [events EXCEPT ![e][s] = @ + 1] \in [Execs -> [Terminal -> 0..MaxQueued]]
           /\ events[e][s] > 0 =>
                  [events EXCEPT ![e][s] = @ - 1] \in [Execs -> [Terminal -> 0..MaxQueued]]
<1>1. MaxQueued \in Nat /\ events[e] \in [Terminal -> 0..MaxQueued]
    BY ExecutionAssumption DEF TypeOK
<1>2. ASSUME NEW k \in 0..MaxQueued
      PROVE  [events EXCEPT ![e][s] = k] \in [Execs -> [Terminal -> 0..MaxQueued]]
    BY <1>1, <1>2 DEF TypeOK
<1>3. events[e][s] \in 0..MaxQueued
    BY <1>1
<1>. QED
    BY <1>1, <1>2, <1>3

\* The order of the records is one between records.
LEMMA LatestWriteType ==
    ASSUME TypeOK, NEW e \in Execs
    PROVE  LatestWrite(e) \subseteq Execs \X Execs
BY DEF TypeOK, LatestWrite

\* The four writes of a call, and a call that fails.
LEMMA CallingKeeps ==
    ASSUME ExecutionInv, NEW c \in Calls, Calling(c)
    PROVE  ExecutionInv'
<1>. DEFINE e == calls[c].exec
<1>a. ~In(c, "idle") /\ Return(c) /\ UNCHANGED <<inflight, found, sent, reported>>
    BY DEF Calling, SetRunningState, UpdateRetryResult, UpdateScheduleResult,
           SendCompletedEvent, CallFails, In
<1>b. /\ e \in Execs /\ e \in sent /\ row[e] \in Row /\ row[e].status # NONE
      /\ calls[c].status \in Reportable /\ calls[c].retryCount \in Nat
      /\ calls[c].status \in reported[e]
    BY <1>a, CallKnows
<1>c. /\ calls' \in [Calls -> Call] /\ CallsDecided'
      /\ \A d \in Calls : calls'[d].phase # "idle" => calls'[d].exec \in sent
    BY <1>a, ReturnKeeps
<1>d. older' \subseteq Execs \X Execs
    BY <1>b, LatestWriteType
    DEF Calling, SetRunningState, UpdateRetryResult, UpdateScheduleResult, SendCompletedEvent,
        CallFails, ExecutionInv, TypeOK
<1>1. ASSUME NEW r \in Row, row' = [row EXCEPT ![e] = r], UNCHANGED events,
             r.status # NONE, r.status = PREPARE \/ r.status \in reported[e],
             MaxRetries > 0 => r.retryCount <= MaxRetries
      PROVE  ExecutionInv'
    <2>1. sent' = sent \cup {e} /\ reported' = reported
        BY <1>a, <1>b
    <2>2. /\ row' \in [Execs -> Row] /\ sent' \subseteq Execs
          /\ \A x \in Execs : (row'[x].status # NONE) <=> (x \in sent')
          /\ RetryCountBounded' /\ StatusWasReported'
        BY <1>1, <1>b, <2>1, RowWriteKeeps
    <2>. QED
        BY <1>1, <1>a, <1>c, <1>d, <2>2 DEF ExecutionInv, TypeOK, TrafficIsSent
<1>2. CASE SetRunningState(c)
    <2>1. RUNNING \in reported[e]
        BY <1>2, <1>b DEF SetRunningState, ExecutionInv, CallsDecided, In, Phases
    <2>. DEFINE r == IF row[e].status \in {PREPARE, FAILED_RETRYABLE, FAILED_RESCHEDULED}
                     THEN [row[e] EXCEPT !.status = RUNNING, !.overdue = FALSE] ELSE row[e]
    <2>2. row' = [row EXCEPT ![e] = r] /\ UNCHANGED events
        BY <1>2, <1>b DEF SetRunningState, ExecutionInv, TypeOK
    <2>3. r \in Row /\ r.status # NONE /\ r.retryCount = row[e].retryCount
        BY <1>b DEF Row, NONE, RUNNING
    <2>4. r.status = PREPARE \/ r.status \in reported[e]
        BY <1>b, <2>1 DEF Row, ExecutionInv, StatusWasReported
    <2>. QED
        BY <1>1, <1>b, <2>2, <2>3, <2>4 DEF ExecutionInv, RetryCountBounded
<1>3. CASE UpdateRetryResult(c) /\ UNCHANGED row
    <2>1. UNCHANGED events
        BY <1>3 DEF UpdateRetryResult
    <2>. QED
        BY <1>3, <1>a, <1>c, <1>d, <2>1
        DEF ExecutionInv, TypeOK, TrafficIsSent, RetryCountBounded, StatusWasReported
<1>7. CASE UpdateRetryResult(c) /\ ~UNCHANGED row
    <2>1. FAILED_RETRYABLE \in reported[e] /\ ShouldRetry(calls[c].retryCount + 1)
        BY <1>7, <1>b DEF UpdateRetryResult, ExecutionInv, CallsDecided, In
    <2>. DEFINE r == [status |-> FAILED_RETRYABLE, retryCount |-> calls[c].retryCount + 1,
                     retryDue |-> FALSE, overdue |-> row[e].overdue]
    <2>2. row' = [row EXCEPT ![e] = r] /\ UNCHANGED events
        <3>1. row \in [Execs -> Row] /\ UNCHANGED events
            BY <1>7 DEF UpdateRetryResult, ExecutionInv, TypeOK
        <3>2. row' = [row EXCEPT ![e].status = FAILED_RETRYABLE,
                                 ![e].retryCount = calls[c].retryCount + 1,
                                 ![e].retryDue = FALSE]
            BY <1>7 DEF UpdateRetryResult
        <3>3. row'[e] = r
            BY <1>b, <3>1, <3>2 DEF Row
        <3>. QED
            BY <1>b, <3>1, <3>2, <3>3
    <2>3. r \in Row /\ r.status # NONE
        BY <1>b DEF Row, NONE, FAILED_RETRYABLE
    <2>4. MaxRetries > 0 => r.retryCount <= MaxRetries
        BY <1>b, <2>1, ExecutionAssumption DEF ShouldRetry
    <2>5. r.status \in reported[e]
        BY <2>1
    <2>. QED
        BY <1>1, <2>2, <2>3, <2>4, <2>5
<1>4. CASE UpdateScheduleResult(c)
    <2>1. FAILED_RESCHEDULED \in reported[e]
        BY <1>4, <1>b DEF UpdateScheduleResult, ExecutionInv, CallsDecided, In
    <2>. DEFINE r == [row[e] EXCEPT !.status = FAILED_RESCHEDULED]
    <2>2. row' = [row EXCEPT ![e] = r] /\ UNCHANGED events
        BY <1>4, <1>b DEF UpdateScheduleResult, ExecutionInv, TypeOK
    <2>3. /\ r \in Row /\ r.status = FAILED_RESCHEDULED /\ r.status # NONE
          /\ r.retryCount = row[e].retryCount
        BY <1>b DEF Row, NONE, FAILED_RESCHEDULED
    <2>. QED
        BY <1>1, <1>b, <2>1, <2>2, <2>3 DEF ExecutionInv, RetryCountBounded
<1>5. CASE SendCompletedEvent(c)
    <2>1. UNCHANGED row
        BY <1>5 DEF SendCompletedEvent
    <2>2. events' \in [Execs -> [Terminal -> 0..MaxQueued]]
        <3>. DEFINE s == calls[c].status
        <3>1. CASE s \in Terminal
            <4>1. events[e][s] < MaxQueued /\ events' = [events EXCEPT ![e][s] = @ + 1]
                BY <1>5, <3>1 DEF SendCompletedEvent
            <4>. QED
                BY <1>b, <3>1, <4>1, EventsType DEF ExecutionInv
        <3>2. CASE s \notin Terminal
            BY <1>5, <3>2 DEF SendCompletedEvent, ExecutionInv, TypeOK
        <3>. QED
            BY <3>1, <3>2
    <2>3. \A x \in Execs, s \in Terminal :
              events'[x][s] > 0 => events[x][s] > 0 \/ (x = e /\ s = calls[c].status)
        BY <1>5, <1>b DEF SendCompletedEvent, ExecutionInv, TypeOK
    <2>4. TrafficIsSent'
        BY <1>a, <1>b, <2>3 DEF ExecutionInv, TrafficIsSent
    <2>. QED
        BY <1>a, <1>c, <1>d, <2>1, <2>2, <2>4
        DEF ExecutionInv, TypeOK, RetryCountBounded, StatusWasReported
<1>6. CASE CallFails(c)
    <2>1. UNCHANGED <<row, events>>
        BY <1>6 DEF CallFails
    <2>. QED
        BY <1>a, <1>c, <1>d, <2>1
        DEF ExecutionInv, TypeOK, TrafficIsSent, RetryCountBounded, StatusWasReported
<1>. QED
    BY <1>2, <1>3, <1>4, <1>5, <1>6, <1>7 DEF Calling

\* A state that reaches UpdateState, as an answer, a report or the answer to an
\* interrupt, for an execution that was handed out.
LEMMA ReportingKeeps ==
    ASSUME ExecutionInv, NEW c \in Calls, NEW e \in Execs, NEW s \in Reportable,
           NEW n \in Nodes \cup {NoNode}, e \in sent, BeginCall(c, e, s, n),
           UNCHANGED <<row, older, events, sent>>,
           inflight' \in [Execs -> 0..MaxInflight],
           \A x \in Execs : inflight'[x] > 0 => x \in sent,
           found' \in [Nodes -> [Compensators -> SUBSET sent]]
    PROVE  ExecutionInv'
<1>1. /\ calls' \in [Calls -> Call] /\ CallsDecided'
      /\ reported' \in [Execs -> SUBSET Reportable]
      /\ \A x \in Execs : reported[x] \subseteq reported'[x]
    BY BeginCallKeeps
<1>2. \A d \in Calls : calls'[d].phase # "idle" => calls'[d].exec \in sent'
    BY <1>1 DEF CallsDecided, In
<1>3. TypeOK'
    BY <1>1, <1>2 DEF ExecutionInv, TypeOK
<1>4. TrafficIsSent' /\ RetryCountBounded' /\ StatusWasReported'
    BY <1>1 DEF ExecutionInv, TrafficIsSent, RetryCountBounded, StatusWasReported
<1>. QED
    BY <1>1, <1>3, <1>4 DEF ExecutionInv

\* Changing the row of an execution that was handed out, and perhaps taking an
\* event out of the queue.
LEMMA RowKeeps ==
    ASSUME ExecutionInv, NEW e \in sent, NEW r \in Row, row' = [row EXCEPT ![e] = r],
           r.status # NONE, r.status = PREPARE \/ r.status \in reported[e],
           r.retryCount = row[e].retryCount,
           events' \in [Execs -> [Terminal -> 0..MaxQueued]],
           \A x \in Execs, s \in Terminal : events'[x][s] > 0 => events[x][s] > 0,
           UNCHANGED <<older, inflight, calls, found, sent, reported>>
    PROVE  ExecutionInv'
<1>1. /\ row' \in [Execs -> Row]
      /\ \A x \in Execs : (row'[x].status # NONE) <=> (x \in sent')
      /\ RetryCountBounded' /\ StatusWasReported'
    <2>1. e \in Execs /\ sent' = sent \cup {e} /\ reported' = reported
        BY DEF ExecutionInv, TypeOK
    <2>2. MaxRetries > 0 => r.retryCount <= MaxRetries
        BY <2>1 DEF ExecutionInv, RetryCountBounded
    <2>. QED
        BY <2>1, <2>2, RowWriteKeeps
<1>2. TypeOK' /\ TrafficIsSent'
    BY <1>1 DEF ExecutionInv, TypeOK, TrafficIsSent
<1>3. CallsDecided'
    BY DEF ExecutionInv, CallsDecided, In, ShouldRetry
<1>. QED
    BY <1>1, <1>2, <1>3 DEF ExecutionInv

\* Taking an event out of the queue, or not.
LEMMA EventTaken ==
    ASSUME TypeOK, NEW e \in Execs, NEW s \in Terminal, events[e][s] > 0,
           \/ events' = [events EXCEPT ![e][s] = @ - 1]
           \/ UNCHANGED events
    PROVE  /\ events' \in [Execs -> [Terminal -> 0..MaxQueued]]
           /\ \A x \in Execs, r \in Terminal : events'[x][r] > 0 => events[x][r] > 0
<1>1. CASE events' = [events EXCEPT ![e][s] = @ - 1]
    <2>1. events' \in [Execs -> [Terminal -> 0..MaxQueued]]
        BY <1>1, EventsType
    <2>2. \A x \in Execs, r \in Terminal : events'[x][r] > 0 => events[x][r] > 0
        BY <1>1 DEF TypeOK
    <2>. QED
        BY <2>1, <2>2
<1>2. CASE UNCHANGED events
    BY <1>2 DEF TypeOK
<1>. QED
    BY <1>1, <1>2

\* Sending an execution out counts an invocation and remembers it.
LEMMA InvokeCounts ==
    ASSUME TypeOK, TrafficIsSent, NEW e \in Execs, Invoke(e)
    PROVE  /\ inflight' \in [Execs -> 0..MaxInflight] /\ sent' = sent \cup {e}
           /\ \A x \in Execs : inflight'[x] > 0 => x \in sent'
BY ExecutionAssumption DEF TypeOK, TrafficIsSent, Invoke

\* An answer or a failure takes an invocation away.
LEMMA AnswerCounts ==
    ASSUME TypeOK, TrafficIsSent, NEW e \in Execs, inflight[e] > 0,
           inflight' = [inflight EXCEPT ![e] = @ - 1]
    PROVE  /\ e \in sent /\ inflight' \in [Execs -> 0..MaxInflight]
           /\ \A x \in Execs : inflight'[x] > 0 => x \in sent
BY ExecutionAssumption DEF TypeOK, TrafficIsSent

\* The life of one execution: runner, reporter, consumer, time.
LEMMA ExecutingKeeps ==
    ASSUME ExecutionInv, NEW e \in Execs, Executing(e)
    PROVE  ExecutionInv'
<1>a. TypeOK /\ TrafficIsSent /\ row[e] \in Row
    BY DEF ExecutionInv, TypeOK
<1>1. CASE CreateExecution(e)
    <2>. DEFINE r == [row[e] EXCEPT !.status = PREPARE]
    <2>1. r \in Row /\ r.status = PREPARE /\ r.retryCount = row[e].retryCount
        BY <1>a DEF Row
    <2>2. r.status # NONE
        BY <2>1 DEF PREPARE, NONE
    <2>3. row' = [row EXCEPT ![e] = r] /\ Invoke(e) /\ UNCHANGED <<older, calls, events, found, reported>>
        BY <1>1 DEF CreateExecution
    <2>4. /\ inflight' \in [Execs -> 0..MaxInflight] /\ sent' = sent \cup {e}
          /\ \A x \in Execs : inflight'[x] > 0 => x \in sent'
        BY <1>a, <2>3, InvokeCounts
    <2>5. /\ row' \in [Execs -> Row] /\ sent' \subseteq Execs
          /\ \A x \in Execs : (row'[x].status # NONE) <=> (x \in sent')
          /\ RetryCountBounded' /\ StatusWasReported'
        BY <2>1, <2>2, <2>3, <2>4, RowWriteKeeps DEF ExecutionInv, RetryCountBounded
    <2>6. TypeOK' /\ TrafficIsSent'
        BY <2>3, <2>4, <2>5 DEF ExecutionInv, TypeOK, TrafficIsSent
    <2>7. CallsDecided'
        BY <2>3, <2>4 DEF ExecutionInv, CallsDecided, In, ShouldRetry
    <2>. QED
        BY <2>5, <2>6, <2>7 DEF ExecutionInv
<1>2. CASE InvocationFails(e)
    <2>1. /\ inflight' \in [Execs -> 0..MaxInflight]
          /\ \A x \in Execs : inflight'[x] > 0 => x \in sent
          /\ UNCHANGED <<row, older, calls, events, found, sent, reported>>
        BY <1>2, <1>a, AnswerCounts DEF InvocationFails
    <2>. QED
        BY <2>1 DEF ExecutionInv, TypeOK, TrafficIsSent, CallsDecided, In, ShouldRetry,
                    RetryCountBounded, StatusWasReported
<1>3. ASSUME NEW c \in Calls, NEW s \in Reportable, Answer(e, c, s)
      PROVE  ExecutionInv'
    <2>1. /\ BeginCall(c, e, s, NoNode) /\ UNCHANGED <<row, older, events, found, sent>>
          /\ e \in sent /\ inflight' \in [Execs -> 0..MaxInflight]
          /\ \A x \in Execs : inflight'[x] > 0 => x \in sent
        BY <1>3, <1>a, AnswerCounts DEF Answer
    <2>2. found' \in [Nodes -> [Compensators -> SUBSET sent]]
        BY <1>a, <2>1 DEF TypeOK
    <2>. QED
        BY <2>1, <2>2, ReportingKeeps
<1>4. ASSUME NEW c \in Calls, NEW s \in Reportable, Report(e, c, s)
      PROVE  ExecutionInv'
    <2>1. /\ BeginCall(c, e, s, NoNode) /\ e \in sent
          /\ UNCHANGED <<row, older, inflight, events, found, sent>>
        BY <1>4 DEF Report
    <2>. QED
        BY <1>a, <2>1, ReportingKeeps DEF TypeOK, TrafficIsSent
<1>5. ASSUME NEW s \in Terminal, ConsumeEvent(e, s)
      PROVE  ExecutionInv'
    <2>. DEFINE r == [row[e] EXCEPT !.status = s]
    <2>1. e \in sent /\ s \in reported[e]
        BY <1>5, <1>a DEF ConsumeEvent, TrafficIsSent
    <2>2. r \in Row /\ r.status = s /\ r.retryCount = row[e].retryCount
        BY <1>a DEF Row
    <2>3. r.status # NONE
        BY <2>2 DEF Terminal, SUCCESS, FAILED, NONE
    <2>4. row' = [row EXCEPT ![e] = r]
        BY <1>5 DEF ConsumeEvent, Terminal, SUCCESS, FAILED
    <2>5. /\ events' \in [Execs -> [Terminal -> 0..MaxQueued]]
          /\ \A x \in Execs, k \in Terminal : events'[x][k] > 0 => events[x][k] > 0
        BY <1>5, <1>a, EventTaken DEF ConsumeEvent
    <2>. QED
        BY <1>5, <2>1, <2>2, <2>3, <2>4, <2>5, RowKeeps DEF ConsumeEvent
<1>6. ASSUME NEW s \in Terminal, LoseEvent(e, s)
      PROVE  ExecutionInv'
    <2>1. /\ events' \in [Execs -> [Terminal -> 0..MaxQueued]]
          /\ \A x \in Execs, k \in Terminal : events'[x][k] > 0 => events[x][k] > 0
        BY <1>6, <1>a, EventTaken DEF LoseEvent
    <2>. QED
        BY <1>6, <2>1 DEF LoseEvent, ExecutionInv, TypeOK, TrafficIsSent, CallsDecided, In,
                          ShouldRetry, RetryCountBounded, StatusWasReported
<1>7. CASE RetryTimeComes(e) \/ DeadlinePasses(e)
    <2>1. PICK r \in {[row[e] EXCEPT !.retryDue = TRUE], [row[e] EXCEPT !.overdue = TRUE]} :
              row' = [row EXCEPT ![e] = r]
        BY <1>7 DEF RetryTimeComes, DeadlinePasses
    <2>2. r \in Row /\ r.status = row[e].status /\ r.retryCount = row[e].retryCount
        BY <1>a, <2>1 DEF Row
    <2>3. /\ r.status # NONE /\ e \in sent
          /\ UNCHANGED <<older, inflight, calls, events, found, sent, reported>>
        BY <1>7, <1>a, <2>2
        DEF RetryTimeComes, DeadlinePasses, TypeOK, FAILED_RETRYABLE, RUNNING, NONE
    <2>4. r.status = PREPARE \/ r.status \in reported[e]
        BY <2>2, <2>3 DEF ExecutionInv, StatusWasReported
    <2>. QED
        BY <1>a, <2>1, <2>2, <2>3, <2>4, RowKeeps DEF TypeOK
<1>. QED
    BY <1>1, <1>2, <1>3, <1>4, <1>5, <1>6, <1>7, ExecutionAssumption DEF Executing

\* The compensators: what a query finds was handed out.
LEMMA EligibleIsSent ==
    ASSUME TypeOK, NEW k \in Compensators
    PROVE  Eligible(k) \subseteq sent
<1>1. Retryable \subseteq sent /\ Reschedulable \subseteq sent /\ TimedOut \subseteq sent
    BY DEF TypeOK, Retryable, Reschedulable, TimedOut, NONE, FAILED_RETRYABLE,
           FAILED_RESCHEDULED, RUNNING
<1>2. Eligible(k) \in {Retryable, Reschedulable, TimedOut}
    BY DEF Eligible, Compensators
<1>. QED
    BY <1>1, <1>2

LEMMA CompensatingKeeps ==
    ASSUME ExecutionInv, NEW n \in Nodes, Compensating(n)
    PROVE  ExecutionInv'
<1>a. TypeOK /\ TrafficIsSent
    BY DEF ExecutionInv
<1>b. ASSUME NEW k \in Compensators, NEW e, TakeFound(n, k, e)
      PROVE  e \in sent /\ e \in Execs /\ found' \in [Nodes -> [Compensators -> SUBSET sent]]
    BY <1>a, <1>b DEF TakeFound, TypeOK
<1>1. ASSUME NEW k \in Compensators, FindExecutions(n, k)
      PROVE  ExecutionInv'
    <2>1. found' \in [Nodes -> [Compensators -> SUBSET sent]]
        BY <1>1, <1>a, EligibleIsSent DEF FindExecutions, Batches, Limited, TypeOK
    <2>. QED
        BY <1>1, <2>1 DEF FindExecutions, ExecutionInv, TypeOK, TrafficIsSent, CallsDecided,
                          In, ShouldRetry, RetryCountBounded, StatusWasReported
<1>2. ASSUME NEW k \in Compensators, NEW e \in Execs, Redispatch(n, k, e)
      PROVE  ExecutionInv'
    <2>1. e \in sent /\ found' \in [Nodes -> [Compensators -> SUBSET sent]]
        BY <1>2, <1>b DEF Redispatch
    <2>2. /\ inflight' \in [Execs -> 0..MaxInflight] /\ sent' = sent
          /\ \A x \in Execs : inflight'[x] > 0 => x \in sent
        BY <1>2, <1>a, <2>1, InvokeCounts DEF Redispatch
    <2>. QED
        BY <1>2, <2>1, <2>2 DEF Redispatch, ExecutionInv, TypeOK, TrafficIsSent, CallsDecided,
                          In, ShouldRetry, RetryCountBounded, StatusWasReported
<1>3. ASSUME NEW e \in Execs, NEW c \in Calls, NEW s \in Reportable, Interrupt(n, e, c, s)
      PROVE  ExecutionInv'
    <2>1. e \in sent /\ found' \in [Nodes -> [Compensators -> SUBSET sent]]
        BY <1>3, <1>b DEF Interrupt, Compensators
    <2>2. BeginCall(c, e, s, n) /\ UNCHANGED <<row, older, inflight, events, sent>>
        BY <1>3 DEF Interrupt
    <2>. QED
        BY <1>a, <2>1, <2>2, ReportingKeeps DEF TypeOK, TrafficIsSent
<1>4. ASSUME NEW e \in Execs, InterruptFails(n, e)
      PROVE  ExecutionInv'
    <2>1. found' \in [Nodes -> [Compensators -> SUBSET sent]]
        BY <1>4, <1>b DEF InterruptFails, Compensators
    <2>. QED
        BY <1>4, <2>1 DEF InterruptFails, ExecutionInv, TypeOK, TrafficIsSent, CallsDecided,
                          In, ShouldRetry, RetryCountBounded, StatusWasReported
<1>. QED
    BY <1>1, <1>2, <1>3, <1>4, ExecutionAssumption DEF Compensating

----------------------------------------------------------------------------
(* Theorems. *)

LEMMA StepInv == ExecutionInv /\ [Next]_vars => ExecutionInv'
<1>1. CASE UNCHANGED vars
    BY <1>1 DEF vars, ExecutionInv, TypeOK, TrafficIsSent, CallsDecided, In, ShouldRetry,
                RetryCountBounded, StatusWasReported
<1>. QED
    BY <1>1, CallingKeeps, ExecutingKeeps, CompensatingKeeps DEF Next

\* Everything known of the record, the calls and the events holds for ever.
THEOREM ExecutionInvariant == Spec => []ExecutionInv
BY InitInv, StepInv, PTL DEF Spec

\* Type correctness: in particular a call in progress, a list of a compensator
\* and a row with a state belong to executions that were handed out.
THEOREM ExecutionTypeCorrect == Spec => []TypeOK
BY ExecutionInvariant, PTL DEF ExecutionInv

\* updateRetryState never lets retry_count pass MaxRetries, however many calls
\* run at the same time and however stale the rows are that they read.
THEOREM RetriesAreBounded == Spec => []RetryCountBounded
BY ExecutionInvariant, PTL DEF ExecutionInv

\* The record shows only states that were reported for the execution.
THEOREM StatusesWereReported == Spec => []StatusWasReported
BY ExecutionInvariant, PTL DEF ExecutionInv

\* The only statement that writes RUNNING looks at the row, so that no step
\* takes the row of an ended execution back to RUNNING.
LEMMA StepNoRestart ==
    ASSUME TypeOK, [Next]_vars, NEW e \in Execs, row[e].status \in Terminal
    PROVE  row'[e].status # RUNNING
<1>. USE DEF Terminal, SUCCESS, FAILED, RUNNING, PREPARE, FAILED_RETRYABLE, FAILED_RESCHEDULED
<1>1. CASE UNCHANGED row
    BY <1>1
<1>2. ASSUME NEW c \in Calls, Calling(c)
      PROVE  row'[e].status # RUNNING
    <2>1. row \in [Execs -> Row]
        BY DEF TypeOK
    <2>2. CASE SetRunningState(c)
        BY <2>1, <2>2 DEF SetRunningState
    <2>3. CASE UpdateRetryResult(c) /\ ~UNCHANGED row
        <3>1. row' = [row EXCEPT ![calls[c].exec].status = FAILED_RETRYABLE,
                                 ![calls[c].exec].retryCount = calls[c].retryCount + 1,
                                 ![calls[c].exec].retryDue = FALSE]
            BY <2>3 DEF UpdateRetryResult
        <3>. QED
            BY <2>1, <3>1
    <2>4. CASE UpdateScheduleResult(c)
        BY <2>1, <2>4 DEF UpdateScheduleResult
    <2>. QED
        BY <1>1, <1>2, <2>2, <2>3, <2>4 DEF Calling, SendCompletedEvent, CallFails
<1>3. ASSUME NEW x \in Execs, Executing(x)
      PROVE  row'[e].status # RUNNING
    <2>1. row \in [Execs -> Row]
        BY DEF TypeOK
    <2>2. CASE CreateExecution(x)
        BY <2>1, <2>2 DEF CreateExecution
    <2>3. ASSUME NEW s \in Terminal, ConsumeEvent(x, s)
          PROVE  row'[e].status # RUNNING
        BY <2>1, <2>3 DEF ConsumeEvent
    <2>4. CASE RetryTimeComes(x)
        BY <2>1, <2>4 DEF RetryTimeComes
    <2>5. CASE DeadlinePasses(x)
        BY <2>1, <2>5 DEF DeadlinePasses
    <2>. QED
        BY <1>1, <1>3, <2>2, <2>3, <2>4, <2>5
        DEF Executing, InvocationFails, Answer, Report, LoseEvent
<1>4. ASSUME NEW n \in Nodes, Compensating(n)
      PROVE  UNCHANGED row
    BY <1>4 DEF Compensating, FindExecutions, Redispatch, Interrupt, InterruptFails
<1>. QED
    BY <1>1, <1>2, <1>3, <1>4 DEF Next, vars

\* An ended execution is never shown as running again.
THEOREM EndedIsNotRestarted == Spec => NoRestartAfterEnd
<1>1. TypeOK /\ [Next]_vars =>
          [\A e \in Execs : row[e].status \in Terminal => row'[e].status # RUNNING]_vars
    BY StepNoRestart
<1>. QED
    BY <1>1, ExecutionTypeCorrect, PTL DEF Spec, NoRestartAfterEnd
=============================================================================
