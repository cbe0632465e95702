------------------------------ MODULE Dispatch ------------------------------
(***************************************************************************)
(* One execution between the schedulers and the executors of its service:  *)
(* the runner and the compensators send Execute and Interrupt, the routing *)
(* picker chooses the node, an executor built on the SDK answers from its  *)
(* map or starts a run, and answers and reports come back to UpdateState.  *)
(* Executors restart, calls fail, answers and reports get lost.            *)
(*                                                                         *)
(* Source: internal/service/scheduler/scheduler.go (newContext),           *)
(* internal/service/runner/normal_task.go, internal/service/invoker,       *)
(* internal/compensator, sdk/executor/executor.go,                         *)
(* internal/service/task/execution_service.go.                             *)
(*                                                                         *)
(* The steps inside Execute are in Executor, those inside UpdateState in   *)
(* ExecutionState, the connections in RoutingBalancer; each is one step    *)
(* here, and every scheduler sees the same connections.                    *)
(***************************************************************************)
EXTENDS Integers, RoutingPicker

CONSTANTS
    Nodes,          \* executors of the service, by service id
    Slots,          \* bound: RPCs under way at a time
    FailureStates,  \* how executors report a failed handler: the SDK says
                    \* FAILED, the protocol has FAILED_RETRYABLE as well
    MaxRetries,     \* RetryConfig.MaxRetries, positive
    MaxLosses       \* bound: calls that fail, messages lost, processes killed

ASSUME DispatchAssumption ==
    /\ NoNode \notin Nodes
    /\ FailureStates \subseteq {"FAILED", "FAILED_RETRYABLE"}
    /\ MaxRetries \in Nat \ {0} /\ MaxLosses \in Nat

NONE == "NONE"
PREPARE == "PREPARE"
RUNNING == "RUNNING"
SUCCESS == "SUCCESS"
FAILED == "FAILED"
FAILED_RETRYABLE == "FAILED_RETRYABLE"
FAILED_RESCHEDULABLE == "FAILED_RESCHEDULABLE"   \* on the wire
FAILED_RESCHEDULED == "FAILED_RESCHEDULED"       \* in the record

Terminal == {SUCCESS, FAILED}

VARIABLES
    row,      \* the execution record
    events,   \* completion events on their way to the consumer
    ready,    \* executors that the schedulers are connected to
    states,   \* states[n]: what the map of executor n holds for the execution
    run,      \* run[n]: the goroutine of the execution on n
    calls,    \* the RPCs
    losses,   \* what went wrong so far, counted ...
    reasons   \* ... and why the record may stay behind

vars == <<row, events, ready, states, run, calls, losses, reasons>>

OnWire == {RUNNING, SUCCESS, FAILED, FAILED_RETRYABLE, FAILED_RESCHEDULABLE}

\* Something was lost; a failure came after the last retry; the end of a run was
\* reported before the answer that says it runs; no connection to the named node.
Reasons == {"lost", "exhausted", "overtaken", "unreached"}

Row == [status : {NONE, PREPARE, RUNNING, FAILED_RETRYABLE, FAILED_RESCHEDULED} \cup Terminal,
        node : Nodes \cup {NoNode}, retryCount : 0..MaxRetries]

Ctx == [specific : Nodes \cup {NoNode}, excluded : Nodes \cup {NoNode}]

Call == [phase : {"idle", "sent", "serving", "answered"}, kind : {"execute", "interrupt"},
         ctx : Ctx, node : Nodes \cup {NoNode}, answer : OnWire \cup {NONE}]

Idle == [phase |-> "idle", kind |-> "execute", ctx |-> AnyNode, node |-> NoNode,
         answer |-> NONE]

\* Connections are made in the background: any may still be missing.
Init ==
    /\ row = [status |-> NONE, node |-> NoNode, retryCount |-> 0]
    /\ events = {}
    /\ ready \in SUBSET Nodes
    /\ states = [n \in Nodes |-> NONE]
    /\ run = [n \in Nodes |-> "none"]
    /\ calls = [i \in Slots |-> Idle]
    /\ losses = 0 /\ reasons = {}

\* Something fails or gets lost, from now on an explanation.
Loses == losses < MaxLosses /\ losses' = losses + 1 /\ reasons' = reasons \cup {"lost"}

NothingLost == UNCHANGED <<losses, reasons>>

----------------------------------------------------------------------------
(* UpdateState. *)

TaskExecutionStatusFromProto(s) == IF s = FAILED_RESCHEDULABLE THEN FAILED_RESCHEDULED ELSE s

\* State s of the execution, told by node n.  A retry beyond the last one
\* changes nothing and announces nothing.  A RUNNING that is applied after the
\* end of the run was reported has been overtaken.
UpdateState(n, s) ==
    LET status == TaskExecutionStatusFromProto(s)
        record == [status |-> status, node |-> n, retryCount |-> row.retryCount]
    IN  CASE row.status \in Terminal -> UNCHANGED <<row, events, reasons>>
          [] row.status \notin Terminal /\ status = RUNNING ->
                /\ row' = IF row.status = RUNNING THEN row ELSE record
                /\ reasons' = reasons \cup (IF row.status # RUNNING /\ run[n] = "none"
                                            THEN {"overtaken"} ELSE {})
                /\ UNCHANGED events
          [] row.status \notin Terminal /\ status = FAILED_RETRYABLE ->
                /\ row' = IF row.retryCount < MaxRetries
                          THEN [record EXCEPT !.retryCount = @ + 1] ELSE row
                /\ reasons' = IF row.retryCount < MaxRetries THEN reasons
                              ELSE reasons \cup {"exhausted"}
                /\ UNCHANGED events
          [] row.status \notin Terminal /\ status = FAILED_RESCHEDULED ->
                row' = record /\ UNCHANGED <<events, reasons>>
          [] row.status \notin Terminal /\ status \in Terminal ->
                events' = events \cup {status} /\ UNCHANGED <<row, reasons>>

\* The consumer of completion events writes the final state and no node, or fails
\* to.
ConsumeEvent(s) ==
    /\ s \in events
    /\ events' = events \ {s}
    /\ \/ row' = [row EXCEPT !.status = s, !.node = NoNode] /\ NothingLost
       \/ Loses /\ UNCHANGED row
    /\ UNCHANGED <<ready, states, run, calls>>

----------------------------------------------------------------------------
(* The runner and the compensators. *)

Send(i, kind, ctx) ==
    /\ calls[i].phase = "idle"
    /\ calls' = [calls EXCEPT ![i] = [Idle EXCEPT !.phase = "sent", !.kind = kind, !.ctx = ctx]]

\* The executor picker names a registered node, which a dead one still is for
\* a while, or fails; then the balancer decides alone.
PickNode(ctx) == \E n \in Nodes \cup {NoNode} : ctx = WithSpecificNodeID(AnyNode, n)

\* newContext and handleNormalTask.
Run(i) ==
    /\ row.status = NONE
    /\ row' = [row EXCEPT !.status = PREPARE]
    /\ \E ctx \in Ctx : PickNode(ctx) /\ Send(i, "execute", ctx)
    /\ UNCHANGED <<events, ready, states, run, losses, reasons>>

\* Mutant of Retry: no retry once the count has reached the limit.
RetryBeforeLast(i) ==
    /\ row.status = FAILED_RETRYABLE /\ row.retryCount < MaxRetries
    /\ Send(i, "execute", WithExcludedNodeID(AnyNode, row.node))
    /\ UNCHANGED <<row, events, ready, states, run, losses, reasons>>

\* The executor that reported the failure is avoided.
Retry(i) ==
    /\ row.status = FAILED_RETRYABLE
    /\ Send(i, "execute", WithExcludedNodeID(AnyNode, row.node))
    /\ UNCHANGED <<row, events, ready, states, run, losses, reasons>>

\* Mutant of Reschedule: the recorded node is avoided, as by a retry.
RescheduleElsewhere(i) ==
    /\ row.status = FAILED_RESCHEDULED
    /\ Send(i, "execute", WithExcludedNodeID(AnyNode, row.node))
    /\ UNCHANGED <<row, events, ready, states, run, losses, reasons>>

\* The executor that was interrupted is asked again.
Reschedule(i) ==
    /\ row.status = FAILED_RESCHEDULED
    /\ Send(i, "execute", WithSpecificNodeID(AnyNode, row.node))
    /\ UNCHANGED <<row, events, ready, states, run, losses, reasons>>

\* The deadline has passed.  The call names no node.
Interrupt(i) ==
    /\ row.status = RUNNING
    /\ Send(i, "interrupt", AnyNode)
    /\ UNCHANGED <<row, events, ready, states, run, losses, reasons>>

----------------------------------------------------------------------------
(* The calls. *)

\* Mutant of Execute: a state that is final does not keep a run from starting.
ExecuteRestarts(n) ==
    /\ states' = [states EXCEPT ![n] = IF @ = NONE THEN RUNNING ELSE @]
    /\ run' = [run EXCEPT ![n] = IF @ = "none" THEN "running" ELSE @]

\* Execute starts a run unless the map has an entry; Interrupt cancels a run
\* whose cancel function is still there.
Execute(n) ==
    /\ states' = [states EXCEPT ![n] = IF @ = NONE THEN RUNNING ELSE @]
    /\ run' = [run EXCEPT ![n] = IF states[n] = NONE THEN "running" ELSE @]

Cancel(n) ==
    /\ run' = [run EXCEPT ![n] = IF @ = "running" THEN "cancelled" ELSE @]
    /\ UNCHANGED states

\* The picker chooses a node, and the node handles the request.  Without any
\* connection the call waits, with none to the named node it fails; the caller
\* only logs that, and the record stays as it is.
Serve(i) ==
    /\ calls[i].phase = "sent" /\ ready # {}
    /\ LET found == Pick(ready, [n \in Nodes |-> n], calls[i].ctx)
       IN  \/ /\ found = {}
              /\ calls' = [calls EXCEPT ![i] = Idle]
              /\ reasons' = reasons \cup {"unreached"}
              /\ UNCHANGED <<states, run>>
           \/ \E n \in found :
                 /\ calls' = [calls EXCEPT ![i] =
                       IF calls[i].kind = "interrupt" /\ run[n] = "none" THEN Idle
                       ELSE [@ EXCEPT !.phase = "serving", !.node = n]]
                 /\ IF calls[i].kind = "execute" THEN Execute(n) ELSE Cancel(n)
                 /\ UNCHANGED reasons
    /\ UNCHANGED <<row, events, ready, losses>>

\* The answer is marshalled from the state object as it is by now ...
Marshal(i) ==
    /\ calls[i].phase = "serving"
    /\ calls' = [calls EXCEPT ![i].phase = "answered",
                              ![i].answer = states[calls[i].node]]
    /\ UNCHANGED <<row, events, ready, states, run, losses, reasons>>

\* ... and applied when it has arrived.
Return(i) ==
    /\ calls[i].phase = "answered"
    /\ UpdateState(calls[i].node, calls[i].answer)
    /\ calls' = [calls EXCEPT ![i] = Idle]
    /\ UNCHANGED <<ready, states, run, losses>>

\* The connection breaks, the scheduler dies, or UpdateState fails.
CallFails(i) ==
    /\ calls[i].phase # "idle" /\ Loses
    /\ calls' = [calls EXCEPT ![i] = Idle]
    /\ UNCHANGED <<row, events, ready, states, run>>

----------------------------------------------------------------------------
(* The executors. *)

HandlerReturns(n) ==
    /\ run[n] \in {"running", "cancelled"}
    /\ \E s \in IF run[n] = "cancelled" THEN {FAILED_RESCHEDULABLE}
                ELSE {SUCCESS} \cup FailureStates :
          states' = [states EXCEPT ![n] = s]
    /\ run' = [run EXCEPT ![n] = "ended"]
    /\ UNCHANGED <<row, events, ready, calls, losses, reasons>>

\* Mutant of ReportFinal: the end of an interrupted run is not reported.
ReportFinalUnlessCancelled(n) ==
    /\ run[n] = "ended"
    /\ run' = [run EXCEPT ![n] = "none"]
    /\ \/ states[n] # FAILED_RESCHEDULABLE /\ UpdateState(n, states[n]) /\ UNCHANGED losses
       \/ states[n] = FAILED_RESCHEDULABLE /\ UNCHANGED <<row, events, losses, reasons>>
       \/ Loses /\ UNCHANGED <<row, events>>
    /\ UNCHANGED <<ready, states, calls>>

\* The report is applied or lost, and never sent again.  Then the cancel
\* function is deleted; the map keeps the state.
ReportFinal(n) ==
    /\ run[n] = "ended"
    /\ run' = [run EXCEPT ![n] = "none"]
    /\ \/ UpdateState(n, states[n]) /\ UNCHANGED losses
       \/ Loses /\ UNCHANGED <<row, events>>
    /\ UNCHANGED <<ready, states, calls>>

\* The calls that n serves end with an error when the connection to it goes.
DropConnection(n) ==
    /\ ready' = ready \ {n}
    /\ calls' = [i \in Slots |-> IF calls[i].phase = "serving" /\ calls[i].node = n
                                 THEN Idle ELSE calls[i]]

\* The executor goes on.
Disconnect(n) ==
    /\ n \in ready /\ Loses
    /\ DropConnection(n)
    /\ UNCHANGED <<row, events, states, run>>

\* The executor ends, and with it its runs and all it knew.
Die(n) ==
    /\ Loses
    /\ DropConnection(n)
    /\ states' = [states EXCEPT ![n] = NONE]
    /\ run' = [run EXCEPT ![n] = "none"]
    /\ UNCHANGED <<row, events>>

\* The connection is there, for the first time or again.
Connect(n) ==
    /\ n \in Nodes \ ready
    /\ ready' = ready \cup {n}
    /\ UNCHANGED <<row, events, states, run, calls, losses, reasons>>

----------------------------------------------------------------------------
Next ==
    \/ \E i \in Slots : \/ Run(i) \/ Retry(i) \/ Reschedule(i) \/ Interrupt(i)
                        \/ Serve(i) \/ Marshal(i) \/ Return(i) \/ CallFails(i)
    \/ \E n \in Nodes : \/ HandlerReturns(n) \/ ReportFinal(n)
                        \/ Connect(n) \/ Disconnect(n) \/ Die(n)
    \/ \E s \in Terminal : ConsumeEvent(s)

Spec == Init /\ [][Next]_vars

\* Tasks are scheduled, loops come round again, RPCs end, handlers return, the
\* broker delivers, and clients that have no connection redial until they have
\* one.  Nothing has to time out, to fail or to be connected to every node.
FairSpec ==
    /\ Spec
    /\ WF_vars(\E i \in Slots : Run(i))
    /\ WF_vars(\E i \in Slots : Retry(i))
    /\ WF_vars(\E i \in Slots : Reschedule(i))
    /\ \A i \in Slots : WF_vars(Serve(i) \/ Marshal(i) \/ Return(i))
    /\ \A n \in Nodes : WF_vars(HandlerReturns(n) \/ ReportFinal(n))
    /\ \A s \in Terminal : WF_vars(ConsumeEvent(s))
    /\ WF_vars(ready = {} /\ \E n \in Nodes : Connect(n))

----------------------------------------------------------------------------
(* Properties. *)

\* Type invariant; a record that left PREPARE names the node that spoke last,
\* and the handler runs only where the map says so.
TypeOK ==
    /\ row \in Row
    /\ row.status \in {RUNNING, FAILED_RETRYABLE, FAILED_RESCHEDULED} => row.node \in Nodes
    /\ events \subseteq Terminal /\ ready \subseteq Nodes
    /\ states \in [Nodes -> OnWire \cup {NONE}]
    /\ run \in [Nodes -> {"none", "running", "cancelled", "ended"}]
    /\ \A n \in Nodes : run[n] \in {"running", "cancelled"} => states[n] = RUNNING
    /\ calls \in [Slots -> Call]
    /\ losses \in 0..MaxLosses /\ reasons \subseteq Reasons

\* Only a retry takes an execution to a second executor: an interrupted one goes
\* back to the executor that had it, however late its calls and answers are.
SecondNodeIsRetry ==
    \A m, n \in Nodes : m # n /\ states[m] # NONE /\ states[n] # NONE => row.retryCount > 0

\* What explains a record that stays as it is, by the state it is in.
Explains(status) ==
    CASE status = PREPARE -> {"lost", "unreached"}
      [] status = RUNNING -> {"lost", "exhausted", "overtaken"}
      [] status = FAILED_RETRYABLE -> {"exhausted"}
      [] OTHER -> {}

\* A record says RUNNING only while some executor is at it, or the news of the
\* end is on its way; otherwise something was lost, an answer was overtaken by
\* the report of the end, or the retries were used up.
RunningIsExplained ==
    row.status = RUNNING =>
        (\E n \in Nodes : run[n] # "none") \/ events # {} \/ reasons \cap Explains(RUNNING) # {}

\* A task that is due comes to an end.  A record stays PREPARE only when something
\* was lost or the node its first call names was not connected, RUNNING only for
\* the reasons above, FAILED_RETRYABLE only when its retries are used up, and
\* what was interrupted stays FAILED_RESCHEDULED.
EndsUnlessExplained ==
    []<>(\/ row.status \in Terminal \cup {FAILED_RESCHEDULED}
         \/ reasons \cap Explains(row.status) # {})

\* execution_service.go: past the last retry "only the completion event is sent,
\* and the consumer sets the final state".
ExhaustedEnds == "exhausted" \in reasons ~> row.status \in Terminal

\* executor.proto: an interrupted execution is "rescheduled to node B later", so
\* that it does not stay FAILED_RESCHEDULED for ever.
RescheduleRunsAgain ==
    row.status = FAILED_RESCHEDULED ~> row.status # FAILED_RESCHEDULED
=============================================================================
