------------------------------ MODULE Executor ------------------------------
(***************************************************************************)
(* One executor process built on the SDK: Execute starts a handler in a    *)
(* goroutine and answers at once, Interrupt cancels it, and the goroutine  *)
(* reports how the handler ended.  gRPC serves the requests concurrently;  *)
(* the two maps states and cancels are synchronised, what happens between  *)
(* two accesses of them is not.                                            *)
(*                                                                         *)
(* Source: sdk/executor/executor.go.                                       *)
(*                                                                         *)
(* Execute allocates an ExecutionState object and starts one run for it,   *)
(* so that runs[k] stands for both; states[e] is the pointer the map holds,*)
(* and an answer is marshalled from the object some time after the handler *)
(* of the request has returned the pointer.                                *)
(***************************************************************************)
EXTENDS Integers, Sequences

CONSTANTS
    Eids,        \* execution ids
    NoEid,       \* a request slot that is free
    Requests,    \* slots for concurrent Execute and Query requests
    Interrupts,  \* slots for concurrent Interrupt requests
    MaxRuns      \* bound: runs started

ASSUME ExecutorAssumption == NoEid \notin Eids /\ MaxRuns \in Nat

RUNNING == "RUNNING"
SUCCESS == "SUCCESS"
FAILED == "FAILED"
FAILED_RESCHEDULABLE == "FAILED_RESCHEDULABLE"
NONE == "NONE"   \* not decided yet

Final == {SUCCESS, FAILED, FAILED_RESCHEDULABLE}

VARIABLES
    runs,       \* runs started so far, with the state object of each
    states,     \* the map states: index of an object, 0 if absent
    cancels,    \* the map cancels: whose cancel function, 0 if absent
    request,    \* Execute and Query requests being served
    interrupt,  \* Interrupt requests being served
    told,       \* states the scheduler was told, by answers and reports
    raced       \* history: eids stored by a request that another one overtook

vars == <<runs, states, cancels, request, interrupt, told, raced>>

Phases == {"stored", "handler", "decided", "set", "kept", "reported", "over"}

Run == [eid : Eids, phase : Phases,
        state : {RUNNING} \cup Final,  \* status field of the object
        cancelled : BOOLEAN,           \* runCtx.Err() # nil
        final : {NONE} \cup Final,     \* what executeTask decided
        target : 0..MaxRuns]           \* object reportFinalResult has loaded

\* Mutant of NewRun: the status of the new object is left at its zero value.
NewRunWithoutStatus(e) ==
    [eid |-> e, phase |-> "stored", state |-> NONE, cancelled |-> FALSE,
     final |-> NONE, target |-> 0]

NewRun(e) == [eid |-> e, phase |-> "stored", state |-> RUNNING, cancelled |-> FALSE,
              final |-> NONE, target |-> 0]

Request == [phase : {"idle", "missed", "stored", "answer"}, eid : Eids \cup {NoEid},
            obj : 0..MaxRuns]  \* what it found in the map, or has made

FreeRequest == [phase |-> "idle", eid |-> NoEid, obj |-> 0]

Init ==
    /\ runs = <<>>
    /\ states = [e \in Eids |-> 0]
    /\ cancels = [e \in Eids |-> 0]
    /\ request = [r \in Requests |-> FreeRequest]
    /\ interrupt = [i \in Interrupts |-> NoEid]
    /\ told = {}
    /\ raced = {}

----------------------------------------------------------------------------
(* Execute. *)

\* Mutant of ExecuteLoads: a cancelled run does not count as being executed.
ExecuteLoadsUnlessCancelled(r, e) ==
    /\ request[r].phase = "idle"
    /\ LET hit == states[e] # 0 /\ ~runs[states[e]].cancelled
       IN  request' = [request EXCEPT ![r] =
                          [phase |-> IF hit THEN "answer" ELSE "missed",
                           eid |-> e, obj |-> states[e]]]
    /\ UNCHANGED <<runs, states, cancels, interrupt, told, raced>>

\* An eid that is already in the map is answered from the map.
ExecuteLoads(r, e) ==
    /\ request[r].phase = "idle"
    /\ request' = [request EXCEPT ![r] =
                      [phase |-> IF states[e] = 0 THEN "missed" ELSE "answer",
                       eid |-> e, obj |-> states[e]]]
    /\ UNCHANGED <<runs, states, cancels, interrupt, told, raced>>

\* Query answers an eid of the map in the same way, and starts nothing for any
\* other: UNKNOWN tells no state.
Query(r, e) ==
    /\ request[r].phase = "idle" /\ states[e] # 0
    /\ request' = [request EXCEPT ![r] = [phase |-> "answer", eid |-> e, obj |-> states[e]]]
    /\ UNCHANGED <<runs, states, cancels, interrupt, told, raced>>

\* The map may have changed since it was read: nothing is looked at again.
ExecuteStores(r) ==
    /\ request[r].phase = "missed" /\ Len(runs) < MaxRuns
    /\ LET e == request[r].eid
           k == Len(runs) + 1
       IN  /\ runs' = Append(runs, NewRun(e))
           /\ states' = [states EXCEPT ![e] = k]
           /\ request' = [request EXCEPT ![r] = [phase |-> "stored", eid |-> e, obj |-> k]]
           /\ raced' = IF states[e] = request[r].obj THEN raced ELSE raced \cup {e}
    /\ UNCHANGED <<cancels, interrupt, told>>

\* The cancel function is stored and the goroutine started.
ExecuteStarts(r) ==
    /\ request[r].phase = "stored"
    /\ cancels' = [cancels EXCEPT ![request[r].eid] = request[r].obj]
    /\ runs' = [runs EXCEPT ![request[r].obj].phase = "handler"]
    /\ request' = [request EXCEPT ![r].phase = "answer"]
    /\ UNCHANGED <<states, interrupt, told, raced>>

ExecuteAnswers(r) ==
    /\ request[r].phase = "answer"
    /\ told' = told \cup {[eid |-> request[r].eid, state |-> runs[request[r].obj].state]}
    /\ request' = [request EXCEPT ![r] = FreeRequest]
    /\ UNCHANGED <<runs, states, cancels, interrupt, raced>>

----------------------------------------------------------------------------
(* The goroutine of a run: executeTask and reportFinalResult. *)

\* Mutant of HandlerReturns: an interrupted run returns before it has a status.
HandlerReturnsSilently(k, ok) ==
    /\ runs[k].phase = "handler"
    /\ runs' = [runs EXCEPT ![k].phase = IF runs[k].cancelled THEN "reported" ELSE "decided",
                            ![k].final = IF runs[k].cancelled THEN @
                                         ELSE IF ok THEN SUCCESS ELSE FAILED]
    /\ UNCHANGED <<states, cancels, request, interrupt, told, raced>>

\* The handler does not see the cancellation; it ends when it ends (or was not
\* registered, which is an error).  A cancelled run counts as interrupted.
HandlerReturns(k, ok) ==
    /\ runs[k].phase = "handler"
    /\ runs' = [runs EXCEPT ![k].phase = "decided",
                            ![k].final = IF runs[k].cancelled THEN FAILED_RESCHEDULABLE
                                         ELSE IF ok THEN SUCCESS ELSE FAILED]
    /\ UNCHANGED <<states, cancels, request, interrupt, told, raced>>

\* Whatever object the map holds for the eid gets the final status ...
SetFinal(k) ==
    /\ runs[k].phase = "decided"
    /\ LET o == states[runs[k].eid]
       IN  runs' = [j \in DOMAIN runs |->
                       [runs[j] EXCEPT !.state = IF j = o THEN runs[k].final ELSE @,
                                       !.phase = IF j = k THEN "set" ELSE @,
                                       !.target = IF j = k THEN o ELSE @]]
    /\ UNCHANGED <<states, cancels, request, interrupt, told, raced>>

\* ... and is stored back.
StoreFinal(k) ==
    /\ runs[k].phase = "set"
    /\ states' = [states EXCEPT ![runs[k].eid] = runs[k].target]
    /\ runs' = [runs EXCEPT ![k].phase = "kept"]
    /\ UNCHANGED <<cancels, request, interrupt, told, raced>>

\* The Report RPC; an error is only logged.
ReportFinal(k) ==
    /\ runs[k].phase = "kept"
    /\ \/ told' = told \cup {[eid |-> runs[k].eid, state |-> runs[runs[k].target].state]}
       \/ UNCHANGED told
    /\ runs' = [runs EXCEPT ![k].phase = "reported"]
    /\ UNCHANGED <<states, cancels, request, interrupt, raced>>

\* The deferred delete, by eid.
DeleteCancel(k) ==
    /\ runs[k].phase = "reported"
    /\ cancels' = [cancels EXCEPT ![runs[k].eid] = 0]
    /\ runs' = [runs EXCEPT ![k].phase = "over"]
    /\ UNCHANGED <<states, request, interrupt, told, raced>>

----------------------------------------------------------------------------
(* Interrupt.  Without a cancel function it answers Success = false. *)

\* Mutant of InterruptCancels: the state is set by the request, not by the run.
InterruptSetsState(i, e) ==
    /\ interrupt[i] = NoEid /\ cancels[e] # 0
    /\ runs' = [runs EXCEPT ![cancels[e]].cancelled = TRUE,
                            ![cancels[e]].state = FAILED_RESCHEDULABLE]
    /\ interrupt' = [interrupt EXCEPT ![i] = e]
    /\ UNCHANGED <<states, cancels, request, told, raced>>

\* Mutant of InterruptCancels: the cancel function is taken out of the map.
InterruptForgetsCancel(i, e) ==
    /\ interrupt[i] = NoEid /\ cancels[e] # 0
    /\ runs' = [runs EXCEPT ![cancels[e]].cancelled = TRUE]
    /\ cancels' = [cancels EXCEPT ![e] = 0]
    /\ interrupt' = [interrupt EXCEPT ![i] = e]
    /\ UNCHANGED <<states, request, told, raced>>

InterruptCancels(i, e) ==
    /\ interrupt[i] = NoEid /\ cancels[e] # 0
    /\ runs' = [runs EXCEPT ![cancels[e]].cancelled = TRUE]
    /\ interrupt' = [interrupt EXCEPT ![i] = e]
    /\ UNCHANGED <<states, cancels, request, told, raced>>

InterruptAnswers(i) ==
    /\ interrupt[i] # NoEid
    /\ told' = IF states[interrupt[i]] = 0 THEN told
               ELSE told \cup {[eid |-> interrupt[i],
                                state |-> runs[states[interrupt[i]]].state]}
    /\ interrupt' = [interrupt EXCEPT ![i] = NoEid]
    /\ UNCHANGED <<runs, states, cancels, request, raced>>

\* The process dies and comes back: nothing is kept.
Crash ==
    /\ runs' = [k \in DOMAIN runs |-> [runs[k] EXCEPT !.phase = "over"]]
    /\ states' = [e \in Eids |-> 0]
    /\ cancels' = [e \in Eids |-> 0]
    /\ request' = [r \in Requests |-> FreeRequest]
    /\ interrupt' = [i \in Interrupts |-> NoEid]
    /\ raced' = {}
    /\ UNCHANGED told

----------------------------------------------------------------------------
Serve(r) ==
    ExecuteStores(r) \/ ExecuteStarts(r) \/ ExecuteAnswers(r)

Work(k) ==
    \/ \E ok \in BOOLEAN : HandlerReturns(k, ok)
    \/ SetFinal(k) \/ StoreFinal(k) \/ ReportFinal(k) \/ DeleteCancel(k)

Next ==
    \/ \E r \in Requests : Serve(r) \/ \E e \in Eids : ExecuteLoads(r, e) \/ Query(r, e)
    \/ \E k \in DOMAIN runs : Work(k)
    \/ \E i \in Interrupts : InterruptAnswers(i) \/ \E e \in Eids : InterruptCancels(i, e)
    \/ Crash

Spec == Init /\ [][Next]_vars

\* Requests are served and goroutines run on; handlers return.
FairSpec ==
    /\ Spec
    /\ \A r \in Requests : WF_vars(Serve(r))
    /\ \A k \in 1..MaxRuns : WF_vars(k \in DOMAIN runs /\ Work(k))

----------------------------------------------------------------------------
(* Properties. *)

Live(k) == runs[k].phase \notin {"stored", "over"}

\* Type invariant; maps and requests point at objects of their own eid.
TypeOK ==
    /\ runs \in Seq(Run) /\ Len(runs) <= MaxRuns
    /\ {states, cancels} \subseteq [Eids -> 0..MaxRuns]
    /\ \A e \in Eids : \A m \in {states[e], cancels[e]} :
           m # 0 => m \in DOMAIN runs /\ runs[m].eid = e
    /\ request \in [Requests -> Request]
    /\ \A r \in Requests :
           request[r].obj # 0 => request[r].obj \in DOMAIN runs
                                 /\ runs[request[r].obj].eid = request[r].eid
    /\ interrupt \in [Interrupts -> Eids \cup {NoEid}]
    /\ told \subseteq [eid : Eids, state : {RUNNING} \cup Final]
    /\ raced \subseteq Eids

\* What the scheduler is told of an execution's end was decided by a run of
\* this execution: no answer is ahead of the run, and pointers that changed
\* hands between racing requests mix up no executions.
ToldWasDecided ==
    \A m \in told : m.state # RUNNING =>
        \E k \in DOMAIN runs : runs[k].eid = m.eid /\ runs[k].final = m.state

\* An execution has two runs at work only if two requests for it were served at
\* the same time, both before the other was stored: Execute checks the map and
\* stores into it in two steps.  No order of requests, interrupts, late ends and
\* deferred deletes of earlier runs leads to it otherwise.
OneLiveRun ==
    \A j, k \in DOMAIN runs :
        runs[j].eid = runs[k].eid /\ Live(j) /\ Live(k) => j = k \/ runs[j].eid \in raced

\* As long as a handler runs, Interrupt finds its cancel function, unless such
\* a race replaced it or the end of the other run deleted it.
RunIsInterruptible ==
    \A k \in DOMAIN runs :
        runs[k].phase = "handler" => cancels[runs[k].eid] = k \/ runs[k].eid \in raced

\* An accepted execution comes to an end that Query and Interrupt show, unless
\* the process is restarted, however many requests for it were racing.
AcceptedIsSettled ==
    \A e \in Eids :
        states[e] # 0 ~> (states[e] = 0 \/ runs[states[e]].state \in Final)
=============================================================================
