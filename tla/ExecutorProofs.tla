--------------------------- MODULE ExecutorProofs ---------------------------
(***************************************************************************)
(* Proofs about Executor, for every set of executions and every number of  *)
(* concurrent requests, interrupts and runs.                               *)
(***************************************************************************)
EXTENDS Executor, TLAPS, SequenceTheorems

----------------------------------------------------------------------------
(* The inductive invariant. *)

\* A run has decided how it ended exactly from the phase decided on; as long as
\* it is not over the map has an entry for its execution; the object it is going
\* to store back belongs to that execution.
RunsDecide ==
    \A k \in DOMAIN runs :
        /\ runs[k].phase \in {"stored", "handler"} => runs[k].final = NONE
        /\ runs[k].phase \in {"decided", "set", "kept", "reported"} => runs[k].final \in Final
        /\ runs[k].phase # "over" => states[runs[k].eid] # 0
        /\ runs[k].phase \in {"set", "kept"} => /\ runs[k].target \in DOMAIN runs
                                               /\ runs[runs[k].target].eid = runs[k].eid

\* The state an object shows was decided by a run of its execution.
ObjectsDecided ==
    \A j \in DOMAIN runs : runs[j].state # RUNNING =>
        \E k \in DOMAIN runs : runs[k].eid = runs[j].eid /\ runs[k].final = runs[j].state

\* A request that missed has no object, one that stored has the only reference
\* to a run that is not started yet.
RequestsHold ==
    \A r \in Requests :
        /\ request[r].phase # "idle" => request[r].eid \in Eids
        /\ request[r].phase = "missed" => request[r].obj = 0
        /\ request[r].phase \in {"stored", "answer"} => request[r].obj # 0
        /\ request[r].phase = "stored" =>
               /\ runs[request[r].obj].phase = "stored"
               /\ \A q \in Requests : request[q].phase = "stored"
                                          /\ request[q].obj = request[r].obj => q = r

\* Of two runs of an execution one is over, unless two requests raced.
OneWorkingRun ==
    \A j, k \in DOMAIN runs :
        runs[j].eid = runs[k].eid /\ runs[j].phase # "over" /\ runs[k].phase # "over"
            => j = k \/ runs[j].eid \in raced

ExecutorInv ==
    /\ TypeOK /\ RunsDecide /\ ObjectsDecided /\ RequestsHold /\ OneWorkingRun
    /\ ToldWasDecided /\ RunIsInterruptible

LEMMA InitInv == Init => ExecutorInv
<1>. SUFFICES ASSUME Init PROVE ExecutorInv
    OBVIOUS
<1>1. runs \in Seq(Run) /\ Len(runs) = 0 /\ DOMAIN runs = {}
    BY EmptySeq DEF Init
<1>2. TypeOK
    BY <1>1, ExecutorAssumption DEF Init, TypeOK, Request, FreeRequest
<1>3. RunsDecide /\ ObjectsDecided /\ RequestsHold /\ OneWorkingRun
    BY <1>1 DEF Init, RunsDecide, ObjectsDecided, RequestsHold, OneWorkingRun, FreeRequest
<1>4. ToldWasDecided /\ RunIsInterruptible
    BY <1>1 DEF Init, ToldWasDecided, RunIsInterruptible
<1>. QED
    BY <1>2, <1>3, <1>4 DEF ExecutorInv

----------------------------------------------------------------------------
(* Changing the list of runs. *)

\* A list with a run for each run of before, of the same execution.
LEMMA SameRuns ==
    ASSUME TypeOK, runs' \in [DOMAIN runs -> Run]
    PROVE  runs' \in Seq(Run) /\ Len(runs') = Len(runs) /\ DOMAIN runs' = DOMAIN runs
<1>1. Len(runs) \in Nat /\ DOMAIN runs = 1..Len(runs)
    BY DEF TypeOK
<1>2. runs' \in Seq(Run)
    BY <1>1, SeqDef
<1>. QED
    BY <1>1, <1>2

\* A step of one run.
LEMMA OneRunChanges ==
    ASSUME TypeOK, NEW k \in DOMAIN runs, NEW x \in Run, runs' = [runs EXCEPT ![k] = x]
    PROVE  /\ runs' \in Seq(Run) /\ Len(runs') = Len(runs) /\ DOMAIN runs' = DOMAIN runs
           /\ runs'[k] = x
           /\ \A j \in DOMAIN runs : j # k => runs'[j] = runs[j]
<1>1. \A j \in DOMAIN runs : runs[j] \in Run
    BY ElementOfSeq DEF TypeOK
<1>2. runs' \in [DOMAIN runs -> Run]
    BY <1>1
<1>. QED
    BY <1>2, SameRuns

\* The run a request or a map refers to is in the list.
LEMMA References ==
    ASSUME ExecutorInv
    PROVE  /\ \A k \in DOMAIN runs : runs[k] \in Run
           /\ \A e \in Eids : /\ states[e] # 0 => states[e] \in DOMAIN runs
                                                  /\ runs[states[e]].eid = e
                              /\ cancels[e] # 0 => cancels[e] \in DOMAIN runs
                                                  /\ runs[cancels[e]].eid = e
           /\ \A r \in Requests : request[r].phase \in {"stored", "answer"} =>
                  /\ request[r].eid \in Eids
                  /\ request[r].obj \in DOMAIN runs
                  /\ runs[request[r].obj].eid = request[r].eid
           /\ \A k \in DOMAIN runs : runs[k].phase # "over" =>
                  /\ states[runs[k].eid] \in DOMAIN runs
                  /\ runs[states[runs[k].eid]].eid = runs[k].eid
<1>1. \A k \in DOMAIN runs : runs[k] \in Run
    BY ElementOfSeq DEF ExecutorInv, TypeOK
<1>2. \A k \in DOMAIN runs : runs[k].eid \in Eids
    BY <1>1 DEF Run
<1>. QED
    BY <1>1, <1>2 DEF ExecutorInv, TypeOK, RunsDecide, RequestsHold

\* What is told of an object was decided.
LEMMA ObjectTold ==
    ASSUME ExecutorInv, NEW k \in DOMAIN runs
    PROVE  LET m == [eid |-> runs[k].eid, state |-> runs[k].state]
           IN  /\ m \in [eid : Eids, state : {RUNNING} \cup Final]
               /\ m.state # RUNNING => \E j \in DOMAIN runs : /\ runs[j].eid = m.eid
                                                              /\ runs[j].final = m.state
<1>1. runs[k] \in Run
    BY References
<1>. QED
    BY <1>1 DEF Run, ExecutorInv, ObjectsDecided

\* A step that keeps the executions and the decisions of all runs, and brings
\* none back that is over.
RunsGoOn ==
    /\ DOMAIN runs' = DOMAIN runs /\ raced' = raced
    /\ \A k \in DOMAIN runs :
           /\ runs'[k].eid = runs[k].eid
           /\ runs[k].final # NONE => runs'[k].final = runs[k].final
           /\ runs'[k].phase # "over" => runs[k].phase # "over"

LEMMA RunsGoOnKeeps ==
    ASSUME ExecutorInv, RunsGoOn
    PROVE  /\ OneWorkingRun'
           /\ told' = told => ToldWasDecided'
           /\ (\A k \in DOMAIN runs : runs'[k].state = runs[k].state) => ObjectsDecided'
<1>1. ASSUME NEW x, NEW f, f # NONE, \E j \in DOMAIN runs : runs[j].eid = x /\ runs[j].final = f
      PROVE  \E j \in DOMAIN runs' : runs'[j].eid = x /\ runs'[j].final = f
    BY <1>1 DEF RunsGoOn
<1>2. OneWorkingRun'
    BY DEF ExecutorInv, OneWorkingRun, RunsGoOn
<1>3. ASSUME told' = told PROVE ToldWasDecided'
    <2>1. \A m \in told : m.state # NONE
        BY DEF ExecutorInv, TypeOK, Final, NONE, RUNNING, SUCCESS, FAILED, FAILED_RESCHEDULABLE
    <2>. QED
        BY <1>1, <1>3, <2>1 DEF ExecutorInv, ToldWasDecided
<1>4. ASSUME \A k \in DOMAIN runs : runs'[k].state = runs[k].state PROVE ObjectsDecided'
    <2>1. \A k \in DOMAIN runs : runs[k].state # NONE
        BY References DEF Run, Final, NONE, RUNNING, SUCCESS, FAILED, FAILED_RESCHEDULABLE
    <2>. SUFFICES ASSUME NEW j \in DOMAIN runs', runs'[j].state # RUNNING
                  PROVE  \E k \in DOMAIN runs' : /\ runs'[k].eid = runs'[j].eid
                                                 /\ runs'[k].final = runs'[j].state
        BY DEF ObjectsDecided
    <2>2. j \in DOMAIN runs /\ runs'[j].state = runs[j].state /\ runs'[j].eid = runs[j].eid
        BY <1>4 DEF RunsGoOn
    <2>. QED
        BY <1>1, <2>1, <2>2 DEF ExecutorInv, ObjectsDecided
<1>. QED
    BY <1>2, <1>3, <1>4

----------------------------------------------------------------------------
(* Requests. *)

LEMMA LoadsKeep ==
    ASSUME ExecutorInv, NEW r \in Requests, NEW e \in Eids, ExecuteLoads(r, e) \/ Query(r, e)
    PROVE  ExecutorInv'
<1>. DEFINE new == [phase |-> IF states[e] = 0 THEN "missed" ELSE "answer",
                    eid |-> e, obj |-> states[e]]
<1>1. /\ request' = [request EXCEPT ![r] = new]
      /\ UNCHANGED <<runs, states, cancels, interrupt, told, raced>>
    BY DEF ExecuteLoads, Query
<1>2. new \in Request
    <2>1. states[e] # 0 => states[e] \in 1..Len(runs)
        BY DEF ExecutorInv, TypeOK
    <2>2. Len(runs) \in Nat /\ Len(runs) <= MaxRuns
        BY DEF ExecutorInv, TypeOK
    <2>. QED
        BY <2>1, <2>2, ExecutorAssumption DEF Request
<1>3. TypeOK'
    BY <1>1, <1>2 DEF ExecutorInv, TypeOK
<1>4. RequestsHold'
    BY <1>1 DEF ExecutorInv, RequestsHold, TypeOK
<1>. QED
    BY <1>1, <1>3, <1>4
    DEF ExecutorInv, RunsDecide, ObjectsDecided, OneWorkingRun, ToldWasDecided, RunIsInterruptible

\* The one step that starts a run: of two racing requests the second finds an
\* entry where it had found none.
LEMMA StoresKeeps ==
    ASSUME ExecutorInv, NEW r \in Requests, ExecuteStores(r)
    PROVE  ExecutorInv'
<1>. DEFINE e == request[r].eid
            k == Len(runs) + 1
<1>1. e \in Eids /\ request[r].obj = 0 /\ request[r].phase = "missed"
    BY DEF ExecuteStores, ExecutorInv, RequestsHold
<1>2. /\ runs' = Append(runs, NewRun(e)) /\ states' = [states EXCEPT ![e] = k]
      /\ request' = [request EXCEPT ![r] = [phase |-> "stored", eid |-> e, obj |-> k]]
      /\ raced' = IF states[e] = 0 THEN raced ELSE raced \cup {e}
      /\ UNCHANGED <<cancels, interrupt, told>> /\ Len(runs) < MaxRuns
    BY <1>1 DEF ExecuteStores
<1>3. /\ NewRun(e) \in Run /\ NewRun(e).eid = e /\ NewRun(e).phase = "stored"
      /\ NewRun(e).state = RUNNING /\ NewRun(e).final = NONE
    BY <1>1, ExecutorAssumption DEF NewRun, Run, Phases
<1>4. runs \in Seq(Run) /\ Len(runs) \in Nat /\ DOMAIN runs = 1..Len(runs)
    BY DEF ExecutorInv, TypeOK
<1>5. /\ runs' \in Seq(Run) /\ Len(runs') = Len(runs) + 1 /\ DOMAIN runs' = 1..k
      /\ \A j \in DOMAIN runs : runs'[j] = runs[j]
      /\ runs'[k] = NewRun(e)
    BY <1>2, <1>3, <1>4, AppendProperties
<1>6. k \in DOMAIN runs' /\ k \notin DOMAIN runs /\ DOMAIN runs' = DOMAIN runs \cup {k}
      /\ k # 0 /\ k \in 0..MaxRuns /\ Len(runs') <= MaxRuns
    BY <1>2, <1>4, <1>5, ExecutorAssumption
<1>7. TypeOK'
    <2>1. request' \in [Requests -> Request]
        BY <1>1, <1>2, <1>6 DEF ExecutorInv, TypeOK, Request
    <2>2. \A q \in Requests : request'[q].obj # 0 =>
              /\ request'[q].obj \in DOMAIN runs'
              /\ runs'[request'[q].obj].eid = request'[q].eid
        BY <1>2, <1>3, <1>5, <1>6 DEF ExecutorInv, TypeOK
    <2>3. \A x \in Eids : \A m \in {states'[x], cancels'[x]} :
              m # 0 => m \in DOMAIN runs' /\ runs'[m].eid = x
        BY <1>2, <1>3, <1>5, <1>6 DEF ExecutorInv, TypeOK
    <2>. QED
        BY <1>1, <1>2, <1>5, <1>6, <2>1, <2>2, <2>3 DEF ExecutorInv, TypeOK
<1>a. /\ DOMAIN runs' = DOMAIN runs \cup {k} /\ runs'[k] = NewRun(e)
      /\ \A j \in DOMAIN runs : runs'[j] = runs[j]
    BY <1>5, <1>6
<1>8. RunsDecide'
    <2>1. \A j \in DOMAIN runs : runs[j].eid \in Eids /\ (states[runs[j].eid] # 0
                                    => states'[runs[j].eid] # 0)
        BY <1>1, <1>2, <1>6, References DEF Run, ExecutorInv, TypeOK
    <2>2. states'[e] # 0
        BY <1>1, <1>2, <1>6 DEF ExecutorInv, TypeOK
    <2>. SUFFICES ASSUME NEW j \in DOMAIN runs' PROVE RunsDecide!(j)'
        BY DEF RunsDecide
    <2>3. CASE j \in DOMAIN runs
        BY <1>a, <2>1, <2>3 DEF ExecutorInv, RunsDecide
    <2>4. CASE j = k
        BY <1>a, <1>3, <2>2, <2>4
    <2>. QED
        BY <1>a, <2>3, <2>4
<1>9. ObjectsDecided' /\ ToldWasDecided'
    <2>1. ASSUME NEW x, NEW f, \E j \in DOMAIN runs : runs[j].eid = x /\ runs[j].final = f
          PROVE  \E j \in DOMAIN runs' : runs'[j].eid = x /\ runs'[j].final = f
        BY <2>1, <1>a
    <2>2. ASSUME NEW j \in DOMAIN runs', runs'[j].state # RUNNING
          PROVE  \E i \in DOMAIN runs : /\ runs[i].eid = runs'[j].eid
                                        /\ runs[i].final = runs'[j].state
        <3>1. j \in DOMAIN runs /\ runs'[j] = runs[j]
            BY <1>a, <1>3, <2>2
        <3>. QED
            BY <2>2, <3>1 DEF ExecutorInv, ObjectsDecided
    <2>3. ToldWasDecided'
        BY <1>2, <2>1 DEF ExecutorInv, ToldWasDecided
    <2>. QED
        BY <2>1, <2>2, <2>3 DEF ObjectsDecided
<1>10. RequestsHold'
    BY <1>1, <1>2, <1>3, <1>5, <1>6 DEF ExecutorInv, RequestsHold, TypeOK
<1>11. OneWorkingRun'
    BY <1>1, <1>2, <1>3, <1>5, <1>6 DEF ExecutorInv, OneWorkingRun, RunsDecide, TypeOK
<1>12. RunIsInterruptible'
    BY <1>2, <1>3, <1>5, <1>6 DEF ExecutorInv, RunIsInterruptible
<1>. QED
    BY <1>7, <1>8, <1>9, <1>10, <1>11, <1>12 DEF ExecutorInv

\* The request has the only reference to its run, which therefore starts once.
LEMMA StartsKeeps ==
    ASSUME ExecutorInv, NEW r \in Requests, ExecuteStarts(r)
    PROVE  ExecutorInv'
<1>. DEFINE e == request[r].eid
            k == request[r].obj
            x == [runs[k] EXCEPT !.phase = "handler"]
<1>1. /\ request[r].phase = "stored" /\ request' = [request EXCEPT ![r].phase = "answer"]
      /\ cancels' = [cancels EXCEPT ![e] = k] /\ runs' = [runs EXCEPT ![k] = x]
      /\ UNCHANGED <<states, interrupt, told, raced>>
    BY DEF ExecuteStarts
<1>2. /\ e \in Eids /\ k \in DOMAIN runs /\ runs[k] \in Run /\ runs[k].eid = e
      /\ runs[k].phase = "stored" /\ runs[k].final = NONE
    BY <1>1, References DEF ExecutorInv, RequestsHold, RunsDecide
<1>3. /\ x \in Run /\ x.eid = e /\ x.phase = "handler" /\ x.final = NONE
      /\ x.state = runs[k].state
    BY <1>2 DEF Run, Phases
<1>4. /\ runs' \in Seq(Run) /\ Len(runs') = Len(runs) /\ DOMAIN runs' = DOMAIN runs
      /\ runs'[k] = x
      /\ \A j \in DOMAIN runs : j # k => runs'[j] = runs[j]
    BY <1>1, <1>2, <1>3, OneRunChanges DEF ExecutorInv
<1>5. RunsGoOn /\ \A j \in DOMAIN runs : runs'[j].eid = runs[j].eid /\ runs'[j].state = runs[j].state
    BY <1>1, <1>2, <1>3, <1>4 DEF RunsGoOn
<1>6. OneWorkingRun' /\ ToldWasDecided' /\ ObjectsDecided'
    BY <1>1, <1>5, RunsGoOnKeeps
<1>7. TypeOK'
    <2>1. request' \in [Requests -> Request]
        <3>1. request[r] \in Request /\ request \in [Requests -> Request]
            BY DEF ExecutorInv, TypeOK
        <3>2. [request[r] EXCEPT !.phase = "answer"] \in Request
            BY <3>1 DEF Request
        <3>. QED
            BY <1>1, <3>1, <3>2
    <2>2. k \in 0..MaxRuns
        BY DEF ExecutorInv, TypeOK, Request
    <2>3. cancels' \in [Eids -> 0..MaxRuns]
        BY <1>1, <2>2 DEF ExecutorInv, TypeOK
    <2>4. \A d \in Eids : \A m \in {states'[d], cancels'[d]} :
              m # 0 => m \in DOMAIN runs' /\ runs'[m].eid = d
        BY <1>1, <1>2, <1>4, <1>5 DEF ExecutorInv, TypeOK
    <2>5. \A q \in Requests : request'[q].obj # 0 =>
              request'[q].obj \in DOMAIN runs' /\ runs'[request'[q].obj].eid = request'[q].eid
        BY <1>1, <1>4, <1>5 DEF ExecutorInv, TypeOK, Request
    <2>. QED
        BY <1>1, <1>4, <2>1, <2>3, <2>4, <2>5 DEF ExecutorInv, TypeOK
<1>8. RunsDecide'
    BY <1>1, <1>2, <1>3, <1>4, <1>5 DEF ExecutorInv, RunsDecide
<1>9. RequestsHold'
    <2>. SUFFICES ASSUME NEW q \in Requests PROVE RequestsHold!(q)'
        BY DEF RequestsHold
    <2>1. CASE q = r
        BY <1>1, <1>2, <2>1 DEF ExecutorInv, TypeOK, Request
    <2>2. CASE q # r
        <3>1. request'[q] = request[q] /\ request'[r].phase = "answer"
            BY <1>1, <2>2 DEF ExecutorInv, TypeOK, Request
        <3>2. request[q].phase = "stored" => request[q].obj # k
            BY <1>1, <2>2 DEF ExecutorInv, RequestsHold
        <3>3. \A p \in Requests : request'[p].phase = "stored" => request'[p] = request[p]
            BY <1>1 DEF ExecutorInv, TypeOK, Request
        <3>4. request[q].phase = "stored" => request[q].obj \in DOMAIN runs
            BY References
        <3>. QED
            BY <1>4, <3>1, <3>2, <3>3, <3>4 DEF ExecutorInv, RequestsHold
    <2>. QED
        BY <2>1, <2>2
<1>10. RunIsInterruptible'
    <2>. SUFFICES ASSUME NEW j \in DOMAIN runs, runs'[j].phase = "handler"
                  PROVE  cancels'[runs'[j].eid] = j \/ runs'[j].eid \in raced
        BY <1>1, <1>4 DEF RunIsInterruptible
    <2>1. CASE j = k
        <3>1. cancels'[e] = k
            BY <1>1, <1>2 DEF ExecutorInv, TypeOK
        <3>. QED
            BY <1>3, <1>4, <2>1, <3>1
    <2>2. CASE j # k
        <3>1. CASE runs[j].eid = e
            BY <1>2, <1>4, <2>2, <3>1 DEF ExecutorInv, OneWorkingRun
        <3>2. CASE runs[j].eid # e
            BY <1>1, <1>4, <2>2, <3>2 DEF ExecutorInv, TypeOK, RunIsInterruptible
        <3>. QED
            BY <3>1, <3>2
    <2>. QED
        BY <2>1, <2>2
<1>. QED
    BY <1>6, <1>7, <1>8, <1>9, <1>10 DEF ExecutorInv

LEMMA AnswersKeep ==
    ASSUME ExecutorInv, NEW r \in Requests, ExecuteAnswers(r)
    PROVE  ExecutorInv'
<1>. DEFINE m == [eid |-> request[r].eid, state |-> runs[request[r].obj].state]
<1>1. /\ request[r].phase = "answer" /\ told' = told \cup {m}
      /\ request' = [request EXCEPT ![r] = FreeRequest]
      /\ UNCHANGED <<runs, states, cancels, interrupt, raced>>
    BY DEF ExecuteAnswers
<1>2. /\ m \in [eid : Eids, state : {RUNNING} \cup Final]
      /\ m.state # RUNNING => \E j \in DOMAIN runs : runs[j].eid = m.eid /\ runs[j].final = m.state
    BY <1>1, References, ObjectTold
<1>3. TypeOK' /\ ToldWasDecided'
    BY <1>1, <1>2, ExecutorAssumption
    DEF ExecutorInv, TypeOK, ToldWasDecided, FreeRequest, Request
<1>4. RequestsHold'
    BY <1>1 DEF ExecutorInv, RequestsHold, TypeOK, FreeRequest
<1>. QED
    BY <1>1, <1>3, <1>4
    DEF ExecutorInv, RunsDecide, ObjectsDecided, OneWorkingRun, RunIsInterruptible

----------------------------------------------------------------------------
(* The goroutine of a run. *)

\* Requests are not disturbed by runs that go on.
LEMMA RequestsStay ==
    ASSUME ExecutorInv, RunsGoOn, request' = request,
           \A j \in DOMAIN runs : runs[j].phase = "stored" => runs'[j].phase = "stored"
    PROVE  /\ RequestsHold'
           /\ \A r \in Requests : request'[r].obj # 0 =>
                  /\ request'[r].obj \in DOMAIN runs'
                  /\ runs'[request'[r].obj].eid = request'[r].eid
<1>1. \A r \in Requests : request[r].phase = "stored" => request[r].obj \in DOMAIN runs
    BY References
<1>2. RequestsHold'
    BY <1>1 DEF ExecutorInv, RequestsHold
<1>. QED
    BY <1>2 DEF ExecutorInv, TypeOK, RunsGoOn

\* A step of one run that leaves its state object alone.
LEMMA RunStep ==
    ASSUME ExecutorInv, NEW k \in DOMAIN runs, NEW x \in Run, runs' = [runs EXCEPT ![k] = x],
           x.eid = runs[k].eid, x.state = runs[k].state,
           runs[k].final # NONE => x.final = runs[k].final,
           x.phase # "over" => runs[k].phase # "over",
           runs[k].phase = "stored" => x.phase = "stored",
           UNCHANGED <<request, raced>>
    PROVE  /\ runs' \in Seq(Run) /\ Len(runs') = Len(runs) /\ DOMAIN runs' = DOMAIN runs
           /\ runs'[k] = x /\ \A j \in DOMAIN runs : j # k => runs'[j] = runs[j]
           /\ \A j \in DOMAIN runs : runs'[j].eid = runs[j].eid
           /\ OneWorkingRun' /\ ObjectsDecided' /\ RequestsHold'
           /\ told' = told => ToldWasDecided'
           /\ (/\ told' \subseteq [eid : Eids, state : {RUNNING} \cup Final]
               /\ interrupt' \in [Interrupts -> Eids \cup {NoEid}]
               /\ {states', cancels'} \subseteq [Eids -> 0..MaxRuns]
               /\ \A e \in Eids : \A m \in {states'[e], cancels'[e]} :
                      m # 0 => m \in DOMAIN runs /\ runs[m].eid = e) => TypeOK'
<1>1. /\ runs' \in Seq(Run) /\ Len(runs') = Len(runs) /\ DOMAIN runs' = DOMAIN runs
      /\ runs'[k] = x
      /\ \A j \in DOMAIN runs : j # k => runs'[j] = runs[j]
    BY OneRunChanges DEF ExecutorInv
<1>2. RunsGoOn /\ \A j \in DOMAIN runs : /\ runs'[j].eid = runs[j].eid
                                         /\ runs'[j].state = runs[j].state
                                         /\ runs[j].phase = "stored" => runs'[j].phase = "stored"
    BY <1>1 DEF RunsGoOn
<1>3. OneWorkingRun' /\ ObjectsDecided' /\ (told' = told => ToldWasDecided')
    BY <1>2, RunsGoOnKeeps
<1>4. RequestsHold' /\ \A r \in Requests : request'[r].obj # 0 =>
                           /\ request'[r].obj \in DOMAIN runs'
                           /\ runs'[request'[r].obj].eid = request'[r].eid
    BY <1>2, RequestsStay
<1>5. ASSUME /\ told' \subseteq [eid : Eids, state : {RUNNING} \cup Final]
             /\ interrupt' \in [Interrupts -> Eids \cup {NoEid}]
             /\ {states', cancels'} \subseteq [Eids -> 0..MaxRuns]
             /\ \A e \in Eids : \A m \in {states'[e], cancels'[e]} :
                    m # 0 => m \in DOMAIN runs /\ runs[m].eid = e
      PROVE  TypeOK'
    <2>1. \A e \in Eids : \A m \in {states'[e], cancels'[e]} :
              m # 0 => m \in DOMAIN runs' /\ runs'[m].eid = e
        BY <1>1, <1>2, <1>5
    <2>. QED
        BY <1>1, <1>4, <1>5, <2>1 DEF ExecutorInv, TypeOK
<1>. QED
    BY <1>1, <1>2, <1>3, <1>4, <1>5

\* What the maps, interrupt and told satisfy as long as they do not change.
LEMMA MapsStay ==
    ASSUME ExecutorInv
    PROVE  /\ told \subseteq [eid : Eids, state : {RUNNING} \cup Final]
           /\ interrupt \in [Interrupts -> Eids \cup {NoEid}]
           /\ {states, cancels} \subseteq [Eids -> 0..MaxRuns]
           /\ \A e \in Eids : \A m \in {states[e], cancels[e]} :
                  m # 0 => m \in DOMAIN runs /\ runs[m].eid = e
BY DEF ExecutorInv, TypeOK

LEMMA HandlerReturnsKeeps ==
    ASSUME ExecutorInv, NEW k \in DOMAIN runs, NEW ok \in BOOLEAN, HandlerReturns(k, ok)
    PROVE  ExecutorInv'
<1>. DEFINE f == IF runs[k].cancelled THEN FAILED_RESCHEDULABLE ELSE IF ok THEN SUCCESS ELSE FAILED
            x == [runs[k] EXCEPT !.phase = "decided", !.final = f]
<1>1. /\ runs[k].phase = "handler" /\ runs' = [runs EXCEPT ![k] = x]
      /\ UNCHANGED <<states, cancels, request, interrupt, told, raced>>
    BY DEF HandlerReturns
<1>2. runs[k] \in Run /\ runs[k].final = NONE /\ f \in Final
    BY <1>1, References DEF ExecutorInv, RunsDecide, Final
<1>3. /\ x \in Run /\ x.eid = runs[k].eid /\ x.state = runs[k].state /\ x.phase = "decided"
      /\ x.final = f
    BY <1>2 DEF Run, Phases
<1>4. /\ DOMAIN runs' = DOMAIN runs /\ runs'[k] = x
      /\ \A j \in DOMAIN runs : j # k => runs'[j] = runs[j]
      /\ \A j \in DOMAIN runs : runs'[j].eid = runs[j].eid
      /\ TypeOK' /\ OneWorkingRun' /\ ObjectsDecided' /\ RequestsHold' /\ ToldWasDecided'
    BY <1>1, <1>2, <1>3, RunStep, MapsStay
<1>5. RunsDecide'
    BY <1>1, <1>2, <1>3, <1>4 DEF ExecutorInv, RunsDecide
<1>6. RunIsInterruptible'
    BY <1>1, <1>3, <1>4 DEF ExecutorInv, RunIsInterruptible
<1>. QED
    BY <1>4, <1>5, <1>6 DEF ExecutorInv

LEMMA StoreFinalKeeps ==
    ASSUME ExecutorInv, NEW k \in DOMAIN runs, StoreFinal(k)
    PROVE  ExecutorInv'
<1>. DEFINE x == [runs[k] EXCEPT !.phase = "kept"]
            e == runs[k].eid
            o == runs[k].target
<1>1. /\ runs[k].phase = "set" /\ runs' = [runs EXCEPT ![k] = x]
      /\ states' = [states EXCEPT ![e] = o]
      /\ UNCHANGED <<cancels, request, interrupt, told, raced>>
    BY DEF StoreFinal
<1>2. runs[k] \in Run /\ e \in Eids /\ o \in DOMAIN runs /\ runs[o].eid = e /\ runs[k].final \in Final
    BY <1>1, References DEF ExecutorInv, RunsDecide, Run
<1>3. /\ x \in Run /\ x.eid = e /\ x.state = runs[k].state /\ x.phase = "kept"
      /\ x.final = runs[k].final /\ x.target = o
    BY <1>2 DEF Run, Phases
<1>4. o \in 0..MaxRuns /\ o # 0
    BY <1>2 DEF Run, ExecutorInv, TypeOK
<1>5. /\ states' \in [Eids -> 0..MaxRuns] /\ states'[e] = o
      /\ \A d \in Eids : d # e => states'[d] = states[d]
    BY <1>1, <1>2, <1>4 DEF ExecutorInv, TypeOK
<1>6. /\ DOMAIN runs' = DOMAIN runs /\ runs'[k] = x
      /\ \A j \in DOMAIN runs : j # k => runs'[j] = runs[j]
      /\ \A j \in DOMAIN runs : runs'[j].eid = runs[j].eid
      /\ OneWorkingRun' /\ ObjectsDecided' /\ RequestsHold' /\ ToldWasDecided'
      /\ TypeOK'
    <2>1. \A d \in Eids : \A m \in {states'[d], cancels'[d]} :
              m # 0 => m \in DOMAIN runs /\ runs[m].eid = d
        BY <1>1, <1>2, <1>5, MapsStay
    <2>2. {states', cancels'} \subseteq [Eids -> 0..MaxRuns]
        BY <1>1, <1>5, MapsStay
    <2>. QED
        BY <1>1, <1>2, <1>3, <2>1, <2>2, RunStep, MapsStay
<1>7. RunsDecide'
    <2>1. \A j \in DOMAIN runs : runs[j].eid \in Eids /\ (states[runs[j].eid] # 0
                                    => states'[runs[j].eid] # 0)
        BY <1>4, <1>5, References DEF Run
    <2>. QED
        BY <1>1, <1>2, <1>3, <1>6, <2>1 DEF ExecutorInv, RunsDecide
<1>8. RunIsInterruptible'
    BY <1>1, <1>3, <1>6 DEF ExecutorInv, RunIsInterruptible
<1>. QED
    BY <1>6, <1>7, <1>8 DEF ExecutorInv

\* The report may be lost; what it says was decided.
LEMMA ReportFinalKeeps ==
    ASSUME ExecutorInv, NEW k \in DOMAIN runs, ReportFinal(k)
    PROVE  ExecutorInv'
<1>. DEFINE x == [runs[k] EXCEPT !.phase = "reported"]
            o == runs[k].target
            m == [eid |-> runs[k].eid, state |-> runs[o].state]
<1>1. /\ runs[k].phase = "kept" /\ runs' = [runs EXCEPT ![k] = x]
      /\ told' = told \cup {m} \/ told' = told
      /\ UNCHANGED <<states, cancels, request, interrupt, raced>>
    BY DEF ReportFinal
<1>2. runs[k] \in Run /\ o \in DOMAIN runs /\ runs[o].eid = runs[k].eid /\ runs[k].final \in Final
    BY <1>1, References DEF ExecutorInv, RunsDecide
<1>3. /\ x \in Run /\ x.eid = runs[k].eid /\ x.state = runs[k].state /\ x.phase = "reported"
      /\ x.final = runs[k].final
    BY <1>2 DEF Run, Phases
<1>4. /\ m \in [eid : Eids, state : {RUNNING} \cup Final]
      /\ m.state # RUNNING => \E j \in DOMAIN runs : runs[j].eid = m.eid /\ runs[j].final = m.state
    BY <1>2, ObjectTold
<1>5. told' \subseteq [eid : Eids, state : {RUNNING} \cup Final]
    BY <1>1, <1>4, MapsStay
<1>6. /\ DOMAIN runs' = DOMAIN runs /\ runs'[k] = x
      /\ \A j \in DOMAIN runs : j # k => runs'[j] = runs[j]
      /\ \A j \in DOMAIN runs : runs'[j].eid = runs[j].eid
      /\ TypeOK' /\ OneWorkingRun' /\ ObjectsDecided' /\ RequestsHold'
    BY <1>1, <1>2, <1>3, <1>5, RunStep, MapsStay
<1>7. RunsDecide'
    BY <1>1, <1>2, <1>3, <1>6 DEF ExecutorInv, RunsDecide
<1>8. RunIsInterruptible'
    BY <1>1, <1>3, <1>6 DEF ExecutorInv, RunIsInterruptible
<1>9. ToldWasDecided'
    <2>1. ASSUME NEW e, NEW f, \E j \in DOMAIN runs : runs[j].eid = e /\ runs[j].final = f
          PROVE  \E j \in DOMAIN runs' : runs'[j].eid = e /\ runs'[j].final = f
        BY <2>1, <1>3, <1>6
    <2>. QED
        BY <1>1, <1>4, <2>1 DEF ExecutorInv, ToldWasDecided
<1>. QED
    BY <1>6, <1>7, <1>8, <1>9 DEF ExecutorInv

\* The deferred delete may hit the cancel function of another run only where
\* requests have raced.
LEMMA DeleteCancelKeeps ==
    ASSUME ExecutorInv, NEW k \in DOMAIN runs, DeleteCancel(k)
    PROVE  ExecutorInv'
<1>. DEFINE x == [runs[k] EXCEPT !.phase = "over"]
            e == runs[k].eid
<1>1. /\ runs[k].phase = "reported" /\ runs' = [runs EXCEPT ![k] = x]
      /\ cancels' = [cancels EXCEPT ![e] = 0]
      /\ UNCHANGED <<states, request, interrupt, told, raced>>
    BY DEF DeleteCancel
<1>2. runs[k] \in Run /\ e \in Eids /\ runs[k].final \in Final
    BY <1>1, References DEF ExecutorInv, RunsDecide, Run
<1>3. /\ x \in Run /\ x.eid = e /\ x.state = runs[k].state /\ x.phase = "over"
      /\ x.final = runs[k].final
    BY <1>2 DEF Run, Phases
<1>4. /\ cancels' \in [Eids -> 0..MaxRuns]
      /\ \A d \in Eids : cancels'[d] # 0 => cancels'[d] = cancels[d]
      /\ \A d \in Eids : d # e => cancels'[d] = cancels[d]
    <2>1. cancels \in [Eids -> 0..MaxRuns] /\ 0 \in 0..MaxRuns
        BY MapsStay, ExecutorAssumption
    <2>2. cancels' \in [Eids -> 0..MaxRuns]
        BY <1>1, <2>1
    <2>3. cancels'[e] = 0 /\ \A d \in Eids : d # e => cancels'[d] = cancels[d]
        BY <1>1, <1>2, <2>1
    <2>. QED
        BY <2>2, <2>3
<1>5. /\ DOMAIN runs' = DOMAIN runs /\ runs'[k] = x
      /\ \A j \in DOMAIN runs : j # k => runs'[j] = runs[j]
      /\ \A j \in DOMAIN runs : runs'[j].eid = runs[j].eid
      /\ TypeOK' /\ OneWorkingRun' /\ ObjectsDecided' /\ RequestsHold' /\ ToldWasDecided'
    <2>1. \A d \in Eids : \A m \in {states'[d], cancels'[d]} :
              m # 0 => m \in DOMAIN runs /\ runs[m].eid = d
        BY <1>1, <1>4, MapsStay
    <2>2. {states', cancels'} \subseteq [Eids -> 0..MaxRuns]
        BY <1>1, <1>4, MapsStay
    <2>. QED
        BY <1>1, <1>2, <1>3, <2>1, <2>2, RunStep, MapsStay
<1>6. RunsDecide'
    BY <1>1, <1>3, <1>5 DEF ExecutorInv, RunsDecide
<1>7. RunIsInterruptible'
    <2>. SUFFICES ASSUME NEW j \in DOMAIN runs, runs'[j].phase = "handler"
                  PROVE  cancels'[runs'[j].eid] = j \/ runs'[j].eid \in raced
        BY <1>1, <1>5 DEF RunIsInterruptible
    <2>1. j # k /\ runs'[j] = runs[j] /\ runs[j].eid \in Eids
        BY <1>3, <1>5, References DEF Run
    <2>2. CASE runs[j].eid = e
        BY <1>1, <2>1, <2>2 DEF ExecutorInv, OneWorkingRun
    <2>3. CASE runs[j].eid # e
        BY <1>4, <2>1, <2>3 DEF ExecutorInv, RunIsInterruptible
    <2>. QED
        BY <2>2, <2>3
<1>. QED
    BY <1>5, <1>6, <1>7 DEF ExecutorInv

\* The object that the map holds for the execution gets the decision, which may
\* be the object of another run.
LEMMA SetFinalKeeps ==
    ASSUME ExecutorInv, NEW k \in DOMAIN runs, SetFinal(k)
    PROVE  ExecutorInv'
<1>. DEFINE o == states[runs[k].eid]
            x(j) == [runs[j] EXCEPT !.state = IF j = o THEN runs[k].final ELSE @,
                                    !.phase = IF j = k THEN "set" ELSE @,
                                    !.target = IF j = k THEN o ELSE @]
<1>1. /\ runs[k].phase = "decided" /\ runs' = [j \in DOMAIN runs |-> x(j)]
      /\ UNCHANGED <<states, cancels, request, interrupt, told, raced>>
    BY DEF SetFinal
<1>2. /\ runs[k] \in Run /\ runs[k].final \in Final
      /\ o \in DOMAIN runs /\ runs[o].eid = runs[k].eid
    BY <1>1, References DEF ExecutorInv, RunsDecide
<1>3. o \in 0..MaxRuns
    BY <1>2, References DEF ExecutorInv, TypeOK, Run
<1>4. ASSUME NEW j \in DOMAIN runs
      PROVE  /\ x(j) \in Run /\ x(j).eid = runs[j].eid /\ x(j).final = runs[j].final
             /\ x(j).state = IF j = o THEN runs[k].final ELSE runs[j].state
             /\ x(j).phase = IF j = k THEN "set" ELSE runs[j].phase
             /\ x(j).target = IF j = k THEN o ELSE runs[j].target
    <2>1. runs[j] \in Run
        BY References
    <2>. QED
        BY <1>2, <1>3, <2>1 DEF Run, Phases
<1>5. \A j \in DOMAIN runs :
          /\ runs'[j] = x(j) /\ runs'[j] \in Run
          /\ runs'[j].eid = runs[j].eid /\ runs'[j].final = runs[j].final
          /\ runs'[j].state = IF j = o THEN runs[k].final ELSE runs[j].state
          /\ runs'[j].phase = IF j = k THEN "set" ELSE runs[j].phase
          /\ runs'[j].target = IF j = k THEN o ELSE runs[j].target
    BY <1>1, <1>4
<1>6. runs' \in Seq(Run) /\ Len(runs') = Len(runs) /\ DOMAIN runs' = DOMAIN runs
    BY <1>1, <1>5, SameRuns DEF ExecutorInv
<1>. HIDE DEF x, o
<1>7. /\ RunsGoOn
      /\ \A j \in DOMAIN runs : runs[j].phase = "stored" => runs'[j].phase = "stored"
    BY <1>1, <1>5, <1>6 DEF RunsGoOn
<1>8. OneWorkingRun' /\ ToldWasDecided'
    BY <1>1, <1>7, RunsGoOnKeeps
<1>9. RequestsHold' /\ \A r \in Requests : request'[r].obj # 0 =>
                           /\ request'[r].obj \in DOMAIN runs'
                           /\ runs'[request'[r].obj].eid = request'[r].eid
    BY <1>1, <1>7, RequestsStay
<1>10. TypeOK'
    <2>1. \A e \in Eids : \A m \in {states'[e], cancels'[e]} :
              m # 0 => m \in DOMAIN runs' /\ runs'[m].eid = e
        BY <1>1, <1>5, <1>6, MapsStay
    <2>. QED
        BY <1>1, <1>6, <1>9, <2>1 DEF ExecutorInv, TypeOK
<1>11. RunsDecide'
    BY <1>1, <1>2, <1>5, <1>6 DEF ExecutorInv, RunsDecide
<1>12. ObjectsDecided'
    BY <1>2, <1>5, <1>6 DEF ExecutorInv, ObjectsDecided
<1>13. RunIsInterruptible'
    BY <1>1, <1>5, <1>6 DEF ExecutorInv, RunIsInterruptible
<1>. QED
    BY <1>8, <1>9, <1>10, <1>11, <1>12, <1>13 DEF ExecutorInv

----------------------------------------------------------------------------
(* Interrupt, and the death of the process. *)

LEMMA InterruptCancelsKeeps ==
    ASSUME ExecutorInv, NEW i \in Interrupts, NEW e \in Eids, InterruptCancels(i, e)
    PROVE  ExecutorInv'
<1>. DEFINE k == cancels[e]
            x == [runs[k] EXCEPT !.cancelled = TRUE]
<1>1. /\ k # 0 /\ runs' = [runs EXCEPT ![k] = x]
      /\ interrupt' = [interrupt EXCEPT ![i] = e]
      /\ UNCHANGED <<states, cancels, request, told, raced>>
    BY DEF InterruptCancels
<1>2. k \in DOMAIN runs /\ runs[k] \in Run
    BY <1>1, References
<1>3. /\ x \in Run /\ x.eid = runs[k].eid /\ x.state = runs[k].state
      /\ x.phase = runs[k].phase /\ x.final = runs[k].final /\ x.target = runs[k].target
    BY <1>2 DEF Run
<1>4. interrupt' \in [Interrupts -> Eids \cup {NoEid}]
    BY <1>1, MapsStay
<1>5. /\ DOMAIN runs' = DOMAIN runs /\ runs'[k] = x
      /\ \A j \in DOMAIN runs : j # k => runs'[j] = runs[j]
      /\ \A j \in DOMAIN runs : runs'[j].eid = runs[j].eid
      /\ TypeOK' /\ OneWorkingRun' /\ ObjectsDecided' /\ RequestsHold' /\ ToldWasDecided'
    BY <1>1, <1>2, <1>3, <1>4, RunStep, MapsStay
<1>. HIDE DEF k, x
<1>6. \A j \in DOMAIN runs :
          /\ runs'[j].eid = runs[j].eid /\ runs'[j].phase = runs[j].phase
          /\ runs'[j].final = runs[j].final /\ runs'[j].target = runs[j].target
    BY <1>2, <1>3, <1>5
<1>7. RunsDecide'
    BY <1>1, <1>5, <1>6 DEF ExecutorInv, RunsDecide
<1>8. RunIsInterruptible'
    BY <1>1, <1>5, <1>6 DEF ExecutorInv, RunIsInterruptible
<1>. QED
    BY <1>5, <1>7, <1>8 DEF ExecutorInv

\* The answer to an Interrupt shows the object of the map.
LEMMA InterruptAnswersKeeps ==
    ASSUME ExecutorInv, NEW i \in Interrupts, InterruptAnswers(i)
    PROVE  ExecutorInv'
<1>. DEFINE e == interrupt[i]
            k == states[e]
            m == [eid |-> e, state |-> runs[k].state]
<1>1. /\ e # NoEid /\ told' = IF k = 0 THEN told ELSE told \cup {m}
      /\ interrupt' = [interrupt EXCEPT ![i] = NoEid]
      /\ UNCHANGED <<runs, states, cancels, request, raced>>
    BY DEF InterruptAnswers
<1>2. e \in Eids
    BY <1>1, MapsStay
<1>3. k # 0 => /\ m \in [eid : Eids, state : {RUNNING} \cup Final]
               /\ m.state # RUNNING => \E j \in DOMAIN runs : /\ runs[j].eid = m.eid
                                                              /\ runs[j].final = m.state
    BY <1>2, References, ObjectTold
<1>4. TypeOK'
    BY <1>1, <1>3 DEF ExecutorInv, TypeOK
<1>5. ToldWasDecided'
    BY <1>1, <1>3 DEF ExecutorInv, ToldWasDecided
<1>. QED
    BY <1>1, <1>4, <1>5
    DEF ExecutorInv, RunsDecide, ObjectsDecided, RequestsHold, OneWorkingRun, RunIsInterruptible

\* What was told stays told; the decisions it rests on are history.
LEMMA CrashKeeps ==
    ASSUME ExecutorInv, Crash
    PROVE  ExecutorInv'
<1>1. \A k \in DOMAIN runs : runs[k] \in Run
    BY References
<1>2. /\ runs' = [k \in DOMAIN runs |-> [runs[k] EXCEPT !.phase = "over"]]
      /\ states' = [e \in Eids |-> 0] /\ cancels' = [e \in Eids |-> 0]
      /\ request' = [r \in Requests |-> FreeRequest]
      /\ interrupt' = [i \in Interrupts |-> NoEid] /\ raced' = {} /\ told' = told
    BY DEF Crash
<1>3. ASSUME NEW k \in DOMAIN runs
      PROVE  /\ runs'[k] \in Run /\ runs'[k].phase = "over" /\ runs'[k].eid = runs[k].eid
             /\ runs'[k].final = runs[k].final /\ runs'[k].state = runs[k].state
    <2>1. runs[k] \in Run /\ runs'[k] = [runs[k] EXCEPT !.phase = "over"]
        BY <1>1, <1>2
    <2>. QED
        BY <2>1 DEF Run, Phases
<1>4. runs' \in [DOMAIN runs -> Run]
    BY <1>2, <1>3
<1>5. runs' \in Seq(Run) /\ Len(runs') = Len(runs) /\ DOMAIN runs' = DOMAIN runs
    BY <1>4, SameRuns DEF ExecutorInv
<1>6. TypeOK'
    <2>1. request' \in [Requests -> Request] /\ \A r \in Requests : request'[r].obj = 0
        BY <1>2, ExecutorAssumption DEF FreeRequest, Request
    <2>2. {states', cancels'} \subseteq [Eids -> 0..MaxRuns]
        BY <1>2, ExecutorAssumption
    <2>3. \A e \in Eids : \A m \in {states'[e], cancels'[e]} : m = 0
        BY <1>2
    <2>. QED
        BY <1>2, <1>5, <2>1, <2>2, <2>3 DEF ExecutorInv, TypeOK
<1>7. RunsDecide' /\ OneWorkingRun' /\ RunIsInterruptible'
    BY <1>3, <1>5 DEF RunsDecide, OneWorkingRun, RunIsInterruptible
<1>8. ObjectsDecided'
    BY <1>3, <1>5 DEF ExecutorInv, ObjectsDecided
<1>9. ToldWasDecided'
    <2>1. ASSUME NEW e, NEW f, \E j \in DOMAIN runs : runs[j].eid = e /\ runs[j].final = f
          PROVE  \E j \in DOMAIN runs' : runs'[j].eid = e /\ runs'[j].final = f
        BY <2>1, <1>3, <1>5
    <2>. SUFFICES ASSUME NEW m \in told, m.state # RUNNING
                  PROVE  \E j \in DOMAIN runs' : runs'[j].eid = m.eid /\ runs'[j].final = m.state
        BY <1>2 DEF ToldWasDecided
    <2>2. \E j \in DOMAIN runs : runs[j].eid = m.eid /\ runs[j].final = m.state
        BY DEF ExecutorInv, ToldWasDecided
    <2>. QED
        BY <2>1, <2>2
<1>10. RequestsHold'
    BY <1>2 DEF RequestsHold, FreeRequest
<1>. QED
    BY <1>6, <1>7, <1>8, <1>9, <1>10 DEF ExecutorInv

----------------------------------------------------------------------------
(* The theorems. *)

LEMMA StepInv == ExecutorInv /\ [Next]_vars => ExecutorInv'
<1>. SUFFICES ASSUME ExecutorInv, [Next]_vars PROVE ExecutorInv'
    OBVIOUS
<1>1. CASE \E r \in Requests : Serve(r) \/ \E e \in Eids : ExecuteLoads(r, e) \/ Query(r, e)
    BY <1>1, LoadsKeep, StoresKeeps, StartsKeeps, AnswersKeep DEF Serve
<1>2. CASE \E k \in DOMAIN runs : Work(k)
    BY <1>2, HandlerReturnsKeeps, SetFinalKeeps, StoreFinalKeeps, ReportFinalKeeps,
       DeleteCancelKeeps DEF Work
<1>3. CASE \E i \in Interrupts : InterruptAnswers(i) \/ \E e \in Eids : InterruptCancels(i, e)
    BY <1>3, InterruptAnswersKeeps, InterruptCancelsKeeps
<1>4. CASE Crash
    BY <1>4, CrashKeeps
<1>5. CASE UNCHANGED vars
    BY <1>5 DEF vars, ExecutorInv, TypeOK, RunsDecide, ObjectsDecided, RequestsHold,
       OneWorkingRun, ToldWasDecided, RunIsInterruptible
<1>. QED
    BY <1>1, <1>2, <1>3, <1>4, <1>5 DEF Next

\* The inductive invariant holds in every behaviour of an executor process.
THEOREM ExecutorInvariant == Spec => []ExecutorInv
BY InitInv, StepInv, PTL DEF Spec

\* The maps and the requests refer to state objects of their own execution.
THEOREM ExecutorTypeCorrect == Spec => []TypeOK
<1>1. ExecutorInv => TypeOK
    BY DEF ExecutorInv
<1>. QED
    BY <1>1, ExecutorInvariant, PTL

\* However requests, interrupts, ends and restarts interleave, no answer and no
\* report tells an end that no run of the execution has come to.
THEOREM EndsToldWereDecided == Spec => []ToldWasDecided
<1>1. ExecutorInv => ToldWasDecided
    BY DEF ExecutorInv
<1>. QED
    BY <1>1, ExecutorInvariant, PTL

\* Two runs of an execution work at a time only after two Execute requests for
\* it have both missed the map before either stored into it.
THEOREM OneRunUnlessRaced == Spec => []OneLiveRun
<1>1. ExecutorInv => OneLiveRun
    BY DEF ExecutorInv, OneWorkingRun, OneLiveRun, Live
<1>. QED
    BY <1>1, ExecutorInvariant, PTL

\* Interrupt reaches every handler that runs, except after such a race.
THEOREM HandlersAreInterruptible == Spec => []RunIsInterruptible
<1>1. ExecutorInv => RunIsInterruptible
    BY DEF ExecutorInv
<1>. QED
    BY <1>1, ExecutorInvariant, PTL
=============================================================================
