--------------------------- MODULE TaskLeaseProofs ---------------------------
(***************************************************************************)
(* Proofs about TaskLease, for every set of nodes and tasks, every clock   *)
(* skew, every timeout and batch size, and every value of the bounds.      *)
(***************************************************************************)
EXTENDS TaskLease, TLAPS, FiniteSetTheorems, SequenceTheorems

----------------------------------------------------------------------------
(* Values that occur. *)

\* What a node's clock shows is a number, and one cron is asked about.
LEMMA NowType ==
    ASSUME NEW n \in Nodes, clock \in 0..MaxTime
    PROVE  Now(n) \in Nat /\ Now(n) \in Instants
<1>1. Skew[n] \in 0..MaxSkew /\ MaxSkew \in Nat /\ MaxTime \in Nat
    BY LeaseAssumption
<1>. QED
    BY <1>1 DEF Now, Instants

\* Every statement on a row yields a row again.
LEMMA RowType ==
    ASSUME NEW row \in Row, NEW n \in Nodes, NEW now \in Nat, NEW next \in Nat,
           Now(n) \in Nat
    PROVE  /\ AcquiredBy(row, n) \in Row
           /\ Renewed(row, n) \in Row
           /\ Released(row, now) \in Row
           /\ Advanced(row, next, now) \in Row
           /\ Deactivated(row, now) \in Row
<1>1. ASSUME NEW m \in Nat
      PROVE  Touched(row, m) \in Row
    <2>1. row.version + 1 \in Nat
        BY DEF Row
    <2>2. ASSUME NEW v \in Nat
          PROVE  [row EXCEPT !.version = v, !.utime = m] \in Row
        BY <1>1, <2>2 DEF Row
    <2>. QED
        BY <2>1, <2>2 DEF Touched
<1>2. ASSUME NEW r \in Row, NEW st \in {ACTIVE, PREEMPTED, INACTIVE},
             NEW nd \in Nodes \cup {NoNode}
      PROVE  /\ [r EXCEPT !.status = st, !.node = nd] \in Row
             /\ [r EXCEPT !.status = st] \in Row
             /\ [r EXCEPT !.nextTime = next] \in Row
    BY <1>2 DEF Row
<1>3. Touched(row, Now(n)) \in Row /\ Touched(row, now) \in Row
    BY <1>1
<1>. QED
    BY <1>2, <1>3 DEF AcquiredBy, Renewed, Released, Advanced, Deactivated

\* ... with the next version, except a renewal of somebody else's row.
LEMMA RowVersion ==
    ASSUME NEW row \in Row, NEW n, NEW now, NEW next
    PROVE  /\ AcquiredBy(row, n).version = row.version + 1
           /\ Renewed(row, n) # row => Renewed(row, n).version = row.version + 1
           /\ Released(row, now).version = row.version + 1
           /\ Advanced(row, next, now).version = row.version + 1
           /\ Deactivated(row, now).version = row.version + 1
BY DEF Row, AcquiredBy, Renewed, Released, Advanced, Deactivated, Touched

\* What UpdateNextTime keeps of a row has the declared shape.
LEMMA ReadType ==
    ASSUME NEW row \in Row
    PROVE  ReadOf(row) \in Read
BY DEF ReadOf, Row, Read

\* The consumer without an event has the shape of a consumer.
LEMMA IdleType == Idle \in Handling
BY LeaseAssumption DEF Idle, Handling, Phases, Read, Types, RECURRING, ACTIVE

\* A batch is a sequence of snapshots of due rows, taken now.
LEMMA BatchType ==
    ASSUME TypeOK, NEW n \in Nodes, NEW s \in Batches(Due(n))
    PROVE  LET b == [i \in DOMAIN s |-> [id |-> s[i], version |-> task[s[i]].version]]
           IN  /\ b \in Seq(Snapshot)
               /\ \A i \in DOMAIN b : /\ b[i].id \in Due(n)
                                      /\ b[i].version = task[b[i].id].version
<1>. DEFINE b == [i \in DOMAIN s |-> [id |-> s[i], version |-> task[s[i]].version]]
<1>1. IsFiniteSet(Due(n))
    BY FS_Subset, LeaseAssumption DEF Due
<1>2. PICK k \in Nat : s \in [1..k -> Due(n)]
    <2>1. Cardinality(Due(n)) \in Nat
        BY <1>1, FS_CardinalityType
    <2>2. BatchSize \in Nat
        BY LeaseAssumption
    <2>. QED
        BY <2>1, <2>2 DEF Batches
<1>3. \A i \in 1..k : s[i] \in Tasks /\ task[s[i]].version \in Nat
    BY <1>2 DEF Due, TypeOK, Row
<1>4. DOMAIN b = 1..k /\ b \in [1..k -> Snapshot]
    BY <1>2, <1>3 DEF Snapshot
<1>5. b \in Seq(Snapshot)
    BY <1>4, SeqDef
<1>. QED
    BY <1>2, <1>4, <1>5

----------------------------------------------------------------------------
(* Type correctness. *)

\* Changing the entry of one execution keeps the list and its length.
LEMMA ExecsUpdate ==
    ASSUME execs \in Seq(Exec), NEW e \in DOMAIN execs, NEW x \in Exec
    PROVE  /\ [execs EXCEPT ![e] = x] \in Seq(Exec)
           /\ Len([execs EXCEPT ![e] = x]) = Len(execs)
           /\ DOMAIN [execs EXCEPT ![e] = x] = DOMAIN execs
BY ExceptSeq

\* What the consumer knows when it handles an event.
LEMMA HandledExec ==
    ASSUME TypeOK, NEW n \in Nodes, consumer[n].phase # "idle"
    PROVE  /\ consumer[n].exec \in DOMAIN execs
           /\ execs[consumer[n].exec] \in Exec
           /\ TaskOf(n) \in Tasks
<1>1. consumer[n].exec \in DOMAIN execs
    BY DEF TypeOK
<1>2. execs[consumer[n].exec] \in Exec
    BY <1>1, ElementOfSeq DEF TypeOK
<1>. QED
    BY <1>1, <1>2 DEF TaskOf, Exec

\* The initial state is type correct.
LEMMA InitType == Init => TypeOK
<1>. SUFFICES ASSUME Init PROVE TypeOK
    OBVIOUS
<1>1. task \in [Tasks -> Row]
    <2>1. \A t \in Tasks : Cron[t][0] \in Nat
        BY CronAssumption, LeaseAssumption DEF Instants
    <2>. QED
        BY <2>1 DEF Init, Row
<1>2. batch \in [Nodes -> Seq(Snapshot)] /\ execs \in Seq(Exec) /\ Len(execs) = 0
    BY EmptySeq DEF Init
<1>3. consumer \in [Nodes -> Handling] /\ \A n \in Nodes : consumer[n].phase = "idle"
    BY IdleType DEF Init, Idle
<1>. QED
    BY <1>1, <1>2, <1>3, LeaseAssumption DEF Init, TypeOK

\* The schedule loop and the renew loop.
LEMMA SchedulingType ==
    ASSUME TypeOK, NEW n \in Nodes, Scheduling(n)
    PROVE  TypeOK'
<1>1. /\ clock' \in 0..MaxTime
      /\ Now(n) \in Nat
    <2>1. clock' = clock
        BY DEF Scheduling, FetchBatch, AcquireTask, CreateExecution, CreateFails,
               Renew, Stop, Crash, Restart
    <2>. QED
        BY <2>1, NowType DEF TypeOK
<1>2. CASE FetchBatch(n)
    <2>1. batch' \in [Nodes -> Seq(Snapshot)]
        BY <1>2, BatchType DEF FetchBatch, TypeOK
    <2>. QED
        BY <1>1, <1>2, <2>1 DEF FetchBatch, TypeOK
<1>3. CASE AcquireTask(n)
    <2>1. /\ Head(batch[n]) \in Snapshot
          /\ Tail(batch[n]) \in Seq(Snapshot)
        BY <1>3, HeadTailProperties DEF TypeOK, AcquireTask
    <2>2. Head(batch[n]).id \in Tasks
        BY <2>1 DEF Snapshot
    <2>3. AcquiredBy(task[Head(batch[n]).id], n) \in Row
        BY <1>1, <2>2, RowType DEF TypeOK
    <2>4. task' \in [Tasks -> Row] /\ holding' \in [Nodes -> Tasks \cup {NoTask}]
        BY <1>3, <2>2, <2>3 DEF TypeOK, AcquireTask
    <2>5. batch' \in [Nodes -> Seq(Snapshot)] /\ expiries' \subseteq Tasks
        BY <1>3, <2>1, <2>2 DEF TypeOK, AcquireTask
    <2>. QED
        BY <1>1, <1>3, <2>4, <2>5 DEF AcquireTask, TypeOK
<1>4. CASE CreateExecution(n)
    <2>. DEFINE x == [task |-> holding[n], node |-> task[holding[n]].node,
                      sent |-> 0, queued |-> 0, consumed |-> 0]
    <2>1. x \in Exec
        <3>1. holding[n] \in Tasks /\ task[holding[n]].node \in Nodes \cup {NoNode}
            BY <1>4 DEF CreateExecution, TypeOK, Row
        <3>. QED
            BY <3>1, LeaseAssumption DEF Exec
    <2>2. /\ execs' \in Seq(Exec) /\ Len(execs') = Len(execs) + 1
          /\ DOMAIN execs \subseteq DOMAIN execs'
        <3>1. execs' = Append(execs, x)
            BY <1>4 DEF CreateExecution
        <3>. HIDE DEF x
        <3>. QED
            BY <2>1, <3>1, AppendProperties, LenProperties DEF TypeOK
    <2>3. Len(execs') <= MaxExecs
        BY <1>4, <2>2, LenProperties, LeaseAssumption DEF CreateExecution, TypeOK
    <2>. QED
        BY <1>1, <1>4, <2>2, <2>3 DEF CreateExecution, TypeOK
<1>5. CASE CreateFails(n)
    <2>1. holding[n] \in Tasks
        BY <1>5 DEF CreateFails, TypeOK
    <2>2. Released(task[holding[n]], Now(n)) \in Row
        BY <1>1, <2>1, RowType DEF TypeOK
    <2>3. task' \in [Tasks -> Row]
        BY <1>5, <2>1, <2>2 DEF CreateFails, TypeOK
    <2>. QED
        BY <1>1, <1>5, <2>3 DEF CreateFails, TypeOK
<1>6. CASE Renew(n)
    <2>1. task' \in [Tasks -> Row]
        BY <1>1, <1>6, RowType DEF Renew, TypeOK
    <2>. QED
        BY <1>1, <1>6, <2>1 DEF Renew, TypeOK, nodeVars
<1>7. CASE Stop(n)
    BY <1>1, <1>7, EmptySeq DEF Stop, TypeOK
<1>8. CASE Crash(n)
    <2>1. /\ execs' \in Seq(Exec) /\ Len(execs') = Len(execs)
          /\ DOMAIN execs' = DOMAIN execs
        <3>1. CASE execs' = execs
            BY <3>1 DEF TypeOK
        <3>2. CASE execs' # execs
            <4>. DEFINE e == consumer[n].exec
            <4>1. e \in DOMAIN execs /\ execs[e] \in Exec
                BY <1>8, <3>2, HandledExec DEF Crash
            <4>2. [execs[e] EXCEPT !.queued = @ + 1] \in Exec
                BY <4>1 DEF Exec
            <4>3. execs' = [execs EXCEPT ![e] = [execs[e] EXCEPT !.queued = @ + 1]]
                BY <1>8, <3>2 DEF Crash
            <4>. QED
                BY <4>1, <4>2, <4>3, ExecsUpdate DEF TypeOK
        <3>. QED
            BY <3>1, <3>2
    <2>2. consumer' \in [Nodes -> Handling]
        BY <1>8, IdleType DEF Crash, TypeOK
    <2>3. \A m \in Nodes : consumer'[m].phase # "idle" => consumer'[m].exec \in DOMAIN execs
        BY <1>8 DEF Crash, TypeOK, Idle
    <2>. QED
        BY <1>1, <1>8, <2>1, <2>2, <2>3, EmptySeq DEF Crash, TypeOK
<1>9. CASE Restart(n)
    BY <1>1, <1>9 DEF Restart, TypeOK
<1>. QED
    BY <1>2, <1>3, <1>4, <1>5, <1>6, <1>7, <1>8, <1>9 DEF Scheduling

\* A consumer that moves on keeps its execution; one that is done keeps none.
LEMMA ConsumerType ==
    ASSUME TypeOK, NEW n \in Nodes, consumer[n].phase # "idle",
           NEW ph \in Phases, NEW next \in Nat, DOMAIN execs' = DOMAIN execs,
           \/ consumer' = To(n, ph)
           \/ consumer' = [consumer EXCEPT ![n].phase = ph, ![n].next = next]
           \/ consumer' = Done(n)
    PROVE  /\ consumer' \in [Nodes -> Handling]
           /\ \A m \in Nodes : consumer'[m].phase # "idle" =>
                  consumer'[m].exec \in DOMAIN execs'
<1>. DEFINE c == consumer[n]
            moved == [c EXCEPT !.phase = ph]
            decided == [c EXCEPT !.phase = ph, !.next = next]
<1>0. c \in Handling
    BY DEF TypeOK
<1>1. CASE consumer' = To(n, ph)
    <2>1. consumer' = [consumer EXCEPT ![n] = moved]
        BY <1>1 DEF To
    <2>2. moved \in Handling /\ moved.exec = c.exec
        BY <1>0 DEF Handling
    <2>. QED
        BY <2>1, <2>2 DEF TypeOK
<1>2. CASE consumer' = [consumer EXCEPT ![n].phase = ph, ![n].next = next]
    <2>1. consumer' = [consumer EXCEPT ![n] = decided]
        BY <1>2 DEF TypeOK
    <2>2. decided \in Handling /\ decided.exec = c.exec
        BY <1>0 DEF Handling
    <2>. QED
        BY <2>1, <2>2 DEF TypeOK
<1>3. CASE consumer' = Done(n)
    BY <1>3, IdleType DEF Done, TypeOK, Idle
<1>. QED
    BY <1>1, <1>2, <1>3

\* The next time cron gives at an instant of the run.
LEMMA NextTimeType ==
    ASSUME TypeOK, NEW n \in Nodes, NEW t \in Tasks, NEW row
    PROVE  NextTime(t, row, Now(n)) \in Nat
<1>1. Now(n) \in Instants
    BY NowType DEF TypeOK
<1>. QED
    BY <1>1, CronAssumption DEF NextTime

\* The consumer of completion events.
LEMMA ConsumingType ==
    ASSUME TypeOK, NEW n \in Nodes, Consuming(n)
    PROVE  TypeOK'
<1>1. clock' = clock /\ Now(n) \in Nat
    <2>1. clock' = clock
        BY DEF Consuming, TakeEvent, Decide, Deactivate, AdvanceNextTime,
               ReleaseLease, HandlingFails
    <2>. QED
        BY <2>1, NowType DEF TypeOK
<1>2. ASSUME NEW e \in DOMAIN execs, TakeEvent(n, e)
      PROVE  TypeOK'
    <2>1. execs[e] \in Exec /\ execs[e].task \in Tasks /\ execs[e].queued - 1 \in Nat
        <3>1. execs[e] \in Exec
            BY <1>2, ElementOfSeq, LenProperties DEF TypeOK
        <3>. QED
            BY <1>2, <3>1 DEF TakeEvent, Exec
    <2>. DEFINE left == execs[e].queued - 1
                times == IF execs[e].consumed = 0 THEN 1 ELSE 2
                x == [execs[e] EXCEPT !.queued = left, !.consumed = times]
                h == [phase |-> "loaded", exec |-> e, row |-> ReadOf(task[execs[e].task]),
                      next |-> 0]
    <2>2. x \in Exec
        <3>1. ASSUME NEW q \in Nat, NEW c \in 0..2
              PROVE  [execs[e] EXCEPT !.queued = q, !.consumed = c] \in Exec
            BY <2>1, <3>1 DEF Exec
        <3>2. left \in Nat /\ times \in 0..2
            BY <2>1
        <3>. HIDE DEF left, times
        <3>. QED
            BY <3>1, <3>2
    <2>3. execs' = [execs EXCEPT ![e] = x]
        BY <1>2 DEF TakeEvent, TypeOK
    <2>4. /\ execs' \in Seq(Exec) /\ Len(execs') = Len(execs)
          /\ DOMAIN execs' = DOMAIN execs
        BY <2>2, <2>3, ExecsUpdate DEF TypeOK
    <2>5. h \in Handling
        <3>1. ReadOf(task[execs[e].task]) \in Read
            BY <2>1, ReadType DEF TypeOK
        <3>2. e \in 0..MaxExecs
            BY LenProperties, LeaseAssumption DEF TypeOK
        <3>. QED
            BY <3>1, <3>2 DEF Handling, Phases
    <2>6. /\ consumer' \in [Nodes -> Handling]
          /\ \A m \in Nodes : consumer'[m].phase # "idle" =>
                 consumer'[m].exec \in DOMAIN execs
        BY <1>2, <2>5 DEF TakeEvent, TypeOK
    <2>. QED
        BY <1>1, <1>2, <2>4, <2>6 DEF TakeEvent, TypeOK, nodeVars
<1>3. CASE Decide(n)
    <2>1. consumer[n].phase # "idle" /\ TaskOf(n) \in Tasks
        BY <1>3, HandledExec DEF Decide, Handles
    <2>2. NextTime(TaskOf(n), consumer[n].row, Now(n)) \in Nat
        BY <2>1, NextTimeType
    <2>3. \E ph \in Phases, next \in Nat :
              \/ consumer' = To(n, ph)
              \/ consumer' = [consumer EXCEPT ![n].phase = ph, ![n].next = next]
              \/ consumer' = Done(n)
        BY <1>3, <2>2 DEF Decide, Phases
    <2>. QED
        BY <1>1, <1>3, <2>1, <2>3, ConsumerType DEF Decide, TypeOK, nodeVars
<1>4. CASE Deactivate(n)
    <2>1. consumer[n].phase # "idle" /\ TaskOf(n) \in Tasks
        BY <1>4, HandledExec DEF Deactivate, Handles
    <2>2. Deactivated(task[TaskOf(n)], Now(n)) \in Row
        BY <1>1, <2>1, RowType DEF TypeOK
    <2>3. task' \in [Tasks -> Row]
        BY <1>4, <2>1, <2>2 DEF Deactivate, TypeOK
    <2>4. /\ consumer' \in [Nodes -> Handling]
          /\ \A m \in Nodes : consumer'[m].phase # "idle" =>
                 consumer'[m].exec \in DOMAIN execs'
        BY <1>4, <2>1, ConsumerType DEF Deactivate, Phases
    <2>. QED
        BY <1>1, <1>4, <2>3, <2>4 DEF Deactivate, TypeOK, nodeVars
<1>5. CASE AdvanceNextTime(n)
    <2>1. consumer[n].phase # "idle" /\ TaskOf(n) \in Tasks /\ consumer[n].next \in Nat
        BY <1>5, HandledExec DEF AdvanceNextTime, Handles, TypeOK, Handling
    <2>2. Advanced(task[TaskOf(n)], consumer[n].next, Now(n)) \in Row
        BY <1>1, <2>1, RowType DEF TypeOK
    <2>3. task' \in [Tasks -> Row]
        BY <1>5, <2>1, <2>2 DEF AdvanceNextTime, TypeOK
    <2>4. execs' = execs /\ (consumer' = To(n, "release") \/ consumer' = Done(n))
        BY <1>5 DEF AdvanceNextTime
    <2>5. /\ consumer' \in [Nodes -> Handling]
          /\ \A m \in Nodes : consumer'[m].phase # "idle" =>
                 consumer'[m].exec \in DOMAIN execs'
        BY <2>1, <2>4, ConsumerType DEF Phases
    <2>. QED
        BY <1>1, <1>5, <2>3, <2>4, <2>5 DEF AdvanceNextTime, TypeOK, nodeVars
<1>6. CASE ReleaseLease(n)
    <2>1. consumer[n].phase # "idle" /\ TaskOf(n) \in Tasks
        BY <1>6, HandledExec DEF ReleaseLease, Handles
    <2>2. Released(task[TaskOf(n)], Now(n)) \in Row
        BY <1>1, <2>1, RowType DEF TypeOK
    <2>3. task' \in [Tasks -> Row]
        BY <1>6, <2>1, <2>2 DEF ReleaseLease, TypeOK
    <2>4. /\ consumer' \in [Nodes -> Handling]
          /\ \A m \in Nodes : consumer'[m].phase # "idle" =>
                 consumer'[m].exec \in DOMAIN execs'
        BY <1>6, <2>1, ConsumerType DEF ReleaseLease, Phases
    <2>. QED
        BY <1>1, <1>6, <2>3, <2>4 DEF ReleaseLease, TypeOK, nodeVars
<1>7. CASE HandlingFails(n)
    <2>1. /\ consumer' \in [Nodes -> Handling]
          /\ \A m \in Nodes : consumer'[m].phase # "idle" =>
                 consumer'[m].exec \in DOMAIN execs'
        BY <1>7, ConsumerType DEF HandlingFails, Phases
    <2>. QED
        BY <1>1, <1>7, <2>1 DEF HandlingFails, TypeOK, nodeVars
<1>. QED
    BY <1>2, <1>3, <1>4, <1>5, <1>6, <1>7 DEF Consuming

\* Events appear and are lost.
LEMMA EventType ==
    ASSUME TypeOK, NEW e \in DOMAIN execs, Complete(e) \/ LoseEvent(e)
    PROVE  TypeOK'
<1>. DEFINE more == [execs[e] EXCEPT !.sent = @ + 1, !.queued = @ + 1]
            less == [execs[e] EXCEPT !.queued = @ - 1]
<1>1. execs[e] \in Exec
    BY ElementOfSeq, LenProperties DEF TypeOK
<1>2. CASE Complete(e)
    <2>1. execs[e].sent + 1 \in 0..MaxEvents /\ execs[e].queued + 1 \in Nat
        BY <1>1, <1>2, LeaseAssumption DEF Complete, Exec
    <2>2. more \in Exec
        <3>1. ASSUME NEW s \in 0..MaxEvents, NEW q \in Nat
              PROVE  [execs[e] EXCEPT !.sent = s, !.queued = q] \in Exec
            BY <1>1, <3>1 DEF Exec
        <3>. QED
            BY <2>1, <3>1
    <2>3. execs' = [execs EXCEPT ![e] = more]
        BY <1>2 DEF Complete, TypeOK
    <2>4. execs' \in Seq(Exec) /\ Len(execs') = Len(execs) /\ DOMAIN execs' = DOMAIN execs
        BY <2>2, <2>3, ExecsUpdate DEF TypeOK
    <2>. QED
        BY <1>2, <2>4 DEF Complete, TypeOK, nodeVars
<1>3. CASE LoseEvent(e)
    <2>1. less \in Exec
        BY <1>1, <1>3 DEF LoseEvent, Exec
    <2>2. execs' = [execs EXCEPT ![e] = less]
        BY <1>3 DEF LoseEvent, TypeOK
    <2>3. execs' \in Seq(Exec) /\ Len(execs') = Len(execs) /\ DOMAIN execs' = DOMAIN execs
        BY <2>1, <2>2, ExecsUpdate DEF TypeOK
    <2>. QED
        BY <1>3, <2>3 DEF LoseEvent, TypeOK, nodeVars
<1>. QED
    BY <1>2, <1>3

\* Every step, and every stuttering step, keeps the types.
LEMMA NextType == TypeOK /\ [Next]_vars => TypeOK'
<1>. SUFFICES ASSUME TypeOK, [Next]_vars PROVE TypeOK'
    OBVIOUS
<1>1. CASE Tick
    BY <1>1, LeaseAssumption DEF Tick, TypeOK, nodeVars
<1>2. ASSUME NEW n \in Nodes, Scheduling(n) PROVE TypeOK'
    BY <1>2, SchedulingType
<1>3. ASSUME NEW n \in Nodes, Consuming(n) PROVE TypeOK'
    BY <1>3, ConsumingType
<1>4. ASSUME NEW e \in DOMAIN execs, Complete(e) \/ LoseEvent(e) PROVE TypeOK'
    BY <1>4, EventType
<1>5. CASE UNCHANGED vars
    BY <1>5 DEF TypeOK, vars
<1>. QED
    BY <1>1, <1>2, <1>3, <1>4, <1>5 DEF Next

\* Every reachable state has the declared shape; in particular a consumer that
\* handles an event always points at an execution record that exists.
THEOREM TypeCorrect == Spec => []TypeOK
<1>1. Init => TypeOK
    BY InitType
<1>2. TypeOK /\ [Next]_vars => TypeOK'
    BY NextType
<1>. QED
    BY <1>1, <1>2, PTL DEF Spec

----------------------------------------------------------------------------
(* What a step can do to one row.  All safety theorems follow from this.    *)

RowStep(t) ==
    \/ task'[t] = task[t]
    \/ \E n \in Nodes : /\ Schedulable(task[t], Now(n))
                        /\ task'[t] = AcquiredBy(task[t], n)
    \/ \E n \in Nodes : /\ Leased(task[t], n)
                        /\ task'[t] = Touched(task[t], Now(n))
    \/ \E n \in Nodes : /\ task[t].status = PREEMPTED
                        /\ task'[t] = Released(task[t], Now(n))
    \/ \E n \in Nodes, next \in Nat : task'[t] = Advanced(task[t], next, Now(n))
    \/ \E n \in Nodes : task'[t] = Deactivated(task[t], Now(n))

\* The acquiring statement looks at the version only; that the row is one the
\* fetch would still return is what SnapshotSound adds.
LEMMA AcquireRowStep ==
    ASSUME TypeOK, SnapshotSound, NEW n \in Nodes, AcquireTask(n), NEW t \in Tasks
    PROVE  RowStep(t)
<1>. DEFINE e == Head(batch[n])
<1>1. 1 \in DOMAIN batch[n] /\ batch[n][1] = e
    BY EmptySeq, LenProperties DEF TypeOK, AcquireTask
<1>2. e \in Snapshot /\ e.id \in Tasks
    <2>1. e \in Snapshot
        BY HeadTailProperties DEF TypeOK, AcquireTask
    <2>. QED
        BY <2>1 DEF Snapshot
<1>3. e.version = task[e.id].version => Schedulable(task[e.id], Now(n))
    BY <1>1 DEF SnapshotSound
<1>4. \/ task' = task
      \/ /\ task[e.id].version = e.version
         /\ task' = [task EXCEPT ![e.id] = AcquiredBy(task[e.id], n)]
    BY DEF AcquireTask
<1>. HIDE DEF e
<1>. QED
    BY <1>2, <1>3, <1>4 DEF RowStep, TypeOK

\* Every action of the specification does to each row one of these things.
LEMMA EveryRowStep ==
    ASSUME TypeOK, SnapshotSound, [Next]_vars, NEW t \in Tasks
    PROVE  RowStep(t)
<1>1. CASE task' = task
    BY <1>1 DEF RowStep
<1>2. ASSUME NEW n \in Nodes, AcquireTask(n) PROVE RowStep(t)
    BY <1>2, AcquireRowStep
<1>3. ASSUME NEW n \in Nodes, CreateFails(n) PROVE RowStep(t)
    <2>1. holding[n] \in Tasks
        BY <1>3 DEF CreateFails, TypeOK
    <2>. QED
        BY <1>3, <2>1 DEF CreateFails, Leased, RowStep, TypeOK
<1>4. ASSUME NEW n \in Nodes, Renew(n) PROVE RowStep(t)
    BY <1>4 DEF Renew, Renewed, RowStep
<1>5. ASSUME NEW n \in Nodes, Deactivate(n) PROVE RowStep(t)
    <2>1. TaskOf(n) \in Tasks
        BY <1>5, HandledExec DEF Deactivate, Handles
    <2>. QED
        BY <1>5, <2>1 DEF Deactivate, RowStep, TypeOK
<1>6. ASSUME NEW n \in Nodes, AdvanceNextTime(n) PROVE RowStep(t)
    <2>1. TaskOf(n) \in Tasks /\ consumer[n].next \in Nat
        BY <1>6, HandledExec DEF AdvanceNextTime, Handles, TypeOK, Handling
    <2>. QED
        BY <1>6, <2>1 DEF AdvanceNextTime, RowStep, TypeOK
<1>7. ASSUME NEW n \in Nodes, ReleaseLease(n) PROVE RowStep(t)
    <2>1. TaskOf(n) \in Tasks
        BY <1>7, HandledExec DEF ReleaseLease, Handles
    <2>. QED
        BY <1>7, <2>1 DEF ReleaseLease, Leased, RowStep, TypeOK
<1>8. \/ task' = task
      \/ \E n \in Nodes : \/ AcquireTask(n) \/ CreateFails(n) \/ Renew(n)
                          \/ Deactivate(n) \/ AdvanceNextTime(n) \/ ReleaseLease(n)
    BY DEF Next, vars, Tick, Scheduling, FetchBatch, CreateExecution, Stop, Crash, Restart,
           Consuming, TakeEvent, Decide, HandlingFails, Complete, LoseEvent
<1>. QED
    BY <1>1, <1>2, <1>3, <1>4, <1>5, <1>6, <1>7, <1>8

\* A step leaves the version of a row alone only if it leaves the row alone.
LEMMA VersionCounts ==
    ASSUME NEW t \in Tasks, task[t] \in Row, RowStep(t)
    PROVE  task'[t] = task[t] \/ task'[t].version = task[t].version + 1
<1>1. \A n \in Nodes : Touched(task[t], Now(n)).version = task[t].version + 1
    BY DEF Touched, Row
<1>. QED
    BY <1>1, RowVersion DEF RowStep

----------------------------------------------------------------------------
(* LeaseHasOwner. *)

\* None of them leaves a leased row without an owner or an active one with one.
LEMMA OwnerStep ==
    ASSUME TypeOK, LeaseHasOwner, NEW t \in Tasks, RowStep(t)
    PROVE  /\ task'[t].status = PREEMPTED => task'[t].node \in Nodes
           /\ task'[t].status = ACTIVE => task'[t].node = NoNode
<1>. DEFINE r == task[t]
<1>1. r \in Row
    BY DEF TypeOK
<1>2. /\ r.status = PREEMPTED => r.node \in Nodes
      /\ r.status = ACTIVE => r.node = NoNode
    BY DEF LeaseHasOwner
<1>3. ASSUME NEW n \in Nodes, NEW next
      PROVE  /\ AcquiredBy(r, n).status = PREEMPTED /\ AcquiredBy(r, n).node = n
             /\ Touched(r, Now(n)).status = r.status /\ Touched(r, Now(n)).node = r.node
             /\ Released(r, Now(n)).status = ACTIVE /\ Released(r, Now(n)).node = NoNode
             /\ Advanced(r, next, Now(n)).status = r.status
             /\ Advanced(r, next, Now(n)).node = r.node
             /\ Deactivated(r, Now(n)).status = INACTIVE
    BY <1>1 DEF Row, AcquiredBy, Touched, Released, Advanced, Deactivated
<1>. HIDE DEF r
<1>4. ACTIVE # PREEMPTED /\ INACTIVE # PREEMPTED /\ INACTIVE # ACTIVE
    BY DEF ACTIVE, PREEMPTED, INACTIVE
<1>. QED
    BY <1>2, <1>3, <1>4 DEF RowStep, r

----------------------------------------------------------------------------
(* SnapshotSound. *)

\* Time passes, and what was due stays due.
LEMMA StaysSchedulable ==
    ASSUME TypeOK, NEW t \in Tasks, NEW n \in Nodes, clock' \in Nat, clock' >= clock,
           Schedulable(task[t], Now(n))
    PROVE  Schedulable(task[t], Now(n)')
<1>1. Now(n) \in Nat /\ Now(n)' \in Nat /\ Now(n) <= Now(n)'
    <2>1. Skew[n] \in Nat /\ clock \in Nat
        BY LeaseAssumption DEF TypeOK
    <2>. QED
        BY <2>1 DEF Now
<1>2. task[t].nextTime \in Nat /\ task[t].utime \in Nat /\ PreemptedTimeout \in Nat
    BY LeaseAssumption DEF TypeOK, Row
<1>. QED
    BY <1>1, <1>2 DEF Schedulable, Expired

\* An entry of a batch was there before, or has just been read from the table.
LEMMA BatchStep ==
    ASSUME TypeOK, [Next]_vars, NEW m \in Nodes, NEW i \in DOMAIN batch'[m]
    PROVE  \/ \E j \in DOMAIN batch[m] : batch'[m][i] = batch[m][j]
           \/ /\ clock' = clock /\ task' = task
              /\ batch'[m][i].id \in Due(m)
              /\ batch'[m][i].version = task[batch'[m][i].id].version
<1>1. CASE batch'[m] = batch[m]
    BY <1>1
<1>2. ASSUME NEW n \in Nodes, FetchBatch(n), batch'[m] # batch[m]
      PROVE  /\ clock' = clock /\ task' = task
             /\ batch'[m][i].id \in Due(m)
             /\ batch'[m][i].version = task[batch'[m][i].id].version
    <2>1. n = m
        BY <1>2 DEF FetchBatch, TypeOK
    <2>2. PICK s \in Batches(Due(m)) :
              batch'[m] = [j \in DOMAIN s |-> [id |-> s[j], version |-> task[s[j]].version]]
        BY <1>2, <2>1 DEF FetchBatch, TypeOK
    <2>. QED
        BY <1>2, <2>2, BatchType DEF FetchBatch
<1>3. ASSUME NEW n \in Nodes, AcquireTask(n), batch'[m] # batch[m]
      PROVE  \E j \in DOMAIN batch[m] : batch'[m][i] = batch[m][j]
    <2>1. n = m /\ batch'[m] = Tail(batch[m])
        BY <1>3 DEF AcquireTask, TypeOK
    <2>2. batch[m] \in Seq(Snapshot) /\ batch[m] # <<>>
        BY <1>3, <2>1 DEF AcquireTask, TypeOK
    <2>3. /\ DOMAIN batch[m] = 1..Len(batch[m]) /\ Len(batch[m]) \in Nat
          /\ DOMAIN batch'[m] = 1..Len(batch[m]) - 1
          /\ \A j \in 1..Len(batch[m]) - 1 : Tail(batch[m])[j] = batch[m][j + 1]
        BY <2>1, <2>2, HeadTailProperties, LenProperties
    <2>4. i + 1 \in DOMAIN batch[m] /\ batch'[m][i] = batch[m][i + 1]
        BY <2>1, <2>3
    <2>. QED
        BY <2>4
<1>4. ASSUME NEW n \in Nodes, Stop(n) \/ Crash(n), batch'[m] # batch[m]
      PROVE  FALSE
    BY <1>4 DEF Stop, Crash, TypeOK
<1>5. \/ batch' = batch
      \/ \E n \in Nodes : FetchBatch(n) \/ AcquireTask(n) \/ Stop(n) \/ Crash(n)
    BY DEF Next, vars, nodeVars, Tick, Scheduling, CreateExecution, CreateFails, Renew, Restart,
           Consuming, TakeEvent, Decide, Deactivate, AdvanceNextTime, ReleaseLease,
           HandlingFails, Complete, LoseEvent
<1>. QED
    BY <1>1, <1>2, <1>3, <1>4, <1>5

\* The clock never goes back.
LEMMA ClockStep ==
    ASSUME TypeOK, [Next]_vars
    PROVE  clock' \in Nat /\ clock' >= clock
<1>1. clock' = clock \/ clock' = clock + 1
    BY DEF Next, vars, Tick, Scheduling, FetchBatch, AcquireTask, CreateExecution, CreateFails,
           Renew, Stop, Crash, Restart, Consuming, TakeEvent, Decide, Deactivate,
           AdvanceNextTime, ReleaseLease, HandlingFails, Complete, LoseEvent
<1>. QED
    BY <1>1, LeaseAssumption DEF TypeOK

\* An entry keeps its meaning: a changed row has outgrown the entry's version,
\* and an unchanged row is still due.
LEMMA SnapshotStep ==
    ASSUME TypeOK, SnapshotSound, [Next]_vars
    PROVE  SnapshotSound'
<1>. SUFFICES ASSUME NEW m \in Nodes, NEW i \in DOMAIN batch'[m]
              PROVE  LET e == batch'[m][i]
                     IN  /\ e.version <= task'[e.id].version
                         /\ e.version = task'[e.id].version => Schedulable(task'[e.id], Now(m)')
    BY DEF SnapshotSound
<1>. DEFINE e == batch'[m][i]
<1>1. /\ e.id \in Tasks /\ e.version \in Nat
      /\ e.version <= task[e.id].version
      /\ e.version = task[e.id].version => Schedulable(task[e.id], Now(m))
    <2>1. CASE \E j \in DOMAIN batch[m] : e = batch[m][j]
        <3>1. PICK j \in DOMAIN batch[m] : e = batch[m][j]
            BY <2>1
        <3>2. e \in Snapshot
            BY <3>1, ElementOfSeq, LenProperties DEF TypeOK
        <3>. QED
            BY <3>1, <3>2 DEF SnapshotSound, Snapshot
    <2>2. CASE e.id \in Due(m) /\ e.version = task[e.id].version
        BY <2>2 DEF Due, TypeOK, Row
    <2>. QED
        BY <2>1, <2>2, BatchStep
<1>. HIDE DEF e
<1>2. task[e.id] \in Row /\ task[e.id].version \in Nat
    BY <1>1 DEF TypeOK, Row
<1>3. task'[e.id] = task[e.id] \/ task'[e.id].version = task[e.id].version + 1
    BY <1>1, <1>2, EveryRowStep, VersionCounts
<1>4. e.version <= task'[e.id].version
    BY <1>1, <1>2, <1>3
<1>5. e.version = task'[e.id].version => Schedulable(task'[e.id], Now(m)')
    BY <1>1, <1>2, <1>3, ClockStep, StaysSchedulable
<1>. QED
    BY <1>4, <1>5 DEF e

----------------------------------------------------------------------------
(* Theorems.  The inductive invariant is the conjunction of the three parts: *)
(* SnapshotSound is needed to know what the acquiring statement does, and    *)
(* LeaseHasOwner to know that an unleased row names nobody.                  *)

LeaseInv == TypeOK /\ LeaseHasOwner /\ SnapshotSound

\* The inductive invariant holds initially ...
LEMMA InitInv == Init => LeaseInv
<1>1. Init => LeaseHasOwner
    BY DEF Init, LeaseHasOwner, ACTIVE, PREEMPTED
<1>2. Init => SnapshotSound
    BY DEF Init, SnapshotSound
<1>. QED
    BY <1>1, <1>2, InitType DEF LeaseInv

\* ... and is kept by every step.
LEMMA NextInv == LeaseInv /\ [Next]_vars => LeaseInv'
<1>. SUFFICES ASSUME LeaseInv, [Next]_vars PROVE LeaseInv'
    OBVIOUS
<1>1. TypeOK'
    BY NextType DEF LeaseInv
<1>2. SnapshotSound'
    BY SnapshotStep DEF LeaseInv
<1>3. LeaseHasOwner'
    BY EveryRowStep, OwnerStep DEF LeaseInv, LeaseHasOwner
<1>. QED
    BY <1>1, <1>2, <1>3 DEF LeaseInv

\* The inductive invariant holds in every reachable state: rows have owners
\* exactly while they are leased, and fetched snapshots stay trustworthy.
THEOREM LeaseInvariant == Spec => []LeaseInv
BY InitInv, NextInv, PTL DEF Spec

\* Over any number of nodes, crashes and failed statements, a PREEMPTED row
\* names the node that holds it and an ACTIVE row names nobody.
THEOREM LeaseOwnership == Spec => []LeaseHasOwner
<1>1. LeaseInv => LeaseHasOwner
    BY DEF LeaseInv
<1>. QED
    BY <1>1, LeaseInvariant, PTL

\* The acquiring UPDATE may check the version alone: a row whose version is the
\* fetched one is still due for the node that fetched it, whatever the skew.
THEOREM SnapshotsAreSound == Spec => []SnapshotSound
<1>1. LeaseInv => SnapshotSound
    BY DEF LeaseInv
<1>. QED
    BY <1>1, LeaseInvariant, PTL

\* A lease passes from one node to another only when it had expired by the
\* clock of the node that takes it.
THEOREM LeasesAreNotStolen == Spec => LeaseNotStolen
<1>. DEFINE Kept ==
        \A t \in Tasks, a, b \in Nodes :
            a # b /\ Leased(task[t], a) /\ Leased(task'[t], b) => Expired(task[t], Now(b))
<1>1. LeaseInv /\ [Next]_vars => [Kept]_vars
    <2>. SUFFICES ASSUME LeaseInv, [Next]_vars, NEW t \in Tasks, NEW a \in Nodes, NEW b \in Nodes,
                         a # b, Leased(task[t], a), Leased(task'[t], b)
                  PROVE  Expired(task[t], Now(b))
        OBVIOUS
    <2>. DEFINE r == task[t]
    <2>1. r \in Row /\ RowStep(t)
        BY EveryRowStep DEF LeaseInv, TypeOK
    <2>2. r.status = PREEMPTED /\ r.node = a /\ task'[t].status = PREEMPTED /\ task'[t].node = b
        BY DEF Leased
    <2>3. ASSUME NEW n \in Nodes, NEW next
          PROVE  /\ AcquiredBy(r, n).node = n
                 /\ Touched(r, Now(n)).node = r.node
                 /\ Released(r, Now(n)).status = ACTIVE
                 /\ Advanced(r, next, Now(n)).node = r.node
                 /\ Deactivated(r, Now(n)).node = r.node
        BY <2>1 DEF Row, AcquiredBy, Touched, Released, Advanced, Deactivated
    <2>4. Schedulable(r, Now(b)) /\ task'[t] = AcquiredBy(r, b)
        <3>. HIDE DEF r
        <3>1. ACTIVE # PREEMPTED
            BY DEF ACTIVE, PREEMPTED
        <3>. QED
            BY <2>1, <2>2, <2>3, <3>1 DEF RowStep, r
    <2>. QED
        BY <2>2, <2>4 DEF Schedulable, ACTIVE, PREEMPTED
<1>. QED
    BY <1>1, LeaseInvariant, PTL DEF Spec, LeaseNotStolen

\* A task that was deactivated stays deactivated: no acquisition from an old
\* batch and no late release brings it back.
THEOREM InactiveStaysInactive == Spec => InactiveIsFinal
<1>. DEFINE Stays ==
        \A t \in Tasks : task[t].status = INACTIVE => task'[t].status = INACTIVE
<1>1. LeaseInv /\ [Next]_vars => [Stays]_vars
    <2>. SUFFICES ASSUME LeaseInv, [Next]_vars, NEW t \in Tasks, task[t].status = INACTIVE
                  PROVE  task'[t].status = INACTIVE
        OBVIOUS
    <2>. DEFINE r == task[t]
    <2>1. r \in Row /\ RowStep(t)
        BY EveryRowStep DEF LeaseInv, TypeOK
    <2>2. r.status # PREEMPTED /\ \A now : ~Schedulable(r, now)
        BY DEF Schedulable, ACTIVE, PREEMPTED, INACTIVE
    <2>3. ASSUME NEW n \in Nodes, NEW next
          PROVE  /\ Advanced(r, next, Now(n)).status = r.status
                 /\ Deactivated(r, Now(n)).status = INACTIVE
        BY <2>1 DEF Row, Touched, Advanced, Deactivated
    <2>. QED
        BY <2>1, <2>2, <2>3 DEF RowStep, Leased
<1>. QED
    BY <1>1, LeaseInvariant, PTL DEF Spec, InactiveIsFinal

----------------------------------------------------------------------------
(* OverlapExplained.  While nothing exceptional has happened to a task, the  *)
(* right to run it is carried in one place at a time, from the loop that     *)
(* acquires it through the execution to the handler of its completion, and   *)
(* the row is ACTIVE only when nobody carries it.                            *)

Explained(t) ==
    t \in expiries \/ \E k \in DOMAIN execs : execs[k].task = t /\ execs[k].consumed = 2

Acquirers(t) == {n \in Nodes : holding[n] = t}
Running(t) == {e \in DOMAIN execs : execs[e].task = t /\ execs[e].consumed = 0}
Handlers(t) == {n \in Nodes : consumer[n].phase # "idle" /\ TaskOf(n) = t}

Uncarried(t) == Acquirers(t) = {} /\ Running(t) = {} /\ Handlers(t) = {}

Carried(t) ==
    /\ \A m, n \in Acquirers(t) : m = n
    /\ \A d, e \in Running(t) : d = e
    /\ \A m, n \in Handlers(t) : m = n
    /\ Acquirers(t) = {} \/ Running(t) = {}
    /\ Acquirers(t) = {} \/ Handlers(t) = {}
    /\ Running(t) = {} \/ Handlers(t) = {}
    /\ task[t].status = ACTIVE => Uncarried(t)

OverlapInv == LeaseInv /\ \A t \in Tasks : ~Explained(t) => Carried(t)

\* A place that gives up the right needs no new explanation ...
LEMMA CarriedStays ==
    ASSUME NEW t \in Tasks, Carried(t),
           Acquirers(t)' \subseteq Acquirers(t), Running(t)' \subseteq Running(t),
           Handlers(t)' \subseteq Handlers(t),
           task'[t].status = ACTIVE => task[t].status = ACTIVE \/ Uncarried(t)'
    PROVE  Carried(t)'
<1>1. Carried(t)' <=>
        /\ \A m, n \in Acquirers(t)' : m = n
        /\ \A d, e \in Running(t)' : d = e
        /\ \A m, n \in Handlers(t)' : m = n
        /\ Acquirers(t)' = {} \/ Running(t)' = {}
        /\ Acquirers(t)' = {} \/ Handlers(t)' = {}
        /\ Running(t)' = {} \/ Handlers(t)' = {}
        /\ task'[t].status = ACTIVE => Uncarried(t)'
    BY DEF Carried, ACTIVE
<1>2. Uncarried(t)' <=> Acquirers(t)' = {} /\ Running(t)' = {} /\ Handlers(t)' = {}
    BY DEF Uncarried
<1>. QED
    BY <1>1, <1>2 DEF Carried, Uncarried

\* ... and neither does one that hands it on, to an execution ...
LEMMA CarriedByExecution ==
    ASSUME NEW t \in Tasks, Carried(t), NEW n \in Acquirers(t), NEW e,
           Acquirers(t)' = Acquirers(t) \ {n}, Running(t)' \subseteq Running(t) \cup {e},
           Handlers(t)' = Handlers(t), task'[t].status = task[t].status
    PROVE  Carried(t)'
<1>1. task[t].status # ACTIVE /\ Running(t) = {} /\ Handlers(t) = {} /\ Acquirers(t)' = {}
    BY DEF Carried, Uncarried
<1>. QED
    BY <1>1 DEF Carried, ACTIVE

\* ... or to a handler.
LEMMA CarriedByHandler ==
    ASSUME NEW t \in Tasks, Carried(t), NEW e \in Running(t), NEW n,
           Acquirers(t)' = Acquirers(t), Running(t)' = Running(t) \ {e},
           Handlers(t)' \subseteq Handlers(t) \cup {n}, task'[t].status = task[t].status
    PROVE  Carried(t)'
<1>1. task[t].status # ACTIVE /\ Acquirers(t) = {} /\ Handlers(t) = {} /\ Running(t)' = {}
    BY DEF Carried, Uncarried
<1>. QED
    BY <1>1 DEF Carried, ACTIVE

\* Every write but a release leaves the row as idle or as busy as it was.
LEMMA RowStatus ==
    ASSUME NEW row \in Row, NEW n, NEW now, NEW next
    PROVE  /\ AcquiredBy(row, n).status = PREEMPTED
           /\ Renewed(row, n).status = row.status
           /\ Advanced(row, next, now).status = row.status
           /\ Deactivated(row, now).status = INACTIVE
BY DEF Row, AcquiredBy, Renewed, Advanced, Deactivated, Touched

\* Executions that keep their task and their being handled.
SameExecs ==
    /\ DOMAIN execs' = DOMAIN execs
    /\ \A k \in DOMAIN execs : /\ execs'[k].task = execs[k].task
                               /\ execs'[k].consumed = execs[k].consumed

LEMMA SameExecsAre ==
    ASSUME TypeOK, SameExecs, NEW t \in Tasks
    PROVE  /\ Running(t)' = Running(t)
           /\ expiries' = expiries => (Explained(t)' <=> Explained(t))
           /\ \A n \in Nodes : consumer[n].phase # "idle" =>
                  execs'[consumer[n].exec].task = TaskOf(n)
<1>1. \A n \in Nodes : consumer[n].phase # "idle" => consumer[n].exec \in DOMAIN execs
    BY DEF TypeOK
<1>. QED
    BY <1>1 DEF SameExecs, Running, Explained, TaskOf

\* A consumer that goes on with its event, or drops it.
LEMMA HandlersShrink ==
    ASSUME TypeOK, SameExecs, NEW n \in Nodes, NEW t \in Tasks,
           \A m \in Nodes \ {n} : consumer'[m] = consumer[m],
           \/ consumer'[n].phase = "idle"
           \/ consumer[n].phase # "idle" /\ consumer'[n].exec = consumer[n].exec
    PROVE  /\ Handlers(t)' \subseteq Handlers(t)
           /\ consumer'[n].phase = "idle" => n \notin Handlers(t)'
<1>. SUFFICES ASSUME NEW m \in Nodes, consumer'[m].phase # "idle",
                     execs'[consumer'[m].exec].task = t
              PROVE  consumer[m].phase # "idle" /\ TaskOf(m) = t
    BY DEF Handlers, TaskOf
<1>1. consumer[m].phase # "idle" /\ consumer'[m].exec = consumer[m].exec
    OBVIOUS
<1>2. execs'[consumer[m].exec].task = TaskOf(m)
    BY <1>1, SameExecsAre
<1>. QED
    BY <1>1, <1>2

\* Events that appear, are lost or come again say nothing about who runs what.
LEMMA EventsKeepExecs ==
    ASSUME TypeOK, NEW e \in DOMAIN execs,
           \/ Complete(e) \/ LoseEvent(e)
           \/ execs' = [execs EXCEPT ![e].queued = @ + 1]
    PROVE  SameExecs
<1>1. execs[e] \in Exec /\ DOMAIN execs = 1..Len(execs)
    BY ElementOfSeq, LenProperties DEF TypeOK
<1>. DEFINE more == [execs[e] EXCEPT !.sent = @ + 1, !.queued = @ + 1]
            less == [execs[e] EXCEPT !.queued = @ - 1]
            again == [execs[e] EXCEPT !.queued = @ + 1]
<1>2. PICK x : /\ execs' = [execs EXCEPT ![e] = x]
               /\ x.task = execs[e].task /\ x.consumed = execs[e].consumed
    <2>1. CASE Complete(e)
        <3>1. execs' = [execs EXCEPT ![e] = more]
            BY <2>1 DEF Complete, TypeOK
        <3>2. more.task = execs[e].task /\ more.consumed = execs[e].consumed
            BY <1>1 DEF Exec
        <3>. QED
            BY <3>1, <3>2
    <2>2. CASE LoseEvent(e)
        <3>1. execs' = [execs EXCEPT ![e] = less]
            BY <2>2 DEF LoseEvent
        <3>2. less.task = execs[e].task /\ less.consumed = execs[e].consumed
            BY <1>1 DEF Exec
        <3>. QED
            BY <3>1, <3>2
    <2>3. CASE execs' = [execs EXCEPT ![e].queued = @ + 1]
        <3>1. execs' = [execs EXCEPT ![e] = again]
            BY <2>3
        <3>2. again.task = execs[e].task /\ again.consumed = execs[e].consumed
            BY <1>1 DEF Exec
        <3>. QED
            BY <3>1, <3>2
    <2>. QED
        BY <2>1, <2>2, <2>3
<1>. QED
    BY <1>2 DEF SameExecs

\* An execution that is taken is counted; the others stay what they were.
LEMMA TakeExecs ==
    ASSUME TypeOK, NEW n \in Nodes, NEW e \in DOMAIN execs, TakeEvent(n, e)
    PROVE  /\ DOMAIN execs' = DOMAIN execs
           /\ \A k \in DOMAIN execs : execs'[k].task = execs[k].task
           /\ \A k \in DOMAIN execs : k # e => execs'[k].consumed = execs[k].consumed
           /\ execs'[e].consumed = IF execs[e].consumed = 0 THEN 1 ELSE 2
<1>1. execs[e] \in Exec /\ DOMAIN execs = 1..Len(execs)
    BY ElementOfSeq, LenProperties DEF TypeOK
<1>. DEFINE times == IF execs[e].consumed = 0 THEN 1 ELSE 2
            x == [execs[e] EXCEPT !.queued = @ - 1, !.consumed = times]
<1>2. execs' = [execs EXCEPT ![e] = x]
    BY DEF TakeEvent, TypeOK
<1>3. x.task = execs[e].task /\ x.consumed = times
    BY <1>1 DEF Exec
<1>. QED
    BY <1>2, <1>3

\* A new execution comes behind the others.
LEMMA CreateExecs ==
    ASSUME TypeOK, NEW n \in Nodes, CreateExecution(n)
    PROVE  LET new == Len(execs) + 1
           IN  /\ DOMAIN execs' = DOMAIN execs \cup {new} /\ new \notin DOMAIN execs
               /\ \A k \in DOMAIN execs : execs'[k] = execs[k]
               /\ execs'[new].task = holding[n] /\ execs'[new].consumed = 0
<1>. DEFINE x == [task |-> holding[n], node |-> task[holding[n]].node,
                  sent |-> 0, queued |-> 0, consumed |-> 0]
<1>1. x \in Exec
    <2>1. holding[n] \in Tasks /\ task[holding[n]].node \in Nodes \cup {NoNode}
        BY DEF CreateExecution, TypeOK, Row
    <2>. QED
        BY <2>1, LeaseAssumption DEF Exec
<1>2. execs' = Append(execs, x) /\ x.task = holding[n] /\ x.consumed = 0
    BY DEF CreateExecution
<1>. HIDE DEF x
<1>3. /\ Len(execs') = Len(execs) + 1 /\ execs' \in Seq(Exec)
      /\ \A k \in 1..Len(execs) : execs'[k] = execs[k]
      /\ execs'[Len(execs) + 1] = x
    BY <1>1, <1>2, AppendProperties DEF TypeOK
<1>4. DOMAIN execs = 1..Len(execs) /\ DOMAIN execs' = 1..Len(execs') /\ Len(execs) \in Nat
    BY <1>3, LenProperties DEF TypeOK
<1>. QED
    BY <1>2, <1>3, <1>4

\* The list of executions and the expired leases are all a step can add to.
LEMMA ExecsStep ==
    ASSUME TypeOK, [Next]_vars
    PROVE  \/ SameExecs
           \/ \E n \in Nodes : CreateExecution(n)
           \/ \E n \in Nodes, e \in DOMAIN execs : TakeEvent(n, e)
<1>1. CASE execs' = execs
    BY <1>1 DEF SameExecs
<1>2. ASSUME NEW n \in Nodes, Crash(n), execs' # execs PROVE SameExecs
    <2>1. consumer[n].exec \in DOMAIN execs
        BY <1>2, HandledExec DEF Crash
    <2>2. execs' = [execs EXCEPT ![consumer[n].exec].queued = @ + 1]
        BY <1>2 DEF Crash
    <2>. QED
        BY <2>1, <2>2, EventsKeepExecs
<1>3. ASSUME NEW e \in DOMAIN execs, Complete(e) \/ LoseEvent(e) PROVE SameExecs
    BY <1>3, EventsKeepExecs
<1>4. \/ execs' = execs
      \/ \E n \in Nodes : Crash(n) \/ CreateExecution(n)
      \/ \E n \in Nodes, e \in DOMAIN execs : TakeEvent(n, e)
      \/ \E e \in DOMAIN execs : Complete(e) \/ LoseEvent(e)
    BY DEF Next, vars, nodeVars, Tick, Scheduling, FetchBatch, AcquireTask, CreateFails, Renew,
           Stop, Restart, Consuming, Decide, Deactivate, AdvanceNextTime, ReleaseLease,
           HandlingFails
<1>. QED
    BY <1>1, <1>2, <1>3, <1>4

\* What explains an overlap is never forgotten.
LEMMA ExplainedStays ==
    ASSUME TypeOK, [Next]_vars, NEW t \in Tasks, Explained(t)
    PROVE  Explained(t)'
<1>1. expiries \subseteq expiries'
    BY DEF Next, vars, nodeVars, Tick, Scheduling, FetchBatch, AcquireTask, CreateExecution,
           CreateFails, Renew, Stop, Crash, Restart, Consuming, TakeEvent, Decide, Deactivate,
           AdvanceNextTime, ReleaseLease, HandlingFails, Complete, LoseEvent
<1>2. ASSUME NEW k \in DOMAIN execs, execs[k].task = t, execs[k].consumed = 2
      PROVE  k \in DOMAIN execs' /\ execs'[k].task = t /\ execs'[k].consumed = 2
    <2>1. CASE SameExecs
        BY <1>2, <2>1 DEF SameExecs
    <2>2. ASSUME NEW n \in Nodes, CreateExecution(n)
          PROVE  k \in DOMAIN execs' /\ execs'[k] = execs[k]
        BY <2>2, CreateExecs
    <2>3. ASSUME NEW n \in Nodes, NEW e \in DOMAIN execs, TakeEvent(n, e)
          PROVE  k \in DOMAIN execs' /\ execs'[k].task = t /\ execs'[k].consumed = 2
        BY <1>2, <2>3, TakeExecs
    <2>. QED
        BY <1>2, <2>1, <2>2, <2>3, ExecsStep
<1>. QED
    BY <1>1, <1>2 DEF Explained

\* An acquisition finds the row ACTIVE, and then nobody carries the task, or it
\* finds an expired lease, and that is remembered.
LEMMA AcquireCarried ==
    ASSUME OverlapInv, NEW n \in Nodes, AcquireTask(n), NEW t \in Tasks,
           ~Explained(t), ~Explained(t)'
    PROVE  Carried(t)'
<1>. DEFINE e == Head(batch[n])
<1>0. TypeOK /\ SnapshotSound /\ Carried(t)
    BY DEF OverlapInv, LeaseInv
<1>1. UNCHANGED <<execs, consumer>>
    BY DEF AcquireTask
<1>2. Running(t)' = Running(t) /\ Handlers(t)' = Handlers(t)
    BY <1>1 DEF Running, Handlers, TaskOf
<1>3. CASE UNCHANGED <<task, holding>>
    BY <1>0, <1>2, <1>3, CarriedStays DEF Acquirers
<1>4. CASE ~UNCHANGED <<task, holding>>
    <2>1. /\ task[e.id].version = e.version
          /\ task' = [task EXCEPT ![e.id] = AcquiredBy(task[e.id], n)]
          /\ holding[n] = NoTask /\ holding' = [holding EXCEPT ![n] = e.id]
          /\ expiries' = IF task[e.id].status = PREEMPTED /\ Expired(task[e.id], Now(n))
                         THEN expiries \cup {e.id} ELSE expiries
        BY <1>4 DEF AcquireTask
    <2>2. e \in Snapshot /\ e.id \in Tasks /\ 1 \in DOMAIN batch[n] /\ batch[n][1] = e
        <3>1. e \in Snapshot
            BY <1>0, HeadTailProperties DEF TypeOK, AcquireTask
        <3>2. 1 \in DOMAIN batch[n] /\ batch[n][1] = e
            BY <1>0, EmptySeq, LenProperties DEF TypeOK, AcquireTask
        <3>. QED
            BY <3>1, <3>2 DEF Snapshot
    <2>3. Schedulable(task[e.id], Now(n))
        BY <1>0, <2>1, <2>2 DEF SnapshotSound
    <2>. HIDE DEF e
    <2>4. CASE e.id # t
        <3>1. task'[t] = task[t] /\ Acquirers(t)' = Acquirers(t)
            BY <1>0, <2>1, <2>2, <2>4, LeaseAssumption DEF TypeOK, Acquirers
        <3>. QED
            BY <1>0, <1>2, <3>1, CarriedStays
    <2>5. CASE e.id = t
        <3>1. task[t].status = ACTIVE
            <4>1. t \notin expiries'
                BY DEF Explained
            <4>. QED
                BY <2>1, <2>3, <2>5, <4>1 DEF Schedulable
        <3>2. Acquirers(t)' = {n} /\ Running(t)' = {} /\ Handlers(t)' = {}
            <4>1. Acquirers(t) = {} /\ Running(t) = {} /\ Handlers(t) = {}
                BY <1>0, <3>1 DEF Carried, Uncarried
            <4>2. Acquirers(t)' = {n}
                BY <1>0, <2>1, <2>5, <4>1 DEF Acquirers, TypeOK
            <4>. QED
                BY <1>2, <4>1, <4>2
        <3>3. task'[t].status = PREEMPTED
            <4>1. task[t] \in Row /\ task'[t] = AcquiredBy(task[t], n)
                BY <1>0, <2>1, <2>2, <2>5 DEF TypeOK
            <4>2. AcquiredBy(task[t], n).status = PREEMPTED
                BY <4>1, RowStatus
            <4>. QED
                BY <4>1, <4>2
        <3>. QED
            BY <3>2, <3>3 DEF Carried, ACTIVE, PREEMPTED
    <2>. QED
        BY <2>4, <2>5
<1>. QED
    BY <1>3, <1>4

\* The loop hands the right on to the execution it creates.
LEMMA CreateCarried ==
    ASSUME TypeOK, NEW n \in Nodes, CreateExecution(n), NEW t \in Tasks, Carried(t)
    PROVE  Carried(t)'
<1>. DEFINE new == Len(execs) + 1
<1>1. /\ DOMAIN execs' = DOMAIN execs \cup {new} /\ new \notin DOMAIN execs
      /\ \A k \in DOMAIN execs : execs'[k] = execs[k]
      /\ execs'[new].task = holding[n] /\ execs'[new].consumed = 0
    BY CreateExecs
<1>2. /\ holding' = [holding EXCEPT ![n] = NoTask] /\ consumer' = consumer /\ task' = task
      /\ holding[n] # NoTask
    BY DEF CreateExecution
<1>. HIDE DEF new
<1>3. Handlers(t)' = Handlers(t)
    BY <1>1, <1>2 DEF Handlers, TaskOf, TypeOK
<1>4. Acquirers(t)' = Acquirers(t) \ {n}
    BY <1>2, LeaseAssumption DEF Acquirers, TypeOK
<1>5. CASE holding[n] = t
    <2>1. n \in Acquirers(t) /\ Running(t)' \subseteq Running(t) \cup {new}
        BY <1>1, <1>5 DEF Acquirers, Running
    <2>. QED
        BY <1>2, <1>3, <1>4, <2>1, CarriedByExecution
<1>6. CASE holding[n] # t
    <2>1. Running(t)' \subseteq Running(t)
        BY <1>1, <1>6 DEF Running
    <2>. QED
        BY <1>2, <1>3, <1>4, <2>1, CarriedStays
<1>. QED
    BY <1>5, <1>6

\* A loop that could not create the execution gives the lease back, or dies as
\* its holder: in both cases nobody runs the task.
LEMMA CreateFailsCarried ==
    ASSUME TypeOK, NEW n \in Nodes, CreateFails(n), NEW t \in Tasks, Carried(t)
    PROVE  Carried(t)'
<1>1. /\ holding' = [holding EXCEPT ![n] = NoTask] /\ UNCHANGED <<execs, consumer>>
      /\ holding[n] \in Tasks
      /\ task' = task \/ task' = [task EXCEPT ![holding[n]] = Released(@, Now(n))]
    BY DEF CreateFails, TypeOK
<1>2. Running(t)' = Running(t) /\ Handlers(t)' = Handlers(t)
    BY <1>1 DEF Running, Handlers, TaskOf
<1>3. Acquirers(t)' = Acquirers(t) \ {n}
    BY <1>1, LeaseAssumption DEF Acquirers, TypeOK
<1>4. CASE holding[n] # t
    <2>1. task'[t] = task[t]
        BY <1>1, <1>4 DEF TypeOK
    <2>. QED
        BY <1>2, <1>3, <2>1, CarriedStays
<1>5. CASE holding[n] = t
    <2>1. n \in Acquirers(t)
        BY <1>5 DEF Acquirers
    <2>2. Uncarried(t)'
        BY <1>2, <1>3, <2>1 DEF Carried, Uncarried
    <2>. QED
        BY <1>2, <1>3, <2>2, CarriedStays
<1>. QED
    BY <1>4, <1>5

\* The first event of an execution takes over from it; a second one explains.
LEMMA TakeCarried ==
    ASSUME TypeOK, NEW n \in Nodes, NEW e \in DOMAIN execs, TakeEvent(n, e),
           NEW t \in Tasks, Carried(t), ~Explained(t)'
    PROVE  Carried(t)'
<1>1. /\ DOMAIN execs' = DOMAIN execs
      /\ \A k \in DOMAIN execs : execs'[k].task = execs[k].task
      /\ \A k \in DOMAIN execs : k # e => execs'[k].consumed = execs[k].consumed
      /\ execs'[e].consumed = IF execs[e].consumed = 0 THEN 1 ELSE 2
    BY TakeExecs
<1>2. /\ holding' = holding /\ task' = task /\ consumer[n].phase = "idle"
      /\ \A m \in Nodes \ {n} : consumer'[m] = consumer[m]
      /\ consumer'[n].phase = "loaded" /\ consumer'[n].exec = e
    BY DEF TakeEvent, Handles, nodeVars, TypeOK
<1>3. Acquirers(t)' = Acquirers(t)
    BY <1>2 DEF Acquirers
<1>4. \A m \in Nodes : consumer[m].phase # "idle" => consumer[m].exec \in DOMAIN execs
    BY DEF TypeOK
<1>5. Handlers(t)' = IF execs[e].task = t THEN Handlers(t) \cup {n} ELSE Handlers(t)
    <2>1. \A m \in Nodes \ {n} : m \in Handlers(t)' <=> m \in Handlers(t)
        BY <1>1, <1>2, <1>4 DEF Handlers, TaskOf
    <2>2. n \notin Handlers(t) /\ (n \in Handlers(t)' <=> execs[e].task = t)
        BY <1>1, <1>2 DEF Handlers, TaskOf
    <2>3. Handlers(t) \subseteq Nodes /\ Handlers(t)' \subseteq Nodes
        BY DEF Handlers
    <2>. QED
        BY <2>1, <2>2, <2>3
<1>6. Running(t)' = Running(t) \ {e}
    BY <1>1 DEF Running
<1>7. CASE execs[e].task # t
    BY <1>2, <1>3, <1>5, <1>6, <1>7, CarriedStays
<1>8. CASE execs[e].task = t
    <2>1. execs'[e].consumed # 2
        BY <1>1, <1>8 DEF Explained
    <2>2. e \in Running(t)
        BY <1>1, <1>8, <2>1 DEF Running
    <2>. QED
        BY <1>2, <1>3, <1>5, <1>6, <2>2, CarriedByHandler
<1>. QED
    BY <1>7, <1>8

\* A handler that goes on, gives up, retires the task, or moves next_time.
LEMMA HandlerCarried ==
    ASSUME TypeOK, NEW n \in Nodes, NEW t \in Tasks, Carried(t),
           Decide(n) \/ Deactivate(n) \/ AdvanceNextTime(n) \/ HandlingFails(n)
    PROVE  Carried(t)'
<1>1. consumer[n].phase # "idle" /\ UNCHANGED <<holding, execs>>
    BY DEF Decide, Deactivate, AdvanceNextTime, HandlingFails, Handles, nodeVars
<1>2. Acquirers(t)' = Acquirers(t) /\ Running(t)' = Running(t) /\ SameExecs
    BY <1>1 DEF Acquirers, Running, SameExecs
<1>3. \E ph, next : \/ consumer' = To(n, ph)
                    \/ consumer' = [consumer EXCEPT ![n].phase = ph, ![n].next = next]
                    \/ consumer' = Done(n)
    BY DEF Decide, Deactivate, AdvanceNextTime, HandlingFails
<1>4. /\ \A m \in Nodes \ {n} : consumer'[m] = consumer[m]
      /\ consumer'[n].phase = "idle" \/ consumer'[n].exec = consumer[n].exec
    BY <1>3 DEF To, Done, Idle, TypeOK, Handling
<1>5. Handlers(t)' \subseteq Handlers(t)
    BY <1>1, <1>2, <1>4, HandlersShrink
<1>6. task'[t].status = task[t].status \/ task'[t].status = INACTIVE
    <2>1. CASE task' = task
        BY <2>1
    <2>2. CASE task' # task
        <3>1. TaskOf(n) \in Tasks /\ task[TaskOf(n)] \in Row
            BY <1>1, HandledExec DEF TypeOK
        <3>2. \/ task' = [task EXCEPT ![TaskOf(n)] = Deactivated(task[TaskOf(n)], Now(n))]
              \/ task' = [task EXCEPT ![TaskOf(n)] =
                             Advanced(task[TaskOf(n)], consumer[n].next, Now(n))]
            BY <2>2 DEF Decide, Deactivate, AdvanceNextTime, HandlingFails
        <3>3. /\ Deactivated(task[TaskOf(n)], Now(n)).status = INACTIVE
              /\ Advanced(task[TaskOf(n)], consumer[n].next, Now(n)).status
                     = task[TaskOf(n)].status
            BY <3>1, RowStatus
        <3>. QED
            BY <3>1, <3>2, <3>3 DEF TypeOK
    <2>. QED
        BY <2>1, <2>2
<1>. QED
    BY <1>2, <1>5, <1>6, CarriedStays DEF ACTIVE, INACTIVE

\* A handler that gives the lease back was the one that carried the task.
LEMMA ReleaseCarried ==
    ASSUME TypeOK, NEW n \in Nodes, ReleaseLease(n), NEW t \in Tasks, Carried(t)
    PROVE  Carried(t)'
<1>1. /\ consumer[n].phase # "idle" /\ UNCHANGED <<holding, execs>> /\ consumer' = Done(n)
      /\ task' = task \/ task' = [task EXCEPT ![TaskOf(n)] = Released(@, Now(n))]
    BY DEF ReleaseLease, Handles, nodeVars
<1>2. Acquirers(t)' = Acquirers(t) /\ Running(t)' = Running(t) /\ SameExecs
    BY <1>1 DEF Acquirers, Running, SameExecs
<1>3. /\ \A m \in Nodes \ {n} : consumer'[m] = consumer[m]
      /\ consumer'[n].phase = "idle"
    BY <1>1 DEF Done, Idle, TypeOK
<1>4. Handlers(t)' \subseteq Handlers(t) /\ n \notin Handlers(t)'
    BY <1>2, <1>3, HandlersShrink
<1>5. CASE TaskOf(n) # t
    <2>1. task'[t] = task[t]
        BY <1>1, <1>5, HandledExec DEF TypeOK
    <2>. QED
        BY <1>2, <1>4, <2>1, CarriedStays
<1>6. CASE TaskOf(n) = t
    <2>1. n \in Handlers(t)
        BY <1>1, <1>6 DEF Handlers
    <2>2. Uncarried(t)'
        BY <1>2, <1>4, <2>1 DEF Carried, Uncarried
    <2>. QED
        BY <1>2, <1>4, <2>2, CarriedStays
<1>. QED
    BY <1>5, <1>6

\* A process that dies gives up what it carried; its leases stay.
LEMMA CrashCarried ==
    ASSUME TypeOK, NEW n \in Nodes, Crash(n), NEW t \in Tasks, Carried(t)
    PROVE  Carried(t)'
<1>1. /\ task' = task /\ holding' = [holding EXCEPT ![n] = NoTask]
      /\ consumer' = [consumer EXCEPT ![n] = Idle]
    BY DEF Crash
<1>2. SameExecs
    <2>1. CASE execs' = execs
        BY <2>1 DEF SameExecs
    <2>2. CASE execs' # execs
        <3>1. consumer[n].exec \in DOMAIN execs
            BY <2>2, HandledExec DEF Crash
        <3>2. execs' = [execs EXCEPT ![consumer[n].exec].queued = @ + 1]
            BY <2>2 DEF Crash
        <3>. QED
            BY <3>1, <3>2, EventsKeepExecs
    <2>. QED
        BY <2>1, <2>2
<1>3. Acquirers(t)' \subseteq Acquirers(t)
    BY <1>1, LeaseAssumption DEF Acquirers, TypeOK
<1>4. /\ \A m \in Nodes \ {n} : consumer'[m] = consumer[m]
      /\ consumer'[n].phase = "idle"
    BY <1>1 DEF Idle, TypeOK
<1>5. Handlers(t)' \subseteq Handlers(t)
    BY <1>2, <1>4, HandlersShrink
<1>6. Running(t)' = Running(t)
    BY <1>2, SameExecsAre
<1>. QED
    BY <1>1, <1>3, <1>5, <1>6, CarriedStays

\* What is left: time, fetches, renewals, and events on their way.
LEMMA OthersCarried ==
    ASSUME TypeOK, NEW t \in Tasks, Carried(t), SameExecs, UNCHANGED <<holding, consumer>>,
           task' = task \/ \E n \in Nodes : Renew(n)
    PROVE  Carried(t)'
<1>1. Acquirers(t)' = Acquirers(t) /\ Running(t)' = Running(t)
    BY SameExecsAre DEF Acquirers
<1>2. Handlers(t)' \subseteq Handlers(t)
    <2>1. \A n \in Nodes : consumer[n].phase # "idle" =>
              execs'[consumer[n].exec].task = TaskOf(n)
        BY SameExecsAre
    <2>. QED
        BY <2>1 DEF Handlers, TaskOf
<1>3. task'[t].status = task[t].status
    <2>1. ASSUME NEW n \in Nodes, Renew(n) PROVE task'[t].status = task[t].status
        <3>1. task[t] \in Row /\ task'[t] = Renewed(task[t], n)
            BY <2>1 DEF Renew, TypeOK
        <3>2. Renewed(task[t], n).status = task[t].status
            BY <3>1, RowStatus
        <3>. QED
            BY <3>1, <3>2
    <2>. QED
        BY <2>1
<1>. QED
    BY <1>1, <1>2, <1>3, CarriedStays

\* One place carries the right to run, in every reachable state.
LEMMA NextOverlapInv == OverlapInv /\ [Next]_vars => OverlapInv'
<1>. SUFFICES ASSUME OverlapInv, [Next]_vars PROVE OverlapInv'
    OBVIOUS
<1>1. LeaseInv' /\ TypeOK
    BY NextInv DEF OverlapInv, LeaseInv
<1>2. ASSUME NEW t \in Tasks, ~Explained(t)' PROVE Carried(t)'
    <2>1. ~Explained(t) /\ Carried(t)
        BY <1>1, <1>2, ExplainedStays DEF OverlapInv
    <2>2. ASSUME NEW n \in Nodes, AcquireTask(n) PROVE Carried(t)'
        BY <1>2, <2>1, <2>2, AcquireCarried
    <2>3. ASSUME NEW n \in Nodes, CreateExecution(n) PROVE Carried(t)'
        BY <1>1, <2>1, <2>3, CreateCarried
    <2>4. ASSUME NEW n \in Nodes, CreateFails(n) PROVE Carried(t)'
        BY <1>1, <2>1, <2>4, CreateFailsCarried
    <2>5. ASSUME NEW n \in Nodes, Crash(n) PROVE Carried(t)'
        BY <1>1, <2>1, <2>5, CrashCarried
    <2>6. ASSUME NEW n \in Nodes, NEW e \in DOMAIN execs, TakeEvent(n, e) PROVE Carried(t)'
        BY <1>1, <1>2, <2>1, <2>6, TakeCarried
    <2>7. ASSUME NEW n \in Nodes,
                 Decide(n) \/ Deactivate(n) \/ AdvanceNextTime(n) \/ HandlingFails(n)
          PROVE  Carried(t)'
        BY <1>1, <2>1, <2>7, HandlerCarried
    <2>8. ASSUME NEW n \in Nodes, ReleaseLease(n) PROVE Carried(t)'
        BY <1>1, <2>1, <2>8, ReleaseCarried
    <2>9. ASSUME NEW n \in Nodes, FetchBatch(n) \/ Renew(n) \/ Stop(n) \/ Restart(n)
          PROVE  Carried(t)'
        <3>1. SameExecs /\ UNCHANGED <<holding, consumer>> /\ (task' = task \/ Renew(n))
            BY <2>9 DEF FetchBatch, Renew, Stop, Restart, SameExecs, nodeVars
        <3>. QED
            BY <1>1, <2>1, <3>1, OthersCarried
    <2>10. ASSUME NEW e \in DOMAIN execs, Complete(e) \/ LoseEvent(e) PROVE Carried(t)'
        <3>1. SameExecs
            BY <1>1, <2>10, EventsKeepExecs
        <3>2. UNCHANGED <<holding, consumer, task>>
            BY <2>10 DEF Complete, LoseEvent, nodeVars
        <3>. QED
            BY <1>1, <2>1, <3>1, <3>2, OthersCarried
    <2>11. CASE Tick \/ UNCHANGED vars
        <3>1. SameExecs /\ UNCHANGED <<holding, consumer, task>>
            BY <2>11 DEF Tick, vars, nodeVars, SameExecs
        <3>. QED
            BY <1>1, <2>1, <3>1, OthersCarried
    <2>. QED
        BY <2>2, <2>3, <2>4, <2>5, <2>6, <2>7, <2>8, <2>9, <2>10, <2>11
        DEF Next, Scheduling, Consuming
<1>. QED
    BY <1>1, <1>2 DEF OverlapInv

\* Initially every row is ACTIVE and nobody carries anything.
LEMMA InitOverlapInv == Init => OverlapInv
<1>. SUFFICES ASSUME Init PROVE OverlapInv
    OBVIOUS
<1>1. \A t \in Tasks : Uncarried(t)
    BY LeaseAssumption DEF Init, Idle, Uncarried, Acquirers, Running, Handlers
<1>2. \A t \in Tasks : Carried(t)
    BY <1>1 DEF Carried, Uncarried
<1>. QED
    BY <1>2, InitInv DEF OverlapInv

\* Two executions of a task are unfinished together only if an expired lease of
\* the task was once taken over, or a completion of it was handled twice.
THEOREM OverlapsAreExplained == Spec => []OverlapExplained
<1>1. OverlapInv => OverlapExplained
    <2>. SUFFICES ASSUME OverlapInv, NEW i \in DOMAIN execs, NEW j \in DOMAIN execs, i < j,
                         execs[i].task = execs[j].task,
                         execs[i].consumed = 0, execs[j].consumed = 0
                  PROVE  Explained(execs[i].task)
        BY DEF OverlapExplained, Explained
    <2>. DEFINE t == execs[i].task
    <2>1. t \in Tasks /\ i \in Int
        <3>1. execs[i] \in Exec /\ i \in Nat
            BY ElementOfSeq, LenProperties DEF OverlapInv, LeaseInv, TypeOK
        <3>. QED
            BY <3>1 DEF Exec
    <2>2. i \in Running(t) /\ j \in Running(t) /\ i # j
        BY <2>1 DEF Running
    <2>. QED
        BY <2>1, <2>2 DEF OverlapInv, Carried
<1>. QED
    BY <1>1, InitOverlapInv, NextOverlapInv, PTL DEF Spec

----------------------------------------------------------------------------
(* NextTimeMonotone, for processes whose clocks agree.  No next_time on its  *)
(* way to the table, or in it, is later than what cron says now, and what a  *)
(* consumer is about to write is not before what it would overwrite.         *)

ClocksAgree == \A m, n \in Nodes : Skew[m] = Skew[n]

NotAhead(t, next) == \A n \in Nodes : Cron[t][Now(n)] # 0 => next <= Cron[t][Now(n)]

TimesInv ==
    /\ \A t \in Tasks : NotAhead(t, task[t].nextTime)
    /\ \A n \in Nodes : consumer[n].phase # "idle" =>
           consumer[n].row.version <= task[TaskOf(n)].version
    /\ \A n \in Nodes : consumer[n].phase = "advance" =>
           /\ NotAhead(TaskOf(n), consumer[n].next)
           /\ consumer[n].row.version = task[TaskOf(n)].version =>
                  consumer[n].next >= task[TaskOf(n)].nextTime

MonotoneInv == ClocksAgree /\ LeaseInv /\ TimesInv

\* cron's answer to a later question is no earlier one.
LEMMA NotAheadStays ==
    ASSUME TypeOK, TypeOK', [Next]_vars, NEW t \in Tasks, NEW next \in Nat, NotAhead(t, next)
    PROVE  NotAhead(t, next)'
<1>. SUFFICES ASSUME NEW n \in Nodes, Cron[t][Now(n)'] # 0
              PROVE  next <= Cron[t][Now(n)']
    BY DEF NotAhead
<1>1. Now(n) \in Instants /\ Now(n) \in Nat
    BY NowType DEF TypeOK
<1>2. Now(n)' \in Instants /\ Now(n)' \in Nat /\ Now(n) <= Now(n)'
    <2>1. /\ Skew[n] \in 0..MaxSkew /\ MaxSkew \in Nat /\ MaxTime \in Nat
          /\ clock \in Nat /\ clock' \in 0..MaxTime /\ clock' >= clock
        BY ClockStep, LeaseAssumption DEF TypeOK
    <2>. QED
        BY <2>1 DEF Now, Instants
<1>3. Cron[t][Now(n)] # 0 /\ Cron[t][Now(n)] <= Cron[t][Now(n)']
    BY <1>1, <1>2, CronAssumption
<1>4. next <= Cron[t][Now(n)]
    BY <1>3 DEF NotAhead
<1>5. Cron[t][Now(n)] \in Nat /\ Cron[t][Now(n)'] \in Nat
    BY <1>1, <1>2, CronAssumption
<1>. QED
    BY <1>3, <1>4, <1>5

\* Only the advance writes next_time.
LEMMA RowNextTime ==
    ASSUME NEW row \in Row, NEW n, NEW now
    PROVE  /\ AcquiredBy(row, n).nextTime = row.nextTime
           /\ Renewed(row, n).nextTime = row.nextTime
           /\ Released(row, now).nextTime = row.nextTime
           /\ Deactivated(row, now).nextTime = row.nextTime
BY DEF Row, AcquiredBy, Renewed, Released, Deactivated, Touched

\* A next_time that changes was computed by a consumer that had read the row as
\* it still is.
LEMMA NextTimeStep ==
    ASSUME TypeOK, [Next]_vars, NEW t \in Tasks
    PROVE  \/ task'[t].nextTime = task[t].nextTime
           \/ \E n \in Nodes : /\ consumer[n].phase = "advance" /\ TaskOf(n) = t
                               /\ consumer[n].row.version = task[t].version
                               /\ task'[t].nextTime = consumer[n].next
<1>0. task[t] \in Row
    BY DEF TypeOK
<1>1. CASE task' = task
    BY <1>1
<1>2. ASSUME NEW n \in Nodes, AcquireTask(n)
      PROVE  task'[t].nextTime = task[t].nextTime
    <2>1. task'[t] = task[t] \/ task'[t] = AcquiredBy(task[t], n)
        BY <1>2 DEF AcquireTask, TypeOK
    <2>2. AcquiredBy(task[t], n).nextTime = task[t].nextTime
        BY <1>0, RowNextTime
    <2>. QED
        BY <2>1, <2>2
<1>3. ASSUME NEW n \in Nodes, CreateFails(n) \/ ReleaseLease(n)
      PROVE  task'[t].nextTime = task[t].nextTime
    <2>1. task'[t] = task[t] \/ task'[t] = Released(task[t], Now(n))
        BY <1>3 DEF CreateFails, ReleaseLease, TypeOK
    <2>2. Released(task[t], Now(n)).nextTime = task[t].nextTime
        BY <1>0, RowNextTime
    <2>. QED
        BY <2>1, <2>2
<1>4. ASSUME NEW n \in Nodes, Renew(n)
      PROVE  task'[t].nextTime = task[t].nextTime
    <2>1. task'[t] = Renewed(task[t], n)
        BY <1>4 DEF Renew
    <2>2. Renewed(task[t], n).nextTime = task[t].nextTime
        BY <1>0, RowNextTime
    <2>. QED
        BY <2>1, <2>2
<1>5. ASSUME NEW n \in Nodes, Deactivate(n)
      PROVE  task'[t].nextTime = task[t].nextTime
    <2>1. task'[t] = task[t] \/ task'[t] = Deactivated(task[t], Now(n))
        BY <1>5 DEF Deactivate, TypeOK
    <2>2. Deactivated(task[t], Now(n)).nextTime = task[t].nextTime
        BY <1>0, RowNextTime
    <2>. QED
        BY <2>1, <2>2
<1>6. ASSUME NEW n \in Nodes, AdvanceNextTime(n), task'[t] # task[t]
      PROVE  /\ consumer[n].phase = "advance" /\ TaskOf(n) = t
             /\ consumer[n].row.version = task[t].version
             /\ task'[t].nextTime = consumer[n].next
    <2>1. /\ TaskOf(n) = t /\ task'[t] = Advanced(task[t], consumer[n].next, Now(n))
          /\ consumer[n].row.version = task[t].version /\ consumer[n].phase = "advance"
        BY <1>6 DEF AdvanceNextTime, Handles, TypeOK
    <2>2. \A next, now : Advanced(task[t], next, now).nextTime = next
        BY <1>0 DEF Row, Advanced, Touched
    <2>. QED
        BY <2>1, <2>2
<1>7. \/ task' = task
      \/ \E n \in Nodes : \/ AcquireTask(n) \/ CreateFails(n) \/ Renew(n)
                          \/ Deactivate(n) \/ AdvanceNextTime(n) \/ ReleaseLease(n)
    BY DEF Next, vars, Tick, Scheduling, FetchBatch, CreateExecution, Stop, Crash, Restart,
           Consuming, TakeEvent, Decide, HandlingFails, Complete, LoseEvent
<1>. QED
    BY <1>1, <1>2, <1>3, <1>4, <1>5, <1>6, <1>7

\* An execution never changes its task.
LEMMA TaskOfStays ==
    ASSUME TypeOK, [Next]_vars, NEW n \in Nodes, consumer[n].phase # "idle",
           consumer'[n].exec = consumer[n].exec
    PROVE  TaskOf(n)' = TaskOf(n)
<1>1. consumer[n].exec \in DOMAIN execs
    BY DEF TypeOK
<1>2. \A k \in DOMAIN execs : execs'[k].task = execs[k].task
    <2>1. CASE SameExecs
        BY <2>1 DEF SameExecs
    <2>2. ASSUME NEW m \in Nodes, CreateExecution(m)
          PROVE  \A k \in DOMAIN execs : execs'[k] = execs[k]
        BY <2>2, CreateExecs
    <2>3. ASSUME NEW m \in Nodes, NEW e \in DOMAIN execs, TakeEvent(m, e)
          PROVE  \A k \in DOMAIN execs : execs'[k].task = execs[k].task
        BY <2>3, TakeExecs
    <2>. QED
        BY <2>1, <2>2, <2>3, ExecsStep
<1>. QED
    BY <1>1, <1>2 DEF TaskOf

\* What a consumer knows of a row it has just read or keeps from before; what it
\* means to write it has just computed or keeps from before.
LEMMA ConsumerStep ==
    ASSUME TypeOK, [Next]_vars, NEW n \in Nodes, consumer'[n].phase # "idle"
    PROVE  \/ /\ consumer[n].phase # "idle" /\ TaskOf(n)' = TaskOf(n)
              /\ consumer'[n].row = consumer[n].row
              /\ consumer'[n].phase = "advance" => consumer'[n] = consumer[n]
           \/ /\ consumer'[n].phase = "loaded" /\ task' = task
              /\ consumer'[n].row.version = task[TaskOf(n)'].version
           \/ /\ consumer[n].phase # "idle" /\ TaskOf(n)' = TaskOf(n)
              /\ consumer'[n].row = consumer[n].row /\ task' = task /\ clock' = clock
              /\ consumer'[n].next = Cron[TaskOf(n)][Now(n)] /\ consumer'[n].next # 0
<1>0. consumer[n] \in Handling
    BY DEF TypeOK
<1>1. CASE consumer'[n] = consumer[n]
    BY <1>1, TaskOfStays
<1>2. ASSUME NEW e \in DOMAIN execs, TakeEvent(n, e)
      PROVE  /\ consumer'[n].phase = "loaded" /\ task' = task
             /\ consumer'[n].row.version = task[TaskOf(n)'].version
    <2>1. /\ consumer'[n] = [phase |-> "loaded", exec |-> e,
                             row |-> ReadOf(task[execs[e].task]), next |-> 0]
          /\ task' = task
        BY <1>2 DEF TakeEvent, TypeOK
    <2>2. TaskOf(n)' = execs[e].task
        BY <1>2, <2>1, TakeExecs DEF TaskOf
    <2>. QED
        BY <2>1, <2>2 DEF ReadOf
<1>3. CASE Decide(n) /\ consumer'[n] # consumer[n]
    <2>. DEFINE c == consumer[n]
                next == NextTime(TaskOf(n), c.row, Now(n))
    <2>1. c.phase = "loaded" /\ task' = task /\ clock' = clock
        BY <1>3 DEF Decide, Handles
    <2>2. \/ consumer'[n] = [c EXCEPT !.phase = "deactivate"]
          \/ consumer'[n] = [c EXCEPT !.phase = "advance", !.next = next] /\ next # 0
          \/ consumer'[n] = [c EXCEPT !.phase = "release"]
        <3>1. Idle.phase = "idle"
            BY DEF Idle
        <3>. HIDE DEF next
        <3>2. \/ consumer' = To(n, "deactivate") \/ consumer' = To(n, "release")
              \/ consumer' = [consumer EXCEPT ![n].phase = "advance", ![n].next = next] /\ next # 0
              \/ consumer' = Done(n)
            BY <1>3 DEF Decide, next
        <3>. QED
            BY <3>1, <3>2 DEF To, Done, TypeOK
    <2>3. /\ consumer'[n].row = c.row /\ consumer'[n].exec = c.exec
          /\ consumer'[n].phase = "advance" => consumer'[n].next = next /\ next # 0
        <3>. HIDE DEF next
        <3>1. ASSUME NEW ph, consumer'[n] = [c EXCEPT !.phase = ph]
              PROVE  /\ consumer'[n].row = c.row /\ consumer'[n].exec = c.exec
                     /\ consumer'[n].phase = ph
            BY <1>0, <3>1 DEF Handling
        <3>2. ASSUME consumer'[n] = [c EXCEPT !.phase = "advance", !.next = next]
              PROVE  /\ consumer'[n].row = c.row /\ consumer'[n].exec = c.exec
                     /\ consumer'[n].next = next
            BY <1>0, <3>2 DEF Handling
        <3>. QED
            BY <2>2, <3>1, <3>2
    <2>4. TaskOf(n)' = TaskOf(n)
        BY <2>1, <2>3, TaskOfStays
    <2>5. next # 0 => next = Cron[TaskOf(n)][Now(n)]
        BY DEF NextTime
    <2>. QED
        BY <2>1, <2>3, <2>4, <2>5
<1>4. CASE AdvanceNextTime(n) /\ consumer'[n] # consumer[n]
    <2>1. consumer[n].phase = "advance" /\ consumer'[n] = [consumer[n] EXCEPT !.phase = "release"]
        <3>1. Idle.phase = "idle"
            BY DEF Idle
        <3>2. consumer[n].phase = "advance" /\ (consumer' = To(n, "release") \/ consumer' = Done(n))
            BY <1>4 DEF AdvanceNextTime, Handles
        <3>. QED
            BY <3>1, <3>2 DEF To, Done, TypeOK
    <2>2. /\ consumer'[n].row = consumer[n].row /\ consumer'[n].exec = consumer[n].exec
          /\ consumer'[n].phase = "release"
        BY <1>0, <2>1 DEF Handling
    <2>. QED
        BY <2>1, <2>2, TaskOfStays
<1>5. ASSUME NEW m \in Nodes, m # n,
             \/ Crash(m) \/ Decide(m) \/ AdvanceNextTime(m) \/ Deactivate(m)
             \/ ReleaseLease(m) \/ HandlingFails(m) \/ \E e \in DOMAIN execs : TakeEvent(m, e)
      PROVE  consumer'[n] = consumer[n]
    BY <1>5 DEF Crash, Decide, AdvanceNextTime, Deactivate, ReleaseLease, HandlingFails,
                TakeEvent, To, Done, TypeOK
<1>6. CASE Crash(n) \/ Deactivate(n) \/ ReleaseLease(n) \/ HandlingFails(n)
    BY <1>6 DEF Crash, Deactivate, ReleaseLease, HandlingFails, Done, Idle, TypeOK
<1>7. \/ consumer' = consumer
      \/ \E m \in Nodes : \/ Crash(m) \/ Decide(m) \/ AdvanceNextTime(m) \/ Deactivate(m)
                          \/ ReleaseLease(m) \/ HandlingFails(m)
                          \/ \E e \in DOMAIN execs : TakeEvent(m, e)
    BY DEF Next, vars, nodeVars, Tick, Scheduling, FetchBatch, AcquireTask, CreateExecution,
           CreateFails, Renew, Stop, Restart, Consuming, Complete, LoseEvent
<1>. QED
    BY <1>1, <1>2, <1>3, <1>4, <1>5, <1>6, <1>7

\* What the table and the consumers know of next_time stays true.
LEMMA NextMonotoneInv == MonotoneInv /\ [Next]_vars => MonotoneInv'
<1>. SUFFICES ASSUME MonotoneInv, [Next]_vars PROVE MonotoneInv'
    OBVIOUS
<1>1. /\ TypeOK /\ TypeOK' /\ SnapshotSound /\ ClocksAgree /\ TimesInv /\ LeaseInv'
    BY NextInv DEF MonotoneInv, LeaseInv
<1>2. \A t \in Tasks : /\ task[t].version \in Nat /\ task[t].nextTime \in Nat
                       /\ task'[t] = task[t] \/ task'[t].version = task[t].version + 1
    BY <1>1, EveryRowStep, VersionCounts DEF TypeOK, Row
<1>3. \A n \in Nodes : /\ consumer[n].row.version \in Nat /\ consumer[n].next \in Nat
                       /\ consumer[n].phase # "idle" => TaskOf(n) \in Tasks
    BY <1>1, HandledExec DEF TypeOK, Handling, Read
<1>4. ASSUME NEW t \in Tasks, NEW x \in Nat, x = task'[t].nextTime
      PROVE  NotAhead(t, x)'
    <2>1. CASE task'[t].nextTime = task[t].nextTime
        BY <1>1, <1>4, <2>1, NotAheadStays DEF TimesInv
    <2>2. ASSUME NEW n \in Nodes, consumer[n].phase = "advance", TaskOf(n) = t,
                 task'[t].nextTime = consumer[n].next
          PROVE  NotAhead(t, x)'
        BY <1>1, <1>4, <2>2, NotAheadStays DEF TimesInv
    <2>. QED
        BY <1>1, <2>1, <2>2, NextTimeStep
<1>5. ASSUME NEW n \in Nodes, consumer'[n].phase # "idle"
      PROVE  /\ consumer'[n].row.version <= task'[TaskOf(n)'].version
             /\ consumer'[n].phase = "advance" =>
                    /\ NotAhead(TaskOf(n), consumer[n].next)'
                    /\ consumer'[n].row.version = task'[TaskOf(n)'].version =>
                           consumer'[n].next >= task'[TaskOf(n)'].nextTime
    <2>0. TaskOf(n)' \in Tasks
        <3>1. consumer'[n].exec \in DOMAIN execs'
            BY <1>1, <1>5 DEF TypeOK
        <3>2. execs'[consumer'[n].exec] \in Exec
            BY <1>1, <3>1, ElementOfSeq DEF TypeOK
        <3>. QED
            BY <3>2 DEF TaskOf, Exec
    <2>1. CASE /\ consumer[n].phase # "idle" /\ TaskOf(n)' = TaskOf(n)
               /\ consumer'[n].row = consumer[n].row
               /\ consumer'[n].phase = "advance" => consumer'[n] = consumer[n]
        <3>. DEFINE t == TaskOf(n)
        <3>1. t \in Tasks /\ consumer[n].row.version <= task[t].version
            BY <1>1, <1>3, <2>1 DEF TimesInv
        <3>. HIDE DEF t
        <3>2. /\ consumer[n].row.version <= task'[t].version
              /\ consumer[n].row.version = task'[t].version => task'[t] = task[t]
            BY <1>2, <1>3, <3>1
        <3>3. ASSUME consumer'[n].phase = "advance"
              PROVE  /\ NotAhead(TaskOf(n), consumer[n].next)'
                     /\ consumer[n].row.version = task'[t].version =>
                            consumer[n].next >= task'[t].nextTime
            <4>1. /\ consumer'[n] = consumer[n] /\ NotAhead(t, consumer[n].next)
                  /\ consumer[n].row.version = task[t].version =>
                         consumer[n].next >= task[t].nextTime
                BY <1>1, <2>1, <3>3 DEF TimesInv, t
            <4>2. PICK x \in Nat : x = consumer[n].next
                BY <1>3
            <4>3. PICK u \in Tasks : u = t
                BY <3>1
            <4>4. NotAhead(u, x)'
                BY <1>1, <4>1, <4>2, <4>3, NotAheadStays
            <4>5. TaskOf(n)' = u /\ consumer'[n].next = x
                BY <2>1, <4>1, <4>2, <4>3 DEF t
            <4>. QED
                BY <3>2, <4>1, <4>4, <4>5 DEF NotAhead
        <3>. QED
            BY <2>1, <3>2, <3>3 DEF t
    <2>2. CASE /\ consumer'[n].phase = "loaded" /\ task' = task
               /\ consumer'[n].row.version = task[TaskOf(n)'].version
        BY <1>2, <2>0, <2>2
    <2>3. CASE /\ consumer[n].phase # "idle" /\ TaskOf(n)' = TaskOf(n)
               /\ consumer'[n].row = consumer[n].row /\ task' = task /\ clock' = clock
               /\ consumer'[n].next = Cron[TaskOf(n)][Now(n)] /\ consumer'[n].next # 0
        <3>. DEFINE t == TaskOf(n)
        <3>1. /\ t \in Tasks /\ consumer[n].row.version <= task[t].version
              /\ NotAhead(t, task[t].nextTime)
            BY <1>1, <1>3, <2>3 DEF TimesInv
        <3>2. task[t].nextTime <= consumer'[n].next
            BY <2>3, <3>1 DEF NotAhead
        <3>3. \A m \in Nodes : Now(m)' = Now(n)
            BY <1>1, <2>3 DEF ClocksAgree, Now
        <3>4. Cron[t][Now(n)] \in Nat
            BY <1>1, <3>1, NowType, CronAssumption DEF TypeOK
        <3>5. NotAhead(TaskOf(n), consumer[n].next)'
            BY <2>3, <3>3, <3>4 DEF NotAhead
        <3>6. consumer'[n].next >= task[t].nextTime
            BY <1>2, <2>3, <3>1, <3>2, <3>4
        <3>. QED
            BY <2>3, <3>1, <3>5, <3>6
    <2>. QED
        BY <1>1, <1>5, <2>1, <2>2, <2>3, ConsumerStep
<1>6. TimesInv'
    <2>1. \A t \in Tasks : NotAhead(t, task[t].nextTime)'
        <3>. SUFFICES ASSUME NEW t \in Tasks PROVE NotAhead(t, task[t].nextTime)'
            OBVIOUS
        <3>1. PICK x \in Nat : x = task'[t].nextTime
            BY <1>1 DEF TypeOK, Row
        <3>2. NotAhead(t, x)'
            BY <1>4, <3>1
        <3>. QED
            BY <3>1, <3>2 DEF NotAhead
    <2>2. \A n \in Nodes : consumer'[n].phase = "advance" => consumer'[n].phase # "idle"
        OBVIOUS
    <2>. QED
        BY <1>5, <2>1, <2>2 DEF TimesInv
<1>7. ClocksAgree'
    BY <1>1 DEF ClocksAgree
<1>. QED
    BY <1>1, <1>6, <1>7 DEF MonotoneInv

\* The first next_time is what cron says at instant 0.
LEMMA InitMonotoneInv == ClocksAgree /\ Init => MonotoneInv
<1>. SUFFICES ASSUME ClocksAgree, Init PROVE MonotoneInv
    OBVIOUS
<1>1. LeaseInv
    BY InitInv
<1>2. ASSUME NEW t \in Tasks, NEW n \in Nodes, Cron[t][Now(n)] # 0
      PROVE  task[t].nextTime <= Cron[t][Now(n)]
    <2>1. Now(n) \in Instants /\ Now(n) \in Nat
        BY <1>1, NowType DEF LeaseInv, TypeOK
    <2>2. 0 \in Instants /\ 0 <= Now(n)
        BY <2>1, LeaseAssumption DEF Instants
    <2>3. Cron[t][0] <= Cron[t][Now(n)]
        BY <1>2, <2>1, <2>2, CronAssumption
    <2>. QED
        BY <2>3 DEF Init
<1>3. \A n \in Nodes : consumer[n].phase = "idle"
    BY DEF Init, Idle
<1>. QED
    BY <1>1, <1>2, <1>3 DEF MonotoneInv, TimesInv, NotAhead

\* If the clocks of the processes agree, next_time of a task never moves back,
\* however old the row was from which a consumer computed it.
THEOREM NextTimeDoesNotGoBack == ClocksAgree /\ Spec => NextTimeMonotone
<1>. DEFINE Forward == \A t \in Tasks : task'[t].nextTime >= task[t].nextTime
<1>1. MonotoneInv /\ [Next]_vars => [Forward]_vars
    <2>. SUFFICES ASSUME MonotoneInv, [Next]_vars, NEW t \in Tasks
                  PROVE  task'[t].nextTime >= task[t].nextTime
        OBVIOUS
    <2>1. TypeOK /\ TimesInv /\ task[t].nextTime \in Nat
        BY DEF MonotoneInv, LeaseInv, TypeOK, Row
    <2>. QED
        BY <2>1, NextTimeStep DEF TimesInv
<1>. QED
    BY <1>1, InitMonotoneInv, NextMonotoneInv, PTL DEF Spec, NextTimeMonotone

----------------------------------------------------------------------------
(* ImplementsLease.  A step touches at most one row, unless it is a renewal; *)
(* what it does to that row is one of the cases of RowStep, and each case is  *)
(* an abstract action on the lease the row stands for.                        *)

\* Only a renewal writes more than one row, and no step that writes a row is a
\* tick of the clock.
LEMMA TableStep ==
    ASSUME TypeOK, SnapshotSound, [Next]_vars
    PROVE  \/ task' = task /\ (clock' = clock \/ clock' = clock + 1)
           \/ clock' = clock /\ \E n \in Nodes : Renew(n)
           \/ clock' = clock /\ \E t \in Tasks : task' = [task EXCEPT ![t] = task'[t]]
<1>. DEFINE OneRow == \E t \in Tasks : task' = [task EXCEPT ![t] = task'[t]]
<1>1. ASSUME NEW t \in Tasks, NEW r, task' = [task EXCEPT ![t] = r]
      PROVE  OneRow
    BY <1>1 DEF TypeOK
<1>2. ASSUME NEW n \in Nodes, AcquireTask(n) PROVE clock' = clock /\ (task' = task \/ OneRow)
    <2>1. Head(batch[n]).id \in Tasks
        <3>1. Head(batch[n]) \in Snapshot
            BY <1>2, HeadTailProperties DEF TypeOK, AcquireTask
        <3>. QED
            BY <3>1 DEF Snapshot
    <2>. HIDE DEF OneRow
    <2>. QED
        BY <1>1, <1>2, <2>1 DEF AcquireTask
<1>3. ASSUME NEW n \in Nodes, CreateFails(n) PROVE clock' = clock /\ (task' = task \/ OneRow)
    <2>1. holding[n] \in Tasks
        BY <1>3 DEF CreateFails, TypeOK
    <2>. HIDE DEF OneRow
    <2>. QED
        BY <1>1, <1>3, <2>1 DEF CreateFails
<1>4. ASSUME NEW n \in Nodes, Deactivate(n) \/ AdvanceNextTime(n) \/ ReleaseLease(n)
      PROVE  clock' = clock /\ (task' = task \/ OneRow)
    <2>1. TaskOf(n) \in Tasks
        BY <1>4, HandledExec DEF Deactivate, AdvanceNextTime, ReleaseLease, Handles
    <2>. HIDE DEF OneRow
    <2>. QED
        BY <1>1, <1>4, <2>1 DEF Deactivate, AdvanceNextTime, ReleaseLease
<1>5. ASSUME NEW n \in Nodes, Renew(n) PROVE clock' = clock
    BY <1>5 DEF Renew
<1>6. \/ task' = task /\ (clock' = clock \/ clock' = clock + 1)
      \/ \E n \in Nodes : \/ AcquireTask(n) \/ CreateFails(n) \/ Renew(n)
                          \/ Deactivate(n) \/ AdvanceNextTime(n) \/ ReleaseLease(n)
    BY DEF Next, vars, Tick, Scheduling, FetchBatch, CreateExecution, Stop, Crash, Restart,
           Consuming, TakeEvent, Decide, HandlingFails, Complete, LoseEvent
<1>. HIDE DEF OneRow
<1>7. (task' = task /\ (clock' = clock \/ clock' = clock + 1))
      \/ (clock' = clock /\ \E n \in Nodes : Renew(n)) \/ (clock' = clock /\ OneRow)
      \/ (clock' = clock /\ task' = task)
    BY <1>2, <1>3, <1>4, <1>5, <1>6
<1>. QED
    BY <1>7 DEF OneRow

\* Every node's clock shows one of the abstract readings.
LEMMA ReadingType ==
    ASSUME TypeOK, NEW n \in Nodes
    PROVE  Now(n) \in L!Readings /\ Now(n) \in Nat
<1>1. Skew[n] \in 0..MaxSkew /\ clock \in Nat /\ MaxSkew \in Nat
    BY LeaseAssumption DEF TypeOK
<1>. QED
    BY <1>1 DEF Now, L!Readings

----------------------------------------------------------------------------
(* The abstract variables, after a write of the row of t. *)

Holders == [t \in Tasks |-> HolderOf(task[t])]
Stamps == [t \in Tasks |-> task[t].utime]
Dues == [t \in Tasks |-> task[t].nextTime]
Inactives == {t \in Tasks : task[t].status = INACTIVE}

\* The fields of a row, as each statement leaves them.
LEMMA FieldsOf ==
    ASSUME NEW r \in Row, NEW now, NEW next
    PROVE  /\ Touched(r, now).utime = now /\ Touched(r, now).status = r.status
           /\ Touched(r, now).node = r.node /\ Touched(r, now).nextTime = r.nextTime
           /\ Released(r, now).utime = now /\ Released(r, now).status = ACTIVE
           /\ Released(r, now).nextTime = r.nextTime
           /\ Advanced(r, next, now).utime = now /\ Advanced(r, next, now).status = r.status
           /\ Advanced(r, next, now).node = r.node
           /\ Advanced(r, next, now).nextTime = next
           /\ Deactivated(r, now).utime = now /\ Deactivated(r, now).status = INACTIVE
           /\ Deactivated(r, now).nextTime = r.nextTime
BY DEF Row, AcquiredBy, Touched, Released, Advanced, Deactivated

\* A write of one row changes what it stands for and nothing else.
LEMMA OneLease ==
    ASSUME TypeOK, NEW t \in Tasks, task' = [task EXCEPT ![t] = task'[t]]
    PROVE  /\ Holders' = [Holders EXCEPT ![t] = HolderOf(task'[t])]
           /\ Stamps' = [Stamps EXCEPT ![t] = task'[t].utime]
           /\ Dues' = [Dues EXCEPT ![t] = task'[t].nextTime]
           /\ Inactives' = IF task'[t].status = INACTIVE THEN Inactives \cup {t}
                           ELSE Inactives \ {t}
<1>1. task'[t] = task'[t] /\ \A u \in Tasks : u # t => task'[u] = task[u]
    BY DEF TypeOK
<1>2. Holders' = [Holders EXCEPT ![t] = HolderOf(task'[t])]
    BY <1>1 DEF Holders, HolderOf
<1>3. Stamps' = [Stamps EXCEPT ![t] = task'[t].utime]
    BY <1>1 DEF Stamps
<1>4. Dues' = [Dues EXCEPT ![t] = task'[t].nextTime]
    BY <1>1 DEF Dues
<1>5. Inactives' = IF task'[t].status = INACTIVE THEN Inactives \cup {t} ELSE Inactives \ {t}
    BY <1>1 DEF Inactives
<1>. QED
    BY <1>2, <1>3, <1>4, <1>5

----------------------------------------------------------------------------
(* One lemma for each kind of step. *)

Writes(t) == clock' = clock /\ task' = [task EXCEPT ![t] = task'[t]]

\* An acquisition is a grant: the row was due and free, or due and silent.
LEMMA GrantStep ==
    ASSUME LeaseInv, NEW t \in Tasks, Writes(t), NEW n \in Nodes,
           Schedulable(task[t], Now(n)), task'[t] = AcquiredBy(task[t], n)
    PROVE  L!Grant(n, t)
<1>1. task[t] \in Row /\ TypeOK
    BY DEF LeaseInv, TypeOK
<1>2. /\ task'[t].utime = Now(n) /\ task'[t].status = PREEMPTED /\ task'[t].node = n
      /\ task'[t].nextTime = task[t].nextTime
    BY <1>1 DEF AcquiredBy, Touched, Row
<1>3. Now(n) \in L!Readings /\ Now(n) \in Nat
    BY <1>1, ReadingType
<1>4. /\ task[t].nextTime <= Now(n) /\ task[t].status # INACTIVE
      /\ task[t].status = ACTIVE \/ task[t].utime + PreemptedTimeout <= Now(n)
    <2>1. task[t].utime \in Nat /\ PreemptedTimeout \in Nat
        BY <1>1, LeaseAssumption DEF Row
    <2>. QED
        BY <1>3, <2>1 DEF Schedulable, Expired, ACTIVE, PREEMPTED, INACTIVE
<1>5. task[t].status = ACTIVE => Holders[t] = NoNode
    BY DEF Holders, HolderOf, ACTIVE, PREEMPTED
<1>6. L!Touch(t)
    BY <1>1, <1>2, <1>3, OneLease DEF Writes, L!Touch, Stamps
<1>7. /\ Holders' = [Holders EXCEPT ![t] = n]
      /\ Dues' = Dues /\ Inactives' = Inactives
    <2>1. HolderOf(task'[t]) = n
        BY <1>2 DEF HolderOf
    <2>2. [Dues EXCEPT ![t] = task[t].nextTime] = Dues
        BY DEF Dues
    <2>3. PREEMPTED # INACTIVE /\ Inactives \ {t} = Inactives
        BY <1>4 DEF Inactives, PREEMPTED, INACTIVE
    <2>4. /\ Holders' = [Holders EXCEPT ![t] = HolderOf(task'[t])]
          /\ Dues' = [Dues EXCEPT ![t] = task'[t].nextTime]
          /\ Inactives' = IF task'[t].status = INACTIVE THEN Inactives \cup {t}
                          ELSE Inactives \ {t}
        BY <1>1, OneLease DEF Writes
    <2>. QED
        BY <1>2, <2>1, <2>2, <2>3, <2>4
<1>. QED
    BY <1>3, <1>4, <1>5, <1>6, <1>7
    DEF L!Grant, L!Silent, Holders, Stamps, Dues, Inactives, Writes

\* Both releases give the lease back.
LEMMA GiveBackStep ==
    ASSUME LeaseInv, NEW t \in Tasks, Writes(t), NEW n \in Nodes,
           task[t].status = PREEMPTED, task'[t] = Released(task[t], Now(n))
    PROVE  L!GiveBack(t)
<1>1. task[t] \in Row /\ TypeOK
    BY DEF LeaseInv, TypeOK
<1>2. /\ task'[t].utime = Now(n) /\ task'[t].status = ACTIVE
      /\ task'[t].nextTime = task[t].nextTime
    BY <1>1, FieldsOf
<1>3. Holders[t] # NoNode
    BY LeaseAssumption DEF LeaseInv, LeaseHasOwner, Holders, HolderOf
<1>4. L!Touch(t)
    BY <1>1, <1>2, ReadingType, OneLease DEF Writes, L!Touch, Stamps
<1>5. /\ Holders' = [Holders EXCEPT ![t] = NoNode]
      /\ Dues' = Dues /\ Inactives' = Inactives
    <2>1. HolderOf(task'[t]) = NoNode
        BY <1>2 DEF HolderOf, ACTIVE, PREEMPTED
    <2>2. [Dues EXCEPT ![t] = task[t].nextTime] = Dues
        BY DEF Dues
    <2>3. ACTIVE # INACTIVE /\ Inactives \ {t} = Inactives
        BY DEF Inactives, ACTIVE, PREEMPTED, INACTIVE
    <2>4. /\ Holders' = [Holders EXCEPT ![t] = HolderOf(task'[t])]
          /\ Dues' = [Dues EXCEPT ![t] = task'[t].nextTime]
          /\ Inactives' = IF task'[t].status = INACTIVE THEN Inactives \cup {t}
                          ELSE Inactives \ {t}
        BY <1>1, OneLease DEF Writes
    <2>. QED
        BY <1>2, <2>1, <2>2, <2>3, <2>4
<1>. QED
    BY <1>3, <1>4, <1>5 DEF L!GiveBack, Holders, Dues, Inactives, Writes

\* UpdateNextTime moves the due date and leaves the holder alone.
LEMMA MoveDueStep ==
    ASSUME LeaseInv, NEW t \in Tasks, Writes(t), NEW n \in Nodes, NEW next \in Nat,
           task'[t] = Advanced(task[t], next, Now(n))
    PROVE  L!MoveDue(t)
<1>1. task[t] \in Row /\ TypeOK
    BY DEF LeaseInv, TypeOK
<1>2. /\ task'[t].utime = Now(n) /\ task'[t].status = task[t].status
      /\ task'[t].node = task[t].node /\ task'[t].nextTime = next
    BY <1>1, FieldsOf
<1>3. L!Touch(t)
    BY <1>1, <1>2, ReadingType, OneLease DEF Writes, L!Touch, Stamps
<1>4. /\ Holders' = Holders /\ Inactives' = Inactives
      /\ Dues' = [Dues EXCEPT ![t] = Dues'[t]] /\ Dues'[t] = next
    <2>1. [Holders EXCEPT ![t] = HolderOf(task'[t])] = Holders
        BY <1>2 DEF HolderOf, Holders
    <2>2. IF task[t].status = INACTIVE THEN Inactives \cup {t} = Inactives
                                       ELSE Inactives \ {t} = Inactives
        BY DEF Inactives
    <2>3. Dues'[t] = next
        BY <1>2 DEF Dues
    <2>4. /\ Holders' = [Holders EXCEPT ![t] = HolderOf(task'[t])]
          /\ Dues' = [Dues EXCEPT ![t] = task'[t].nextTime]
          /\ Inactives' = IF task'[t].status = INACTIVE THEN Inactives \cup {t}
                          ELSE Inactives \ {t}
        BY <1>1, OneLease DEF Writes
    <2>. QED
        BY <1>2, <2>1, <2>2, <2>3, <2>4
<1>. QED
    BY <1>3, <1>4 DEF L!MoveDue, Holders, Dues, Inactives, Writes

\* UpdateStatus retires the task, leased or not.
LEMMA RetireStep ==
    ASSUME LeaseInv, NEW t \in Tasks, Writes(t), NEW n \in Nodes,
           task'[t] = Deactivated(task[t], Now(n))
    PROVE  L!Retire(t)
<1>1. task[t] \in Row /\ TypeOK
    BY DEF LeaseInv, TypeOK
<1>2. /\ task'[t].utime = Now(n) /\ task'[t].status = INACTIVE
      /\ task'[t].nextTime = task[t].nextTime
    BY <1>1, FieldsOf
<1>3. L!Touch(t)
    BY <1>1, <1>2, ReadingType, OneLease DEF Writes, L!Touch, Stamps
<1>4. /\ Holders' = [Holders EXCEPT ![t] = NoNode]
      /\ Dues' = Dues /\ Inactives' = Inactives \cup {t}
    <2>1. HolderOf(task'[t]) = NoNode
        BY <1>2 DEF HolderOf, INACTIVE, PREEMPTED
    <2>2. [Dues EXCEPT ![t] = task[t].nextTime] = Dues
        BY DEF Dues
    <2>. QED
        BY <1>1, <1>2, <2>1, <2>2, OneLease DEF Writes
<1>. QED
    BY <1>3, <1>4 DEF L!Retire, Holders, Dues, Inactives, Writes

\* A renewal stamps the rows the node holds, and only those.
LEMMA RenewStep ==
    ASSUME LeaseInv, NEW n \in Nodes, Renew(n)
    PROVE  L!RenewAll(n)
<1>1. \A t \in Tasks : task[t] \in Row
    BY DEF LeaseInv, TypeOK
<1>2. clock' = clock /\ task' = [t \in Tasks |-> Renewed(task[t], n)]
    BY DEF Renew
<1>3. n # NoNode /\ Now(n) \in L!Readings
    BY LeaseAssumption, ReadingType DEF LeaseInv
<1>4. ASSUME NEW t \in Tasks
      PROVE  /\ HolderOf(task'[t]) = HolderOf(task[t])
             /\ task'[t].nextTime = task[t].nextTime
             /\ task'[t].status = task[t].status
             /\ task'[t].utime = IF HolderOf(task[t]) = n THEN Now(n) ELSE task[t].utime
    <2>1. task'[t] = Renewed(task[t], n) /\ task[t] \in Row
        BY <1>1, <1>2
    <2>2. HolderOf(task[t]) = n <=> Leased(task[t], n)
        BY <1>3 DEF HolderOf, Leased
    <2>. QED
        BY <2>1, <2>2, FieldsOf DEF Renewed, HolderOf
<1>5. Holders' = Holders /\ Dues' = Dues /\ Inactives' = Inactives
    BY <1>4 DEF Holders, Dues, Inactives
<1>6. Stamps' = [t \in Tasks |-> IF Holders[t] = n THEN Now(n) ELSE Stamps[t]]
    BY <1>4 DEF Holders, Stamps
<1>. QED
    BY <1>2, <1>3, <1>5, <1>6 DEF L!RenewAll, Holders, Stamps, Dues, Inactives

----------------------------------------------------------------------------
\* The initial table is an initial lease table.
LEMMA InitRefines == Init => L!LeaseInit
<1>. SUFFICES ASSUME Init PROVE L!LeaseInit
    OBVIOUS
<1>1. \A t \in Tasks : /\ task[t].status = ACTIVE /\ task[t].utime = 0
                       /\ task[t].nextTime = Cron[t][0]
    BY DEF Init
<1>2. \A t \in Tasks : Cron[t][0] \in Nat
    BY CronAssumption, LeaseAssumption DEF Instants
<1>3. Dues \in [Tasks -> Nat]
    BY <1>1, <1>2 DEF Dues
<1>4. Holders = [t \in Tasks |-> NoNode] /\ Stamps = [t \in Tasks |-> 0] /\ Inactives = {}
    BY <1>1 DEF Holders, HolderOf, Stamps, Inactives, ACTIVE, PREEMPTED, INACTIVE
<1>. QED
    BY <1>3, <1>4 DEF L!LeaseInit, Init, Holders, Stamps, Dues, Inactives

\* Every step is a step of the abstract lease, or invisible to it.
LEMMA StepRefines == LeaseInv /\ [Next]_vars => [L!LeaseNext]_(L!leaseVars)
<1>. SUFFICES ASSUME LeaseInv, [Next]_vars PROVE [L!LeaseNext]_(L!leaseVars)
    OBVIOUS
<1>1. CASE task' = task /\ clock' = clock
    BY <1>1 DEF L!leaseVars, HolderOf
<1>2. CASE task' = task /\ clock' = clock + 1
    BY <1>2 DEF L!LeaseNext, L!Tock, HolderOf
<1>3. ASSUME NEW n \in Nodes, Renew(n) PROVE L!LeaseNext
    BY <1>3, RenewStep DEF L!LeaseNext
<1>4. ASSUME NEW t \in Tasks, Writes(t) PROVE [L!LeaseNext]_(L!leaseVars)
    <2>1. RowStep(t)
        BY EveryRowStep DEF LeaseInv
    <2>2. CASE task'[t] = task[t]
        <3>1. task' = task /\ clock' = clock
            BY <1>4, <2>2 DEF Writes, LeaseInv, TypeOK
        <3>. QED
            BY <1>1, <3>1
    <2>3. ASSUME NEW n \in Nodes, Schedulable(task[t], Now(n)), task'[t] = AcquiredBy(task[t], n)
          PROVE  L!LeaseNext
        BY <1>4, <2>3, GrantStep DEF L!LeaseNext
    <2>4. ASSUME NEW n \in Nodes, Leased(task[t], n), task'[t] = Touched(task[t], Now(n))
          PROVE  L!LeaseNext
        <3>1. task[t] \in Row /\ task[t].nextTime \in Nat
            BY DEF LeaseInv, TypeOK, Row
        <3>2. task'[t] = Advanced(task[t], task[t].nextTime, Now(n))
            BY <2>4, <3>1 DEF Advanced, Touched, Row
        <3>. QED
            BY <1>4, <3>1, <3>2, MoveDueStep DEF L!LeaseNext
    <2>5. ASSUME NEW n \in Nodes, task[t].status = PREEMPTED, task'[t] = Released(task[t], Now(n))
          PROVE  L!LeaseNext
        BY <1>4, <2>5, GiveBackStep DEF L!LeaseNext
    <2>6. ASSUME NEW n \in Nodes, NEW next \in Nat, task'[t] = Advanced(task[t], next, Now(n))
          PROVE  L!LeaseNext
        BY <1>4, <2>6, MoveDueStep DEF L!LeaseNext
    <2>7. ASSUME NEW n \in Nodes, task'[t] = Deactivated(task[t], Now(n))
          PROVE  L!LeaseNext
        BY <1>4, <2>7, RetireStep DEF L!LeaseNext
    <2>. QED
        BY <2>1, <2>2, <2>3, <2>4, <2>5, <2>6, <2>7 DEF RowStep
<1>. QED
    BY <1>1, <1>2, <1>3, <1>4, TableStep DEF LeaseInv, Writes

\* The protocol of fetches, conditional and unconditional writes implements the
\* abstract lease, over any nodes, tasks, clock skews, crashes and lost events.
THEOREM LeaseRefinement == Spec => ImplementsLease
<1>. QED
    BY InitRefines, StepRefines, LeaseInvariant, PTL DEF Spec, ImplementsLease, L!LeaseSpec
=============================================================================
