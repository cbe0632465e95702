--------------------------- MODULE DispatchProofs ---------------------------
(***************************************************************************)
(* Proofs about Dispatch, for every set of executors, every number of      *)
(* concurrent calls, and every bound on retries and losses.                *)
(***************************************************************************)
EXTENDS Dispatch, TLAPS

----------------------------------------------------------------------------
(* The inductive invariant. *)

\* A call that a node has served names it; the node has a state to answer with
\* until it dies, and an answer is such a state.
CallsAreServed ==
    \A i \in Slots :
        /\ calls[i].phase \in {"serving", "answered"} => calls[i].node \in Nodes
        /\ calls[i].phase = "serving" => states[calls[i].node] # NONE
        /\ calls[i].phase = "answered" => calls[i].answer # NONE

\* A run that has ended has left its state.
EndsAreKept ==
    \A n \in Nodes : run[n] = "ended" => states[n] \notin {NONE, RUNNING}

\* Before the first call is served there is one Execute at most, and no trace of
\* the execution on any node.
NotServedYet ==
    /\ row.status \in {NONE, PREPARE} /\ row.node = NoNode /\ events = {}
    /\ \A n \in Nodes : states[n] = NONE
    /\ \A i \in Slots : calls[i].phase # "idle" =>
           /\ row.status = PREPARE
           /\ calls[i].phase = "sent" /\ calls[i].kind = "execute"
           /\ \A j \in Slots : calls[j].phase # "idle" => j = i

\* From then on everything is about one node: its state, the calls it serves,
\* the record, and where an Execute that is sent is bound to go.
AtHome(h) ==
    /\ row.status # NONE /\ row.node \in {NoNode, h}
    /\ \A n \in Nodes : states[n] # NONE => n = h
    /\ \A i \in Slots :
           /\ calls[i].phase \in {"serving", "answered"} => calls[i].node = h
           /\ calls[i].phase = "sent" /\ calls[i].kind = "execute" => calls[i].ctx.specific = h

OneHome ==
    row.retryCount = 0 =>
        /\ row.status # FAILED_RETRYABLE
        /\ NotServedYet \/ \E h \in Nodes : AtHome(h)

\* One of the reasons for which a record may stay RUNNING is known.
Excused == reasons \cap Explains(RUNNING) # {}

DispatchInv ==
    TypeOK /\ CallsAreServed /\ EndsAreKept /\ OneHome /\ RunningIsExplained

LEMMA ExcusesOfRunning == Explains(RUNNING) = {"lost", "exhausted", "overtaken"}
BY DEF Explains, PREPARE, RUNNING, FAILED_RETRYABLE

LEMMA ExcusesStay == Excused /\ reasons \subseteq reasons' => Excused'
BY DEF Excused

LEMMA LossExcuses == Loses => Excused' /\ reasons' = reasons \cup {"lost"}
BY ExcusesOfRunning DEF Loses, Excused

LEMMA InitInv == Init => DispatchInv
<1>. SUFFICES ASSUME Init PROVE DispatchInv
    OBVIOUS
<1>1. TypeOK
    BY DispatchAssumption
    DEF Init, TypeOK, Row, Call, Idle, Ctx, AnyNode, NONE, RUNNING, FAILED_RETRYABLE, FAILED_RESCHEDULED
<1>2. CallsAreServed /\ EndsAreKept /\ RunningIsExplained
    BY DEF Init, CallsAreServed, EndsAreKept, RunningIsExplained, Idle, NONE, RUNNING
<1>3. OneHome
    BY DEF Init, OneHome, NotServedYet, Idle, NONE, FAILED_RETRYABLE
<1>. QED
    BY <1>1, <1>2, <1>3 DEF DispatchInv

----------------------------------------------------------------------------
(* UpdateState and Send. *)

\* What the record becomes: the same, the reported state, or one retry more.
LEMMA UpdateStateWrites ==
    ASSUME TypeOK, NEW n \in Nodes, NEW s \in OnWire, UpdateState(n, s)
    PROVE  /\ \/ row' = row
              \/ \E t \in {RUNNING, FAILED_RESCHEDULED} :
                     row' = [status |-> t, node |-> n, retryCount |-> row.retryCount]
              \/ /\ row.retryCount < MaxRetries
                 /\ row' = [status |-> FAILED_RETRYABLE, node |-> n,
                            retryCount |-> row.retryCount + 1]
           /\ events' \subseteq Terminal /\ events \subseteq events'
           /\ reasons' \subseteq Reasons /\ reasons \subseteq reasons'
           /\ row'.status = RUNNING =>
                  \/ s = RUNNING /\ (row.status = RUNNING \/ run[n] # "none" \/ Excused')
                  \/ s # RUNNING /\ (events' # {} \/ Excused')
<1>. DEFINE status == TaskExecutionStatusFromProto(s)
            record == [status |-> status, node |-> n, retryCount |-> row.retryCount]
<1>1. events \subseteq Terminal /\ reasons \subseteq Reasons
    BY DEF TypeOK
<1>2. CASE row.status \in Terminal
    <2>1. UNCHANGED <<row, events, reasons>>
        BY <1>2 DEF UpdateState
    <2>. QED
        BY <1>1, <1>2, <2>1 DEF Terminal, SUCCESS, FAILED, RUNNING
<1>3. CASE row.status \notin Terminal /\ s = RUNNING
    <2>1. status = RUNNING
        BY <1>3 DEF TaskExecutionStatusFromProto, RUNNING, FAILED_RESCHEDULABLE
    <2>2. /\ row' = IF row.status = RUNNING THEN row ELSE record
          /\ reasons' = reasons \cup (IF row.status # RUNNING /\ run[n] = "none"
                                      THEN {"overtaken"} ELSE {})
          /\ UNCHANGED events
        BY <1>3, <2>1
        DEF UpdateState, Terminal, RUNNING, SUCCESS, FAILED, FAILED_RETRYABLE, FAILED_RESCHEDULED
    <2>. QED
        BY <1>1, <1>3, <2>1, <2>2, ExcusesOfRunning DEF Reasons, Excused
<1>4. CASE row.status \notin Terminal /\ s = FAILED_RETRYABLE
    <2>1. status = FAILED_RETRYABLE
        BY <1>4 DEF TaskExecutionStatusFromProto, FAILED_RETRYABLE, FAILED_RESCHEDULABLE
    <2>2. [record EXCEPT !.retryCount = @ + 1] =
              [status |-> status, node |-> n, retryCount |-> row.retryCount + 1]
        OBVIOUS
    <2>3. /\ row' = IF row.retryCount < MaxRetries
                    THEN [record EXCEPT !.retryCount = @ + 1] ELSE row
          /\ reasons' = IF row.retryCount < MaxRetries THEN reasons
                        ELSE reasons \cup {"exhausted"}
          /\ UNCHANGED events
        BY <1>4, <2>1
        DEF UpdateState, Terminal, RUNNING, SUCCESS, FAILED, FAILED_RETRYABLE, FAILED_RESCHEDULED
    <2>4. CASE row.retryCount < MaxRetries
        <3>1. row' = [status |-> FAILED_RETRYABLE, node |-> n, retryCount |-> row.retryCount + 1]
            BY <2>1, <2>2, <2>3, <2>4
        <3>2. row'.status # RUNNING
            BY <3>1 DEF FAILED_RETRYABLE, RUNNING
        <3>. QED
            BY <1>1, <2>3, <2>4, <3>1, <3>2
    <2>5. CASE ~(row.retryCount < MaxRetries)
        BY <1>1, <1>4, <2>3, <2>5, ExcusesOfRunning DEF FAILED_RETRYABLE, RUNNING, Reasons, Excused
    <2>. QED
        BY <2>4, <2>5
<1>5. CASE row.status \notin Terminal /\ s = FAILED_RESCHEDULABLE
    <2>1. status = FAILED_RESCHEDULED
        BY <1>5 DEF TaskExecutionStatusFromProto
    <2>2. row' = record /\ UNCHANGED <<events, reasons>>
        BY <1>5, <2>1
        DEF UpdateState, Terminal, RUNNING, SUCCESS, FAILED, FAILED_RETRYABLE, FAILED_RESCHEDULED
    <2>. QED
        BY <1>1, <2>1, <2>2 DEF FAILED_RESCHEDULED, RUNNING
<1>6. CASE row.status \notin Terminal /\ s \in {SUCCESS, FAILED}
    <2>1. status = s
        BY <1>6 DEF TaskExecutionStatusFromProto, SUCCESS, FAILED, FAILED_RESCHEDULABLE
    <2>2. events' = events \cup {s} /\ UNCHANGED <<row, reasons>>
        BY <1>6, <2>1
        DEF UpdateState, Terminal, RUNNING, SUCCESS, FAILED, FAILED_RETRYABLE, FAILED_RESCHEDULED
    <2>. QED
        BY <1>1, <1>6, <2>2 DEF Terminal, SUCCESS, FAILED, RUNNING
<1>. QED
    BY <1>2, <1>3, <1>4, <1>5, <1>6 DEF OnWire

\* The record is one afterwards, and counts its retries.
LEMMA UpdateStateKeepsRow ==
    ASSUME TypeOK, NEW n \in Nodes, NEW s \in OnWire, UpdateState(n, s)
    PROVE  /\ row' \in Row
           /\ row'.status \in {RUNNING, FAILED_RETRYABLE, FAILED_RESCHEDULED} => row'.node \in Nodes
           /\ row'.retryCount = 0 => /\ row.retryCount = 0
                                     /\ row.status # FAILED_RETRYABLE => row'.status # FAILED_RETRYABLE
                                     /\ row'.node \in {row.node, n}
                                     /\ row.status # NONE => row'.status # NONE
<1>1. row \in Row /\ row.retryCount \in 0..MaxRetries /\ MaxRetries \in Nat
    BY DispatchAssumption DEF TypeOK, Row
<1>2. CASE row' = row
    BY <1>1, <1>2 DEF TypeOK
<1>3. ASSUME NEW t \in {RUNNING, FAILED_RESCHEDULED},
             row' = [status |-> t, node |-> n, retryCount |-> row.retryCount]
      PROVE  /\ row' \in Row /\ row'.node = n /\ row'.retryCount = row.retryCount
             /\ row'.status \notin {NONE, FAILED_RETRYABLE}
    BY <1>1, <1>3 DEF Row, RUNNING, FAILED_RESCHEDULED, NONE, FAILED_RETRYABLE
<1>4. CASE /\ row.retryCount < MaxRetries
           /\ row' = [status |-> FAILED_RETRYABLE, node |-> n, retryCount |-> row.retryCount + 1]
    <2>1. row.retryCount + 1 \in 0..MaxRetries /\ row.retryCount + 1 # 0
        BY <1>1, <1>4
    <2>. QED
        BY <1>4, <2>1 DEF Row
<1>. QED
    BY <1>2, <1>3, <1>4, UpdateStateWrites

----------------------------------------------------------------------------
(* One call changes. *)

LEMMA IdleType == Idle \in Call /\ Idle.phase = "idle"
BY DEF Idle, Call, Ctx, AnyNode

LEMMA CallType ==
    ASSUME TypeOK, NEW i \in Slots
    PROVE  calls[i] \in Call
BY DEF TypeOK

\* What a call may become without disturbing the others.
LEMMA OneCallChanges ==
    ASSUME DispatchInv, NEW i \in Slots, NEW x \in Call, calls' = [calls EXCEPT ![i] = x],
           \A n \in Nodes : states[n] # NONE => states'[n] # NONE,
           x.phase \in {"serving", "answered"} => x.node \in Nodes,
           x.phase = "serving" => states'[x.node] # NONE,
           x.phase = "answered" => x.answer # NONE
    PROVE  /\ calls' \in [Slots -> Call] /\ calls'[i] = x
           /\ \A j \in Slots : j # i => calls'[j] = calls[j]
           /\ CallsAreServed'
<1>1. /\ calls' \in [Slots -> Call] /\ calls'[i] = x
      /\ \A j \in Slots : j # i => calls'[j] = calls[j]
    BY DEF DispatchInv, TypeOK
<1>2. CallsAreServed'
    <2>. SUFFICES ASSUME NEW j \in Slots PROVE CallsAreServed!(j)'
        BY DEF CallsAreServed
    <2>1. CASE j = i
        BY <1>1, <2>1
    <2>2. CASE j # i
        BY <1>1, <2>2 DEF DispatchInv, CallsAreServed
    <2>. QED
        BY <2>1, <2>2
<1>. QED
    BY <1>1, <1>2

\* A call that ends disturbs nothing.
LEMMA CallEnds ==
    ASSUME DispatchInv, NEW i \in Slots, calls' = [calls EXCEPT ![i] = Idle],
           UNCHANGED <<row, states, events>>
    PROVE  calls' \in [Slots -> Call] /\ CallsAreServed' /\ OneHome'
<1>1. /\ calls' \in [Slots -> Call] /\ CallsAreServed' /\ calls'[i].phase = "idle"
      /\ \A j \in Slots : j # i => calls'[j] = calls[j]
    BY IdleType, OneCallChanges
<1>2. NotServedYet => NotServedYet'
    BY <1>1 DEF NotServedYet
<1>3. \A h \in Nodes : AtHome(h) => AtHome(h)'
    BY <1>1 DEF AtHome
<1>. QED
    BY <1>1, <1>2, <1>3 DEF DispatchInv, OneHome

LEMMA Contexts ==
    ASSUME NEW n \in Nodes \cup {NoNode}
    PROVE  /\ WithSpecificNodeID(AnyNode, n) \in Ctx /\ WithExcludedNodeID(AnyNode, n) \in Ctx
           /\ AnyNode \in Ctx
           /\ n # NoNode => WithSpecificNodeID(AnyNode, n).specific = n
BY DEF WithSpecificNodeID, WithExcludedNodeID, AnyNode, Ctx

\* Sending keeps everything but OneHome, which depends on what is sent.
LEMMA SendKeeps ==
    ASSUME DispatchInv, NEW i \in Slots, NEW kind \in {"execute", "interrupt"}, NEW ctx \in Ctx,
           Send(i, kind, ctx), row' \in Row, row'.status # RUNNING \/ row' = row,
           row'.status \in {RUNNING, FAILED_RETRYABLE, FAILED_RESCHEDULED} => row'.node \in Nodes,
           UNCHANGED <<events, ready, states, run, losses, reasons>>
    PROVE  /\ TypeOK' /\ CallsAreServed' /\ EndsAreKept' /\ RunningIsExplained'
           /\ calls[i].phase = "idle"
           /\ calls'[i].phase = "sent" /\ calls'[i].kind = kind /\ calls'[i].ctx = ctx
           /\ \A j \in Slots : j # i => calls'[j] = calls[j]
<1>. DEFINE x == [Idle EXCEPT !.phase = "sent", !.kind = kind, !.ctx = ctx]
<1>1. calls[i].phase = "idle" /\ calls' = [calls EXCEPT ![i] = x]
    BY DEF Send
<1>2. x \in Call /\ x.phase = "sent" /\ x.kind = kind /\ x.ctx = ctx
    BY DEF Idle, Call
<1>. HIDE DEF x
<1>3. /\ calls' \in [Slots -> Call] /\ calls'[i] = x /\ CallsAreServed'
      /\ \A j \in Slots : j # i => calls'[j] = calls[j]
    BY <1>1, <1>2, OneCallChanges
<1>4. TypeOK'
    BY <1>3 DEF DispatchInv, TypeOK
<1>5. EndsAreKept' /\ RunningIsExplained'
    BY DEF DispatchInv, EndsAreKept, RunningIsExplained
<1>. QED
    BY <1>1, <1>2, <1>3, <1>4, <1>5

----------------------------------------------------------------------------
(* The runner and the compensators. *)

\* The one call that may go anywhere; it is the first.
LEMMA RunKeeps ==
    ASSUME DispatchInv, NEW i \in Slots, Run(i)
    PROVE  DispatchInv'
<1>1. PICK ctx \in Ctx : Send(i, "execute", ctx)
    BY DEF Run
<1>2. /\ row.status = NONE /\ row' = [row EXCEPT !.status = PREPARE]
      /\ UNCHANGED <<events, ready, states, run, losses, reasons>>
    BY DEF Run
<1>3. /\ row' \in Row /\ row'.status = PREPARE /\ row'.node = row.node
      /\ row'.retryCount = row.retryCount
    BY <1>2 DEF DispatchInv, TypeOK, Row
<1>4. PREPARE \notin {RUNNING, FAILED_RETRYABLE, FAILED_RESCHEDULED, NONE}
    BY DEF PREPARE, RUNNING, FAILED_RETRYABLE, FAILED_RESCHEDULED, NONE
<1>5. /\ TypeOK' /\ CallsAreServed' /\ EndsAreKept' /\ RunningIsExplained'
      /\ calls'[i].phase = "sent" /\ calls'[i].kind = "execute"
      /\ \A j \in Slots : j # i => calls'[j] = calls[j]
    BY <1>1, <1>2, <1>3, <1>4, SendKeeps
<1>6. ASSUME row'.retryCount = 0 PROVE row'.status # FAILED_RETRYABLE /\ NotServedYet'
    <2>1. NotServedYet
        BY <1>2, <1>3, <1>6 DEF DispatchInv, OneHome, AtHome
    <2>2. \A j \in Slots : calls[j].phase = "idle"
        BY <1>2, <2>1 DEF NotServedYet, NONE, PREPARE
    <2>3. \A j \in Slots : calls'[j].phase # "idle" => j = i
        BY <1>5, <2>2
    <2>. QED
        BY <1>2, <1>3, <1>4, <1>5, <2>1, <2>3 DEF NotServedYet
<1>. QED
    BY <1>5, <1>6 DEF DispatchInv, OneHome

\* There was a failure, so that the record counts a retry.
LEMMA RetryKeeps ==
    ASSUME DispatchInv, NEW i \in Slots, Retry(i)
    PROVE  DispatchInv'
<1>1. row \in Row /\ row.node \in Nodes \cup {NoNode}
    BY DEF DispatchInv, TypeOK, Row
<1>2. WithExcludedNodeID(AnyNode, row.node) \in Ctx
    BY <1>1, Contexts
<1>3. TypeOK' /\ CallsAreServed' /\ EndsAreKept' /\ RunningIsExplained' /\ row' = row
    BY <1>1, <1>2, SendKeeps DEF Retry, DispatchInv, TypeOK
<1>4. row'.retryCount # 0
    BY <1>3 DEF Retry, DispatchInv, OneHome
<1>. QED
    BY <1>3, <1>4 DEF DispatchInv, OneHome

LEMMA RescheduleKeeps ==
    ASSUME DispatchInv, NEW i \in Slots, Reschedule(i)
    PROVE  DispatchInv'
<1>. DEFINE ctx == WithSpecificNodeID(AnyNode, row.node)
<1>1. /\ row \in Row /\ row.status = FAILED_RESCHEDULED /\ row.node \in Nodes
      /\ row.node # NoNode
    BY DispatchAssumption DEF Reschedule, DispatchInv, TypeOK
<1>2. ctx \in Ctx /\ ctx.specific = row.node
    BY <1>1, Contexts
<1>3. /\ Send(i, "execute", ctx)
      /\ UNCHANGED <<row, events, ready, states, run, losses, reasons>>
    BY DEF Reschedule
<1>. HIDE DEF ctx
<1>4. /\ TypeOK' /\ CallsAreServed' /\ EndsAreKept' /\ RunningIsExplained'
      /\ calls'[i].phase = "sent" /\ calls'[i].ctx = ctx
      /\ \A j \in Slots : j # i => calls'[j] = calls[j]
    BY <1>1, <1>2, <1>3, SendKeeps
<1>5. ASSUME NEW h \in Nodes, AtHome(h) PROVE AtHome(h)'
    <2>1. row.node = h
        BY <1>1, <1>5 DEF AtHome
    <2>. QED
        BY <1>2, <1>3, <1>4, <1>5, <2>1 DEF AtHome
<1>6. ~NotServedYet
    BY <1>1 DEF NotServedYet, NONE, PREPARE, FAILED_RESCHEDULED
<1>7. OneHome'
    BY <1>3, <1>5, <1>6 DEF DispatchInv, OneHome
<1>. QED
    BY <1>4, <1>7 DEF DispatchInv

LEMMA InterruptKeeps ==
    ASSUME DispatchInv, NEW i \in Slots, Interrupt(i)
    PROVE  DispatchInv'
<1>1. /\ row.status = RUNNING /\ Send(i, "interrupt", AnyNode) /\ AnyNode \in Ctx
      /\ UNCHANGED <<row, events, ready, states, run, losses, reasons>>
    BY Contexts DEF Interrupt
<1>2. /\ TypeOK' /\ CallsAreServed' /\ EndsAreKept' /\ RunningIsExplained'
      /\ calls'[i].phase = "sent" /\ calls'[i].kind = "interrupt"
      /\ \A j \in Slots : j # i => calls'[j] = calls[j]
    BY <1>1, SendKeeps DEF DispatchInv, TypeOK
<1>3. ASSUME NEW h \in Nodes, AtHome(h) PROVE AtHome(h)'
    BY <1>1, <1>2, <1>3 DEF AtHome
<1>4. ~NotServedYet
    BY <1>1 DEF NotServedYet, NONE, PREPARE, RUNNING
<1>5. OneHome'
    BY <1>1, <1>3, <1>4 DEF DispatchInv, OneHome
<1>. QED
    BY <1>2, <1>5 DEF DispatchInv

----------------------------------------------------------------------------
(* The calls. *)

\* A node with a run has a state.
LEMMA RunHasState ==
    ASSUME DispatchInv, NEW n \in Nodes, run[n] # "none"
    PROVE  states[n] # NONE
<1>1. run[n] \in {"running", "cancelled", "ended"}
    BY DEF DispatchInv, TypeOK
<1>. QED
    BY <1>1 DEF DispatchInv, TypeOK, EndsAreKept, RUNNING, NONE

\* The node the picker chooses is the home, where there is one.
LEMMA PickedIsHome ==
    ASSUME DispatchInv, NEW i \in Slots, NEW h \in Nodes, AtHome(h),
           calls[i].phase = "sent", calls[i].kind = "execute",
           NEW n \in Pick(ready, [m \in Nodes |-> m], calls[i].ctx)
    PROVE  n = h
<1>1. calls[i].ctx.specific = h /\ h # NoNode
    BY DispatchAssumption DEF AtHome
<1>2. n \in PickSpecific(ready, [m \in Nodes |-> m], h)
    BY <1>1 DEF Pick
<1>. QED
    BY <1>2 DEF PickSpecific, DispatchInv, TypeOK

\* A node serves a call: unless this is the first Execute, it is the home.
LEMMA ServedKeeps ==
    ASSUME DispatchInv, NEW i \in Slots, calls[i].phase = "sent", NEW n \in Nodes,
           calls' = [calls EXCEPT ![i] = [@ EXCEPT !.phase = "serving", !.node = n]],
           \A h \in Nodes : AtHome(h) => n = h,
           NotServedYet => calls[i].kind = "execute",
           states' \in [Nodes -> OnWire \cup {NONE}], states'[n] # NONE,
           \A m \in Nodes : m # n => states'[m] = states[m],
           UNCHANGED <<row, events>>
    PROVE  calls' \in [Slots -> Call] /\ CallsAreServed' /\ OneHome'
<1>. DEFINE x == [calls[i] EXCEPT !.phase = "serving", !.node = n]
<1>1. /\ x \in Call /\ x.phase = "serving" /\ x.node = n /\ x.kind = calls[i].kind
      /\ calls' = [calls EXCEPT ![i] = x]
    BY CallType DEF DispatchInv, Call
<1>. HIDE DEF x
<1>2. \A m \in Nodes : states[m] # NONE => states'[m] # NONE
    OBVIOUS
<1>0. /\ x.phase \in {"serving", "answered"} => x.node \in Nodes
      /\ x.phase = "serving" => states'[x.node] # NONE
      /\ x.phase = "answered" => x.answer # NONE
    BY <1>1
<1>3. /\ calls' \in [Slots -> Call] /\ calls'[i] = x /\ CallsAreServed'
      /\ \A j \in Slots : j # i => calls'[j] = calls[j]
    <2>1. x \in Call /\ calls' = [calls EXCEPT ![i] = x]
        BY <1>1
    <2>. QED
        BY <1>0, <1>2, <2>1, OneCallChanges, ZenonT(40)
<1>4. NotServedYet => AtHome(n)'
    <2>. SUFFICES ASSUME NotServedYet PROVE AtHome(n)'
        OBVIOUS
    <2>1. row'.status # NONE /\ row'.node = NoNode
        BY DEF NotServedYet, NONE, PREPARE
    <2>2. \A m \in Nodes : states'[m] # NONE => m = n
        BY DEF NotServedYet
    <2>3. \A j \in Slots : j # i => calls'[j].phase = "idle"
        BY <1>3 DEF NotServedYet
    <2>. QED
        BY <1>1, <1>3, <2>1, <2>2, <2>3 DEF AtHome
<1>5. ASSUME NEW h \in Nodes, AtHome(h) PROVE AtHome(n)'
    <2>1. n = h
        BY <1>5
    <2>. QED
        BY <1>1, <1>3, <1>5, <2>1 DEF AtHome
<1>6. OneHome'
    BY <1>4, <1>5 DEF DispatchInv, OneHome
<1>. QED
    BY <1>3, <1>6

LEMMA ServeKeeps ==
    ASSUME DispatchInv, NEW i \in Slots, Serve(i)
    PROVE  DispatchInv'
<1>. DEFINE found == Pick(ready, [n \in Nodes |-> n], calls[i].ctx)
<1>1. /\ calls[i].phase = "sent" /\ UNCHANGED <<row, events, ready, losses>>
      /\ reasons \subseteq reasons' /\ reasons' \subseteq Reasons
    BY DEF Serve, Reasons, DispatchInv, TypeOK
<1>2. found \subseteq Nodes
    BY DEF DispatchInv, TypeOK, Pick, PickSpecific, PickExcluding
<1>3. calls[i] \in Call /\ calls[i].kind \in {"execute", "interrupt"}
    BY CallType DEF DispatchInv, Call
<1>4. CASE calls' = [calls EXCEPT ![i] = Idle] /\ UNCHANGED <<states, run>>
    <2>1. calls' \in [Slots -> Call] /\ CallsAreServed' /\ OneHome'
        BY <1>1, <1>4, CallEnds
    <2>2. TypeOK' /\ EndsAreKept' /\ RunningIsExplained'
        BY <1>1, <1>4, <2>1, ExcusesStay
        DEF DispatchInv, TypeOK, EndsAreKept, RunningIsExplained, Excused
    <2>. QED
        BY <2>1, <2>2 DEF DispatchInv
<1>5. ASSUME NEW n \in found, calls[i].kind = "execute", Execute(n),
             calls' = [calls EXCEPT ![i] = [@ EXCEPT !.phase = "serving", !.node = n]]
      PROVE  DispatchInv'
    <2>1. n \in Nodes
        BY <1>2, <1>5
    <2>2. /\ states \in [Nodes -> OnWire \cup {NONE}]
          /\ run \in [Nodes -> {"none", "running", "cancelled", "ended"}]
        BY DEF DispatchInv, TypeOK
    <2>3. /\ states' \in [Nodes -> OnWire \cup {NONE}]
          /\ states'[n] = IF states[n] = NONE THEN RUNNING ELSE states[n]
          /\ \A m \in Nodes : m # n => states'[m] = states[m]
        BY <1>5, <2>1, <2>2 DEF Execute, OnWire
    <2>4. /\ run' \in [Nodes -> {"none", "running", "cancelled", "ended"}]
          /\ run'[n] = IF states[n] = NONE THEN "running" ELSE run[n]
          /\ \A m \in Nodes : m # n => run'[m] = run[m]
        BY <1>5, <2>1, <2>2 DEF Execute
    <2>5. \A h \in Nodes : AtHome(h) => n = h
        BY <1>1, <1>5, PickedIsHome
    <2>6. states'[n] # NONE
        BY <2>3 DEF RUNNING, NONE
    <2>7. calls' \in [Slots -> Call] /\ CallsAreServed' /\ OneHome'
        BY <1>1, <1>5, <2>1, <2>3, <2>5, <2>6, ServedKeeps
    <2>8. \A m \in Nodes : run'[m] \in {"running", "cancelled"} => states'[m] = RUNNING
        BY <2>3, <2>4 DEF DispatchInv, TypeOK, RUNNING, NONE
    <2>9. TypeOK'
        BY <1>1, <2>3, <2>4, <2>7, <2>8 DEF DispatchInv, TypeOK
    <2>10. EndsAreKept'
        BY <2>3, <2>4 DEF DispatchInv, EndsAreKept
    <2>11. RunningIsExplained'
        <3>1. \A m \in Nodes : run[m] # "none" => run'[m] # "none"
            BY <2>4
        <3>. QED
            BY <1>1, <3>1, ExcusesStay DEF DispatchInv, RunningIsExplained, Excused
    <2>. QED
        BY <2>7, <2>9, <2>10, <2>11 DEF DispatchInv
<1>6. ASSUME NEW n \in found, calls[i].kind = "interrupt", Cancel(n),
             calls' = [calls EXCEPT ![i] = IF run[n] = "none" THEN Idle
                                           ELSE [@ EXCEPT !.phase = "serving", !.node = n]]
      PROVE  DispatchInv'
    <2>1. n \in Nodes
        BY <1>2, <1>6
    <2>2. /\ states' = states
          /\ states \in [Nodes -> OnWire \cup {NONE}]
          /\ run \in [Nodes -> {"none", "running", "cancelled", "ended"}]
        BY <1>6 DEF DispatchInv, TypeOK, Cancel
    <2>3. /\ run' \in [Nodes -> {"none", "running", "cancelled", "ended"}]
          /\ run'[n] = IF run[n] = "running" THEN "cancelled" ELSE run[n]
          /\ \A m \in Nodes : m # n => run'[m] = run[m]
        BY <1>6, <2>1, <2>2 DEF Cancel
    <2>4. calls' \in [Slots -> Call] /\ CallsAreServed' /\ OneHome'
        <3>1. CASE run[n] = "none"
            BY <1>1, <1>6, <2>2, <3>1, CallEnds
        <3>2. CASE run[n] # "none"
            <4>1. states[n] # NONE
                BY <2>1, <3>2, RunHasState
            <4>2. (\A h \in Nodes : AtHome(h) => n = h) /\ ~NotServedYet
                BY <2>1, <4>1 DEF AtHome, NotServedYet
            <4>3. calls' = [calls EXCEPT ![i] = [@ EXCEPT !.phase = "serving", !.node = n]]
                BY <1>6, <3>2
            <4>. QED
                BY <1>1, <2>1, <2>2, <4>1, <4>2, <4>3, ServedKeeps
        <3>. QED
            BY <3>1, <3>2
    <2>5. \A m \in Nodes : run'[m] \in {"running", "cancelled"} => states'[m] = RUNNING
        BY <2>2, <2>3 DEF DispatchInv, TypeOK
    <2>6. TypeOK'
        BY <1>1, <2>2, <2>3, <2>4, <2>5 DEF DispatchInv, TypeOK
    <2>7. EndsAreKept'
        BY <2>2, <2>3 DEF DispatchInv, EndsAreKept
    <2>8. RunningIsExplained'
        <3>1. \A m \in Nodes : run[m] # "none" => run'[m] # "none"
            BY <2>3
        <3>. QED
            BY <1>1, <3>1, ExcusesStay DEF DispatchInv, RunningIsExplained, Excused
    <2>. QED
        BY <2>4, <2>6, <2>7, <2>8 DEF DispatchInv
<1>. QED
    BY <1>3, <1>4, <1>5, <1>6 DEF Serve

LEMMA MarshalKeeps ==
    ASSUME DispatchInv, NEW i \in Slots, Marshal(i)
    PROVE  DispatchInv'
<1>. DEFINE x == [calls[i] EXCEPT !.phase = "answered", !.answer = states[calls[i].node]]
<1>1. /\ calls[i].phase = "serving" /\ calls' = [calls EXCEPT ![i] = x]
      /\ UNCHANGED <<row, events, ready, states, run, losses, reasons>>
    BY DEF Marshal
<1>2. /\ calls[i].node \in Nodes /\ states[calls[i].node] # NONE
      /\ states[calls[i].node] \in OnWire \cup {NONE}
    BY <1>1 DEF DispatchInv, CallsAreServed, TypeOK
<1>3. /\ x \in Call /\ x.phase = "answered" /\ x.node = calls[i].node /\ x.answer # NONE
    BY <1>2, CallType DEF DispatchInv, Call
<1>. HIDE DEF x
<1>4. /\ calls' \in [Slots -> Call] /\ calls'[i] = x /\ CallsAreServed'
      /\ \A j \in Slots : j # i => calls'[j] = calls[j]
    BY <1>1, <1>2, <1>3, OneCallChanges
<1>5. OneHome'
    <2>1. ~NotServedYet
        BY <1>1 DEF NotServedYet
    <2>2. \A h \in Nodes : AtHome(h) => AtHome(h)'
        BY <1>1, <1>3, <1>4 DEF AtHome
    <2>. QED
        BY <1>1, <2>1, <2>2 DEF DispatchInv, OneHome
<1>6. TypeOK' /\ EndsAreKept' /\ RunningIsExplained'
    BY <1>1, <1>4 DEF DispatchInv, TypeOK, EndsAreKept, RunningIsExplained
<1>. QED
    BY <1>4, <1>5, <1>6 DEF DispatchInv

LEMMA CallFailsKeeps ==
    ASSUME DispatchInv, NEW i \in Slots, CallFails(i)
    PROVE  DispatchInv'
<1>1. /\ calls' = [calls EXCEPT ![i] = Idle] /\ Loses
      /\ UNCHANGED <<row, events, ready, states, run>>
    BY DEF CallFails
<1>2. calls' \in [Slots -> Call] /\ CallsAreServed' /\ OneHome'
    BY <1>1, CallEnds
<1>3. losses' \in 0..MaxLosses
    BY <1>1, DispatchAssumption DEF DispatchInv, TypeOK, Loses, Reasons
<1>4. TypeOK'
    BY <1>1, <1>2, <1>3 DEF DispatchInv, TypeOK, Loses, Reasons
<1>5. EndsAreKept' /\ RunningIsExplained'
    BY <1>1, LossExcuses DEF DispatchInv, EndsAreKept, RunningIsExplained, Excused
<1>. QED
    BY <1>2, <1>4, <1>5 DEF DispatchInv

\* What a node says is applied to the record: the node is the home.
LEMMA AppliedStaysHome ==
    ASSUME DispatchInv, NEW n \in Nodes, NEW s \in OnWire, UpdateState(n, s),
           ~NotServedYet, \A h \in Nodes : AtHome(h) => n = h,
           states' = states,
           \A i \in Slots : calls'[i] = calls[i] \/ calls'[i] = Idle
    PROVE  OneHome'
<1>1. /\ row'.retryCount = 0 => /\ row.retryCount = 0
                                /\ row.status # FAILED_RETRYABLE => row'.status # FAILED_RETRYABLE
                                /\ row'.node \in {row.node, n}
                                /\ row.status # NONE => row'.status # NONE
    BY UpdateStateKeepsRow DEF DispatchInv
<1>2. SUFFICES ASSUME row'.retryCount = 0
               PROVE  row'.status # FAILED_RETRYABLE /\ \E h \in Nodes : AtHome(h)'
    BY DEF OneHome
<1>3. row.status # FAILED_RETRYABLE /\ AtHome(n)
    BY <1>1, <1>2 DEF DispatchInv, OneHome
<1>4. AtHome(n)'
    BY <1>1, <1>2, <1>3, IdleType DEF AtHome
<1>. QED
    BY <1>1, <1>2, <1>3, <1>4

LEMMA ReturnKeeps ==
    ASSUME DispatchInv, NEW i \in Slots, Return(i)
    PROVE  DispatchInv'
<1>. DEFINE n == calls[i].node
            s == calls[i].answer
<1>1. /\ calls[i].phase = "answered" /\ UpdateState(n, s)
      /\ calls' = [calls EXCEPT ![i] = Idle]
      /\ UNCHANGED <<ready, states, run, losses>>
    BY DEF Return
<1>2. n \in Nodes /\ s \in OnWire
    BY <1>1, CallType DEF DispatchInv, CallsAreServed, Call
<1>3. TypeOK /\ calls \in [Slots -> Call]
    BY DEF DispatchInv, TypeOK
<1>. HIDE DEF n, s
<1>4. /\ calls' \in [Slots -> Call] /\ CallsAreServed'
      /\ \A j \in Slots : calls'[j] = calls[j] \/ calls'[j] = Idle
    <2>1. /\ calls' \in [Slots -> Call] /\ CallsAreServed' /\ calls'[i] = Idle
          /\ \A j \in Slots : j # i => calls'[j] = calls[j]
        BY <1>1, IdleType, OneCallChanges
    <2>. QED
        BY <2>1
<1>5. ~NotServedYet /\ \A h \in Nodes : AtHome(h) => n = h
    BY <1>1 DEF NotServedYet, AtHome, n
<1>6. OneHome'
    BY <1>1, <1>2, <1>4, <1>5, AppliedStaysHome
<1>7. TypeOK'
    <2>1. /\ row' \in Row
          /\ row'.status \in {RUNNING, FAILED_RETRYABLE, FAILED_RESCHEDULED} => row'.node \in Nodes
        BY <1>1, <1>2, <1>3, UpdateStateKeepsRow
    <2>2. events' \subseteq Terminal /\ reasons' \subseteq Reasons
        BY <1>1, <1>2, <1>3, UpdateStateWrites
    <2>. QED
        BY <1>1, <1>3, <1>4, <2>1, <2>2 DEF TypeOK
<1>8. EndsAreKept'
    BY <1>1 DEF DispatchInv, EndsAreKept
<1>9. RunningIsExplained'
    <2>1. /\ events \subseteq events' /\ reasons \subseteq reasons'
          /\ row'.status = RUNNING =>
                 \/ s = RUNNING /\ (row.status = RUNNING \/ run[n] # "none" \/ Excused')
                 \/ s # RUNNING /\ (events' # {} \/ Excused')
        BY <1>1, <1>2, <1>3, UpdateStateWrites
    <2>. QED
        BY <1>1, <1>2, <2>1, ExcusesStay DEF DispatchInv, RunningIsExplained, Excused
<1>. QED
    BY <1>4, <1>6, <1>7, <1>8, <1>9 DEF DispatchInv

----------------------------------------------------------------------------
(* The executors. *)

\* A node that has a state still has it and keeps its calls: it stays the home.
LEMMA StaysHome ==
    ASSUME DispatchInv, UNCHANGED <<row, calls, events>>,
           \A n \in Nodes : states'[n] # NONE <=> states[n] # NONE
    PROVE  OneHome' /\ CallsAreServed'
<1>1. NotServedYet => NotServedYet'
    BY DEF NotServedYet
<1>2. \A h \in Nodes : AtHome(h) => AtHome(h)'
    BY DEF AtHome
<1>. QED
    BY <1>1, <1>2 DEF DispatchInv, OneHome, CallsAreServed

LEMMA HandlerReturnsKeeps ==
    ASSUME DispatchInv, NEW n \in Nodes, HandlerReturns(n)
    PROVE  DispatchInv'
<1>1. /\ run[n] \in {"running", "cancelled"} /\ run' = [run EXCEPT ![n] = "ended"]
      /\ UNCHANGED <<row, events, ready, calls, losses, reasons>>
    BY DEF HandlerReturns
<1>2. PICK s \in {FAILED_RESCHEDULABLE, SUCCESS} \cup FailureStates :
          states' = [states EXCEPT ![n] = s]
    BY DEF HandlerReturns
<1>3. s \in OnWire /\ s \notin {NONE, RUNNING}
    BY <1>2, DispatchAssumption
    DEF OnWire, NONE, RUNNING, SUCCESS, FAILED, FAILED_RETRYABLE, FAILED_RESCHEDULABLE
<1>4. /\ states' \in [Nodes -> OnWire \cup {NONE}] /\ states'[n] = s /\ states[n] = RUNNING
      /\ \A m \in Nodes : m # n => states'[m] = states[m]
      /\ run' \in [Nodes -> {"none", "running", "cancelled", "ended"}] /\ run'[n] = "ended"
      /\ \A m \in Nodes : m # n => run'[m] = run[m]
    BY <1>1, <1>2, <1>3 DEF DispatchInv, TypeOK
<1>5. OneHome' /\ CallsAreServed'
    BY <1>1, <1>3, <1>4, StaysHome DEF RUNNING, NONE
<1>6. TypeOK'
    <2>1. \A m \in Nodes : run'[m] \in {"running", "cancelled"} => states'[m] = RUNNING
        BY <1>4 DEF DispatchInv, TypeOK
    <2>. QED
        BY <1>1, <1>4, <2>1 DEF DispatchInv, TypeOK
<1>7. EndsAreKept'
    BY <1>3, <1>4 DEF DispatchInv, EndsAreKept
<1>8. RunningIsExplained'
    BY <1>4 DEF RunningIsExplained
<1>. QED
    BY <1>5, <1>6, <1>7, <1>8 DEF DispatchInv

\* When the run is gone, its end has changed the record, is announced by an
\* event, or something went wrong.
LEMMA ReportFinalKeeps ==
    ASSUME DispatchInv, NEW n \in Nodes, ReportFinal(n)
    PROVE  DispatchInv'
<1>1. /\ run[n] = "ended" /\ run' = [run EXCEPT ![n] = "none"]
      /\ \/ UpdateState(n, states[n]) /\ UNCHANGED losses
         \/ Loses /\ UNCHANGED <<row, events>>
      /\ UNCHANGED <<ready, states, calls>>
    BY DEF ReportFinal
<1>2. states[n] \in OnWire /\ states[n] # RUNNING /\ states[n] # NONE
    BY <1>1 DEF DispatchInv, EndsAreKept, TypeOK
<1>3. /\ run' \in [Nodes -> {"none", "running", "cancelled", "ended"}] /\ run'[n] = "none"
      /\ \A m \in Nodes : m # n => run'[m] = run[m]
      /\ \A m \in Nodes : run'[m] \in {"running", "cancelled"} => states'[m] = RUNNING
    BY <1>1 DEF DispatchInv, TypeOK
<1>4. EndsAreKept'
    BY <1>1, <1>3 DEF DispatchInv, EndsAreKept
<1>5. CASE UpdateState(n, states[n]) /\ UNCHANGED losses
    <2>1. ~NotServedYet /\ \A h \in Nodes : AtHome(h) => n = h
        BY <1>2 DEF NotServedYet, AtHome
    <2>2. OneHome'
        BY <1>1, <1>2, <1>5, <2>1, AppliedStaysHome
    <2>3. /\ row' \in Row
          /\ row'.status \in {RUNNING, FAILED_RETRYABLE, FAILED_RESCHEDULED} => row'.node \in Nodes
        BY <1>2, <1>5, UpdateStateKeepsRow DEF DispatchInv
    <2>4. /\ events' \subseteq Terminal /\ reasons' \subseteq Reasons
          /\ row'.status = RUNNING => events' # {} \/ Excused'
        BY <1>2, <1>5, UpdateStateWrites DEF DispatchInv
    <2>5. TypeOK'
        BY <1>1, <1>3, <1>5, <2>3, <2>4 DEF DispatchInv, TypeOK
    <2>6. CallsAreServed'
        BY <1>1 DEF DispatchInv, CallsAreServed
    <2>. QED
        BY <1>4, <2>2, <2>4, <2>5, <2>6 DEF DispatchInv, RunningIsExplained, Excused
<1>6. CASE Loses /\ UNCHANGED <<row, events>>
    <2>1. losses' \in 0..MaxLosses
        BY <1>6, DispatchAssumption DEF DispatchInv, TypeOK, Loses, Reasons
    <2>2. TypeOK'
        BY <1>1, <1>3, <1>6, <2>1 DEF DispatchInv, TypeOK, Loses, Reasons
    <2>3. OneHome' /\ CallsAreServed'
        BY <1>1, <1>6, StaysHome
    <2>4. RunningIsExplained'
        BY <1>6, LossExcuses DEF RunningIsExplained, Excused
    <2>. QED
        BY <1>4, <2>2, <2>3, <2>4 DEF DispatchInv
<1>. QED
    BY <1>1, <1>5, <1>6

\* A node that dies forgets; the record and the calls do not lead elsewhere.
LEMMA DieKeeps ==
    ASSUME DispatchInv, NEW n \in Nodes, Die(n)
    PROVE  DispatchInv'
<1>1. /\ Loses /\ ready' = ready \ {n} /\ states' = [states EXCEPT ![n] = NONE]
      /\ run' = [run EXCEPT ![n] = "none"]
      /\ calls' = [i \in Slots |-> IF calls[i].phase = "serving" /\ calls[i].node = n
                                   THEN Idle ELSE calls[i]]
      /\ UNCHANGED <<row, events>>
    BY DEF Die, DropConnection
<1>2. /\ states' \in [Nodes -> OnWire \cup {NONE}] /\ states'[n] = NONE
      /\ \A m \in Nodes : m # n => states'[m] = states[m]
      /\ run' \in [Nodes -> {"none", "running", "cancelled", "ended"}] /\ run'[n] = "none"
      /\ \A m \in Nodes : m # n => run'[m] = run[m]
    BY <1>1 DEF DispatchInv, TypeOK
<1>3. /\ calls' \in [Slots -> Call]
      /\ \A i \in Slots : calls'[i] = calls[i] \/ calls'[i] = Idle
      /\ \A i \in Slots : calls'[i].phase = "serving" => calls[i].node # n
    BY <1>1, IdleType DEF DispatchInv, TypeOK
<1>4. CallsAreServed'
    BY <1>2, <1>3, IdleType DEF DispatchInv, CallsAreServed
<1>5. OneHome'
    <2>1. NotServedYet => NotServedYet'
        BY <1>1, <1>2, <1>3, IdleType DEF NotServedYet
    <2>2. \A h \in Nodes : AtHome(h) => AtHome(h)'
        BY <1>1, <1>2, <1>3, IdleType DEF AtHome
    <2>. QED
        BY <1>1, <2>1, <2>2 DEF DispatchInv, OneHome
<1>6. losses' \in 0..MaxLosses
    BY <1>1, DispatchAssumption DEF DispatchInv, TypeOK, Loses, Reasons
<1>7. TypeOK'
    <2>1. \A m \in Nodes : run'[m] \in {"running", "cancelled"} => states'[m] = RUNNING
        BY <1>2 DEF DispatchInv, TypeOK
    <2>. QED
        BY <1>1, <1>2, <1>3, <1>6, <2>1 DEF DispatchInv, TypeOK, Loses, Reasons
<1>8. EndsAreKept'
    BY <1>2 DEF DispatchInv, EndsAreKept
<1>9. RunningIsExplained'
    BY <1>1, LossExcuses DEF RunningIsExplained, Excused
<1>. QED
    BY <1>4, <1>5, <1>7, <1>8, <1>9 DEF DispatchInv

\* A connection that goes takes the calls with it and nothing else.
LEMMA DisconnectKeeps ==
    ASSUME DispatchInv, NEW n \in Nodes, Disconnect(n)
    PROVE  DispatchInv'
<1>1. /\ Loses /\ ready' = ready \ {n}
      /\ calls' = [i \in Slots |-> IF calls[i].phase = "serving" /\ calls[i].node = n
                                   THEN Idle ELSE calls[i]]
      /\ UNCHANGED <<row, events, states, run>>
    BY DEF Disconnect, DropConnection
<1>2. /\ calls' \in [Slots -> Call]
      /\ \A i \in Slots : calls'[i] = calls[i] \/ calls'[i] = Idle
    BY <1>1, IdleType DEF DispatchInv, TypeOK
<1>3. CallsAreServed'
    BY <1>1, <1>2, IdleType DEF DispatchInv, CallsAreServed
<1>4. OneHome'
    <2>1. NotServedYet => NotServedYet'
        BY <1>1, <1>2, IdleType DEF NotServedYet
    <2>2. \A h \in Nodes : AtHome(h) => AtHome(h)'
        BY <1>1, <1>2, IdleType DEF AtHome
    <2>. QED
        BY <1>1, <2>1, <2>2 DEF DispatchInv, OneHome
<1>5. losses' \in 0..MaxLosses
    BY <1>1, DispatchAssumption DEF DispatchInv, TypeOK, Loses, Reasons
<1>6. TypeOK'
    BY <1>1, <1>2, <1>5 DEF DispatchInv, TypeOK, Loses, Reasons
<1>7. EndsAreKept' /\ RunningIsExplained'
    BY <1>1, LossExcuses DEF DispatchInv, EndsAreKept, RunningIsExplained, Excused
<1>. QED
    BY <1>3, <1>4, <1>6, <1>7 DEF DispatchInv

LEMMA ConnectKeeps ==
    ASSUME DispatchInv, NEW n \in Nodes, Connect(n)
    PROVE  DispatchInv'
<1>1. ready' = ready \cup {n} /\ UNCHANGED <<row, events, states, run, calls, losses, reasons>>
    BY DEF Connect
<1>2. OneHome' /\ CallsAreServed'
    BY <1>1, StaysHome
<1>3. TypeOK' /\ EndsAreKept' /\ RunningIsExplained'
    BY <1>1 DEF DispatchInv, TypeOK, EndsAreKept, RunningIsExplained
<1>. QED
    BY <1>2, <1>3 DEF DispatchInv

\* An event is about an execution that was served.
LEMMA ConsumeEventKeeps ==
    ASSUME DispatchInv, NEW s \in Terminal, ConsumeEvent(s)
    PROVE  DispatchInv'
<1>1. /\ s \in events /\ events' = events \ {s}
      /\ \/ row' = [row EXCEPT !.status = s, !.node = NoNode] /\ NothingLost
         \/ Loses /\ UNCHANGED row
      /\ UNCHANGED <<ready, states, run, calls>>
    BY DEF ConsumeEvent
<1>2. s \notin {NONE, RUNNING, FAILED_RETRYABLE, FAILED_RESCHEDULED}
    BY DEF Terminal, SUCCESS, FAILED, NONE, RUNNING, FAILED_RETRYABLE, FAILED_RESCHEDULED
<1>3. /\ row' \in Row /\ row'.node \in {NoNode, row.node} /\ row'.retryCount = row.retryCount
      /\ row' = row \/ row'.status = s
    BY <1>1 DEF DispatchInv, TypeOK, Row
<1>4. /\ losses' \in 0..MaxLosses /\ reasons' \subseteq Reasons
      /\ row'.status = s \/ Excused'
    <2>1. CASE row' = [row EXCEPT !.status = s, !.node = NoNode] /\ NothingLost
        BY <2>1 DEF DispatchInv, TypeOK, Row, NothingLost
    <2>2. CASE Loses
        BY <2>2, LossExcuses, DispatchAssumption DEF DispatchInv, TypeOK, Loses, Reasons
    <2>. QED
        BY <1>1, <2>1, <2>2
<1>5. TypeOK'
    BY <1>1, <1>2, <1>3, <1>4 DEF DispatchInv, TypeOK
<1>6. OneHome'
    <2>1. ~NotServedYet
        BY <1>1 DEF NotServedYet
    <2>2. \A h \in Nodes : AtHome(h) => AtHome(h)'
        BY <1>1, <1>2, <1>3 DEF AtHome
    <2>. QED
        BY <1>2, <1>3, <2>1, <2>2 DEF DispatchInv, OneHome
<1>7. CallsAreServed' /\ EndsAreKept'
    BY <1>1 DEF DispatchInv, CallsAreServed, EndsAreKept
<1>8. RunningIsExplained'
    BY <1>2, <1>4 DEF RunningIsExplained, Excused
<1>. QED
    BY <1>5, <1>6, <1>7, <1>8 DEF DispatchInv

----------------------------------------------------------------------------
(* The theorems. *)

LEMMA StepInv == DispatchInv /\ [Next]_vars => DispatchInv'
<1>. SUFFICES ASSUME DispatchInv, [Next]_vars PROVE DispatchInv'
    OBVIOUS
<1>1. ASSUME NEW i \in Slots, Run(i) \/ Retry(i) \/ Reschedule(i) \/ Interrupt(i) PROVE DispatchInv'
    BY <1>1, RunKeeps, RetryKeeps, RescheduleKeeps, InterruptKeeps
<1>2. ASSUME NEW i \in Slots, Serve(i) \/ Marshal(i) \/ Return(i) \/ CallFails(i) PROVE DispatchInv'
    BY <1>2, ServeKeeps, MarshalKeeps, ReturnKeeps, CallFailsKeeps
<1>3. ASSUME NEW n \in Nodes,
             \/ HandlerReturns(n) \/ ReportFinal(n)
             \/ Connect(n) \/ Disconnect(n) \/ Die(n)
      PROVE  DispatchInv'
    BY <1>3, HandlerReturnsKeeps, ReportFinalKeeps, ConnectKeeps, DisconnectKeeps, DieKeeps
<1>4. ASSUME NEW s \in Terminal, ConsumeEvent(s) PROVE DispatchInv'
    BY <1>4, ConsumeEventKeeps
<1>5. CASE UNCHANGED vars
    <2>1. TypeOK' /\ EndsAreKept' /\ RunningIsExplained'
        BY <1>5 DEF vars, DispatchInv, TypeOK, EndsAreKept, RunningIsExplained
    <2>2. OneHome' /\ CallsAreServed'
        BY <1>5, StaysHome DEF vars
    <2>. QED
        BY <2>1, <2>2 DEF DispatchInv
<1>. QED
    BY <1>1, <1>2, <1>3, <1>4, <1>5 DEF Next

\* The inductive invariant holds in every behaviour of an execution between
\* schedulers and executors.
THEOREM DispatchInvariant == Spec => []DispatchInv
BY InitInv, StepInv, PTL DEF Spec

\* The record names the node that spoke last, and a handler runs only where the
\* executor's map says so.
THEOREM DispatchTypeCorrect == Spec => []TypeOK
<1>1. DispatchInv => TypeOK
    BY DEF DispatchInv
<1>. QED
    BY <1>1, DispatchInvariant, PTL

\* Whatever is lost, late or restarted, two executors have the execution only
\* after a retry: rescheduling and interrupts never take it to another one.
THEOREM SecondNodeNeedsRetry == Spec => []SecondNodeIsRetry
<1>1. DispatchInv => SecondNodeIsRetry
    <2>. SUFFICES ASSUME DispatchInv, row.retryCount = 0, NEW m \in Nodes, NEW n \in Nodes,
                         states[m] # NONE, states[n] # NONE
                  PROVE  m = n
        BY DEF SecondNodeIsRetry, DispatchInv, TypeOK, Row
    <2>. QED
        BY DEF DispatchInv, OneHome, NotServedYet, AtHome
<1>. QED
    BY <1>1, DispatchInvariant, PTL

\* A record that says RUNNING is right, is about to change, or there is one of
\* three named reasons why it will not.
THEOREM RunningHasReason == Spec => []RunningIsExplained
<1>1. DispatchInv => RunningIsExplained
    BY DEF DispatchInv
<1>. QED
    BY <1>1, DispatchInvariant, PTL
=============================================================================
