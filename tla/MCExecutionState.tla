-------------------------- MODULE MCExecutionState --------------------------
(* Model values for ExecutionState: all sorts of states are reported for    *)
(* the executions of Eventful, and failures for the others, which compete   *)
(* with them for a place in the lists of the compensators.                  *)
EXTENDS ExecutionState, TLC

CONSTANT Eventful

Failures == {FAILED_RETRYABLE, FAILED_RESCHEDULED}

EventfulAndFailing ==
    [e \in Execs |-> IF e \in Eventful THEN {RUNNING, SUCCESS} \cup Failures ELSE Failures]

AllReports == [e \in Execs |-> Reportable]

CallSymmetry == Permutations(Calls)
=============================================================================
