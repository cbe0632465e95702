---------------------------- MODULE MCTaskLease ----------------------------
(* Model values for TaskLease: a cron expression that fires every Period.  *)
EXTENDS TaskLease

CONSTANTS Period, Horizon

\* Fires at the multiples of Period, never after Horizon.
PeriodicCron ==
    [t \in Tasks |-> [now \in Instants |->
        LET tick == (now \div Period + 1) * Period
        IN  IF tick <= Horizon THEN tick ELSE 0]]

NoSkew == [n \in Nodes |-> 0]
=============================================================================
