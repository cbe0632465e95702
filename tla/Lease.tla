-------------------------------- MODULE Lease --------------------------------
(***************************************************************************)
(* What the lease on a task promises, whoever reads and writes the table   *)
(* in between: a task is granted only when it is due, to one node at a     *)
(* time, and is taken from a node only after it was silent for             *)
(* PreemptedTimeout; a retired task is never granted again.                *)
(*                                                                         *)
(* Source: the statements of internal/repository/dao/task.go, seen from    *)
(* outside: no versions, no snapshots, no consumers.                       *)
(***************************************************************************)
EXTENDS Integers

CONSTANTS
    Nodes,             \* scheduler processes
    Tasks,             \* tasks
    NoNode,            \* nobody holds the lease
    PreemptedTimeout,  \* silence after which a lease may be taken over
    MaxSkew            \* how far a node's clock may be ahead

VARIABLES
    clock,    \* true time
    holder,   \* holder[t]: the node t is leased to, or NoNode
    heard,    \* heard[t]: when the row of t was last written, as stamped
    due,      \* due[t]: next_time
    retired   \* tasks that are INACTIVE

leaseVars == <<clock, holder, heard, due, retired>>

LeaseInit ==
    /\ clock = 0
    /\ holder = [t \in Tasks |-> NoNode]
    /\ heard = [t \in Tasks |-> 0]
    /\ due \in [Tasks -> Nat]
    /\ retired = {}

\* A reading of the clock of some node.
Readings == clock..(clock + MaxSkew)

Touch(t) == \E s \in Readings : heard' = [heard EXCEPT ![t] = s]

Silent(t) == \E s \in Readings : heard[t] + PreemptedTimeout <= s

Grant(n, t) ==
    /\ t \notin retired
    /\ \E s \in Readings : due[t] <= s
    /\ holder[t] = NoNode \/ Silent(t)
    /\ holder' = [holder EXCEPT ![t] = n]
    /\ Touch(t)
    /\ UNCHANGED <<clock, due, retired>>

\* A node renews everything it holds at once.
RenewAll(n) ==
    /\ \E s \in Readings :
           heard' = [t \in Tasks |-> IF holder[t] = n THEN s ELSE heard[t]]
    /\ UNCHANGED <<clock, holder, due, retired>>

GiveBack(t) ==
    /\ holder[t] # NoNode
    /\ holder' = [holder EXCEPT ![t] = NoNode]
    /\ Touch(t)
    /\ UNCHANGED <<clock, due, retired>>

\* A completed run moves next_time, by the clock of the node that handles the
\* completion; whoever holds the lease keeps it.
MoveDue(t) ==
    /\ due' = [due EXCEPT ![t] = due'[t]] /\ due'[t] \in Nat
    /\ Touch(t)
    /\ UNCHANGED <<clock, holder, retired>>

Retire(t) ==
    /\ retired' = retired \cup {t}
    /\ holder' = [holder EXCEPT ![t] = NoNode]
    /\ Touch(t)
    /\ UNCHANGED <<clock, due>>

Tock == clock' = clock + 1 /\ UNCHANGED <<holder, heard, due, retired>>

LeaseNext ==
    \/ Tock
    \/ \E n \in Nodes : RenewAll(n) \/ \E t \in Tasks : Grant(n, t)
    \/ \E t \in Tasks : GiveBack(t) \/ MoveDue(t) \/ Retire(t)

LeaseSpec == LeaseInit /\ [][LeaseNext]_leaseVars
=============================================================================
