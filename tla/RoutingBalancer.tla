--------------------------- MODULE RoutingBalancer ---------------------------
(***************************************************************************)
(* The balancer of a client channel: it turns the address lists of the     *)
(* resolver into SubConns, follows their connectivity and publishes the    *)
(* picker that routes calls.                                               *)
(*                                                                         *)
(* Source: pkg/grpc/balancer/routing_balancer.go, routing_picker.go; the   *)
(* addresses come from pkg/grpc/resolver.go.  gRPC itself is external: it  *)
(* delivers address lists and state changes to the balancer one at a time  *)
(* in their order (callbacks), moves the real state of a SubConn, and      *)
(* consults the last picker for each call.                                 *)
(***************************************************************************)
EXTENDS Integers, SequencesExt, RoutingPicker

CONSTANTS
    Nodes,     \* executor nodes, one address each
    Calls,     \* slots for concurrent calls
    MaxLists,  \* bound: address lists
    MaxBreaks  \* bound: connections that break or cannot be made

ASSUME BalancerAssumption ==
    NoNode \notin Nodes /\ IsFiniteSet(Nodes) /\ {MaxLists, MaxBreaks} \subseteq Nat

ABSENT == "ABSENT"   \* no SubConn was made for the address
IDLE == "IDLE"
CONNECTING == "CONNECTING"
READY == "READY"
TRANSIENT_FAILURE == "TRANSIENT_FAILURE"
SHUTDOWN == "SHUTDOWN"

States == {ABSENT, IDLE, CONNECTING, READY, TRANSIENT_FAILURE, SHUTDOWN}

\* resolver.Address is compared as a Go value, and its attributes are a pointer
\* that every run of resolve allocates: here the number of the list.  So an
\* address has one SubConn at most, which goes by the name of the address.
Address == [node : Nodes, attributes : 1..MaxLists]

NodeOf == [a \in Address |-> a.node]

VARIABLES
    lists,     \* address lists handed over so far
    state,     \* the real state of the SubConn of each address
    subConns,  \* the keys of subConnMap, scToAddrMap and nodeIDMap
    readySCs,  \* the map of the ready SubConns
    picker,    \* the SubConns of the published picker, {} for the error picker
    callbacks, \* what gRPC has yet to tell the balancer
    call,      \* the calls
    breaks     \* connections that broke or could not be made

vars == <<lists, state, subConns, readySCs, picker, callbacks, call, breaks>>

Ctx == [specific : Nodes \cup {NoNode}, excluded : Nodes \cup {NoNode}]

Call == [phase : {"idle", "picking", "blocked", "sent", "failed"}, ctx : Ctx,
         node : Nodes \cup {NoNode}]

NoCall == [phase |-> "idle", ctx |-> AnyNode, node |-> NoNode]

ListCallback(addrs) == [kind |-> "list", addrs |-> addrs, to |-> ABSENT]
StateCallback(a, to) == [kind |-> "state", addrs |-> {a}, to |-> to]

Init ==
    /\ lists = 0 /\ breaks = 0
    /\ state = [a \in Address |-> ABSENT]
    /\ subConns = {} /\ readySCs = {}
    /\ picker = {}
    /\ callbacks = <<>>
    /\ call = [c \in Calls |-> NoCall]

----------------------------------------------------------------------------
(* gRPC, as far as the balancer sees it. *)

\* The resolver hands over a list, empty after an error of the registry.
ListArrives(nodes) ==
    /\ lists < MaxLists
    /\ lists' = lists + 1
    /\ callbacks' = Append(callbacks,
          ListCallback({[node |-> n, attributes |-> lists + 1] : n \in nodes}))
    /\ UNCHANGED <<state, subConns, readySCs, picker, call, breaks>>

\* A connection is made, cannot be made, or breaks.  A SubConn that is idle
\* stays so until somebody calls Connect.
Moves == {<<CONNECTING, READY>>, <<CONNECTING, TRANSIENT_FAILURE>>,
          <<READY, IDLE>>, <<TRANSIENT_FAILURE, IDLE>>}

ConnMoves(a, to) ==
    /\ <<state[a], to>> \in Moves
    /\ to = READY \/ breaks < MaxBreaks
    /\ breaks' = IF to = READY THEN breaks ELSE breaks + 1
    /\ state' = [state EXCEPT ![a] = to]
    /\ callbacks' = Append(callbacks, StateCallback(a, to))
    /\ UNCHANGED <<lists, subConns, readySCs, picker, call>>

----------------------------------------------------------------------------
(* The callbacks of the balancer. *)

Unblocked == [c \in Calls |-> IF call[c].phase = "blocked"
                              THEN [call[c] EXCEPT !.phase = "picking"] ELSE call[c]]

\* updatePicker; gRPC lets the waiting calls pick again.
UpdatePicker(ready) == picker' = ready /\ call' = Unblocked

Told == Head(callbacks)   \* what the balancer is being told

\* NewSubConn may fail for some of the addresses.
Creatable(addrs) ==
    {made \in SUBSET addrs : breaks + Cardinality(addrs \ made) <= MaxBreaks}

\* Mutant of UpdateClientConnState: what is not listed is forgotten but not
\* shut down.
UpdateClientConnStateKeeps ==
    /\ callbacks # <<>> /\ Told.kind = "list"
    /\ \E made \in Creatable(Told.addrs \ subConns) :
          /\ state' = [a \in Address |-> IF a \in made THEN CONNECTING ELSE state[a]]
          /\ subConns' = (subConns \cap Told.addrs) \cup made
          /\ breaks' = breaks + Cardinality((Told.addrs \ subConns) \ made)
    /\ callbacks' = Tail(callbacks)
    /\ UNCHANGED <<lists, readySCs, picker, call>>

\* Mutant of UpdateClientConnState: the error of NewSubConn is overlooked.
UpdateClientConnStateUnchecked ==
    /\ callbacks # <<>> /\ Told.kind = "list"
    /\ LET gone == subConns \ Told.addrs
       IN  \E made \in Creatable(Told.addrs \ subConns) :
              /\ state' = [a \in Address |-> IF a \in gone THEN SHUTDOWN
                                             ELSE IF a \in made THEN CONNECTING ELSE state[a]]
              /\ subConns' = Told.addrs
              /\ breaks' = breaks + Cardinality((Told.addrs \ subConns) \ made)
              /\ callbacks' = Tail(callbacks) \o
                    SetToSeq({StateCallback(a, SHUTDOWN) : a \in gone})
    /\ UNCHANGED <<lists, readySCs, picker, call>>

\* SubConns whose address is not listed are shut down and forgotten; each new
\* address gets one, which connects.  readySCs and the picker are left alone.
UpdateClientConnState ==
    /\ callbacks # <<>> /\ Told.kind = "list"
    /\ LET gone == subConns \ Told.addrs
       IN  \E made \in Creatable(Told.addrs \ subConns) :
              /\ state' = [a \in Address |-> IF a \in gone THEN SHUTDOWN
                                             ELSE IF a \in made THEN CONNECTING ELSE state[a]]
              /\ subConns' = (subConns \cap Told.addrs) \cup made
              /\ breaks' = breaks + Cardinality((Told.addrs \ subConns) \ made)
              /\ callbacks' = Tail(callbacks) \o
                    SetToSeq({StateCallback(a, SHUTDOWN) : a \in gone})
    /\ UNCHANGED <<lists, readySCs, picker, call>>

\* Mutant of UpdateSubConnState: a connection that breaks stays a candidate.
UpdateSubConnStateKeepsIdle ==
    /\ callbacks # <<>> /\ Told.kind = "state"
    /\ callbacks' = Tail(callbacks)
    /\ IF Told.addrs \cap subConns = {} THEN UNCHANGED <<subConns, readySCs, picker, call>>
       ELSE /\ readySCs' = CASE Told.to \in {READY, IDLE} -> readySCs \cup Told.addrs
                             [] OTHER -> readySCs \ Told.addrs
            /\ subConns' = IF Told.to = SHUTDOWN THEN subConns \ Told.addrs ELSE subConns
            /\ UpdatePicker(readySCs')
    /\ UNCHANGED <<lists, state, breaks>>

\* A SubConn that is no longer in scToAddrMap is ignored.  Nobody calls Connect
\* on one that became idle.
UpdateSubConnState ==
    /\ callbacks # <<>> /\ Told.kind = "state"
    /\ callbacks' = Tail(callbacks)
    /\ IF Told.addrs \cap subConns = {} THEN UNCHANGED <<subConns, readySCs, picker, call>>
       ELSE /\ readySCs' = IF Told.to = READY THEN readySCs \cup Told.addrs
                           ELSE readySCs \ Told.addrs
            /\ subConns' = IF Told.to = SHUTDOWN THEN subConns \ Told.addrs ELSE subConns
            /\ UpdatePicker(readySCs')
    /\ UNCHANGED <<lists, state, breaks>>

\* Close: an unused channel goes idle.  The next call builds a new balancer.
Close ==
    /\ subConns # {} /\ \A c \in Calls : call[c].phase = "idle"
    /\ state' = [a \in Address |-> IF a \in subConns THEN SHUTDOWN ELSE state[a]]
    /\ subConns' = {} /\ readySCs' = {} /\ picker' = {}
    /\ callbacks' = <<>>
    /\ UNCHANGED <<lists, call, breaks>>

----------------------------------------------------------------------------
(* The calls. *)

StartCall(c, ctx) ==
    /\ call[c].phase = "idle"
    /\ call' = [call EXCEPT ![c] = [phase |-> "picking", ctx |-> ctx, node |-> NoNode]]
    /\ UNCHANGED <<lists, state, subConns, readySCs, picker, callbacks, breaks>>

\* gRPC consults the picker.  Without a candidate, or with one that turns out
\* not to be connected, the call waits for the next picker; a named node that
\* is missing fails it.
PickFor(c) ==
    /\ call[c].phase = "picking"
    /\ LET found == Pick(picker, NodeOf, call[c].ctx)
       IN  \/ /\ picker = {}
              /\ call' = [call EXCEPT ![c].phase = "blocked"]
           \/ /\ picker # {} /\ found = {}
              /\ call' = [call EXCEPT ![c].phase = "failed"]
           \/ \E a \in found :
                 call' = [call EXCEPT ![c] =
                    IF state[a] = READY THEN [@ EXCEPT !.phase = "sent", !.node = a.node]
                    ELSE [@ EXCEPT !.phase = "blocked"]]
    /\ UNCHANGED <<lists, state, subConns, readySCs, picker, callbacks, breaks>>

\* The call ends, with an answer or by its deadline.
EndCall(c) ==
    /\ call[c].phase \in {"sent", "failed", "blocked"}
    /\ call' = [call EXCEPT ![c] = NoCall]
    /\ UNCHANGED <<lists, state, subConns, readySCs, picker, callbacks, breaks>>

----------------------------------------------------------------------------
Next ==
    \/ \E nodes \in SUBSET Nodes : ListArrives(nodes)
    \/ \E a \in Address, to \in States : ConnMoves(a, to)
    \/ UpdateClientConnState \/ UpdateSubConnState \/ Close
    \/ \E c \in Calls : \/ \E ctx \in Ctx : StartCall(c, ctx)
                        \/ PickFor(c) \/ EndCall(c)

Spec == Init /\ [][Next]_vars

----------------------------------------------------------------------------
(* Properties. *)

\* Type invariant; only SubConns that were created are tracked.
TypeOK ==
    /\ lists \in 0..MaxLists /\ breaks \in 0..MaxBreaks
    /\ state \in [Address -> States]
    /\ subConns \subseteq Address /\ readySCs \subseteq Address /\ picker \subseteq Address
    /\ \A a \in subConns \cup readySCs : state[a] # ABSENT
    /\ call \in [Calls -> Call]

\* Every SubConn that was not shut down is one the balancer still tracks, and a
\* node has one of them at most: no connection is leaked by a new list.
OneConnPerNode ==
    /\ \A a \in Address : state[a] \notin {ABSENT, SHUTDOWN} => a \in subConns
    /\ \A a, b \in subConns : a.node = b.node => a = b

\* Once every callback is delivered, the picker has every connection that is
\* up, and whatever else it has was shut down by a new list: no connection that
\* broke stays in it (those shut down do, see ReadySCsAreReady).
DeliveredPickerIsCurrent ==
    callbacks = <<>> =>
        {a \in picker : state[a] # SHUTDOWN} = {a \in Address : state[a] = READY}

\* routing_balancer.go: readySCs holds the SubConns that are READY, so that only
\* healthy ones are chosen, and UpdateSubConnState takes the removed ones out.
ReadySCsAreReady ==
    callbacks = <<>> => \A a \in readySCs : state[a] = READY

\* A new call never reaches a node that the list the balancer handled last
\* does not have, whatever the picker still offers.
RemovedIsNotCalled ==
    [][\A c \in Calls : call[c].phase = "picking" /\ call'[c].phase = "sent"
          => \E a \in subConns : a.node = call'[c].node]_vars
=============================================================================
