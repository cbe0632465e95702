---------------------------- MODULE RoutingPicker ----------------------------
(***************************************************************************)
(* The routing decision for one call: a node the context names, or any but *)
(* a node the context excludes.  The round robin among several candidates  *)
(* starts at an arbitrary place (a slice filled from a map) and its        *)
(* counter is shared by calls with different candidates, so that any       *)
(* candidate may be the next.                                              *)
(*                                                                         *)
(* Source: pkg/grpc/balancer/routing_picker.go, balancer/types.go.         *)
(***************************************************************************)
EXTENDS FiniteSets

CONSTANT NoNode   \* the empty node ID: nothing named, nothing excluded

\* WithSpecificNodeID and WithExcludedNodeID on a context; an empty ID leaves
\* the context as it is, and a name outweighs an exclusion.
AnyNode == [specific |-> NoNode, excluded |-> NoNode]

WithSpecificNodeID(ctx, node) == IF node = NoNode THEN ctx ELSE [ctx EXCEPT !.specific = node]

WithExcludedNodeID(ctx, node) == IF node = NoNode THEN ctx ELSE [ctx EXCEPT !.excluded = node]

\* Pick: the connections of ready it may return for a call under ctx, where
\* NodeOf[c] is the node of connection c.  The empty set stands for the error
\* Unavailable, which ends the call.
PickSpecific(ready, NodeOf, node) == {c \in ready : NodeOf[c] = node}

\* An exclusion that leaves nothing is ignored.
PickExcluding(ready, NodeOf, node) ==
    LET others == {c \in ready : NodeOf[c] # node}
    IN  IF others = {} THEN ready ELSE others

Pick(ready, NodeOf, ctx) ==
    IF ctx.specific # NoNode THEN PickSpecific(ready, NodeOf, ctx.specific)
    ELSE IF ctx.excluded # NoNode THEN PickExcluding(ready, NodeOf, ctx.excluded)
    ELSE ready
=============================================================================
