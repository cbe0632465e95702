----------------------------- MODULE MCDiscovery -----------------------------
(* A server of the target service that starts twice, and one of a service    *)
(* whose name extends the target's.                                          *)
EXTENDS Discovery, TLC

CONSTANTS s1, s2, execute, execute_v2, anyhost, a1, a2, p1, p2

MCName == (s1 :> execute) @@ (s2 :> execute_v2)
MCListen == (s1 :> <<anyhost, p1>>) @@ (s2 :> <<a2, p2>>)
MCUnsetAll == [s \in Servers |-> Unset]
MCHostIP == (s1 :> a1) @@ (s2 :> Unset)
MCMaxStarts == (s1 :> 2) @@ (s2 :> 1)
MCStartsWith == {execute} \X {execute, execute_v2} \cup {<<execute_v2, execute_v2>>}
=============================================================================
