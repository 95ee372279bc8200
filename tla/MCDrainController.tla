-------------------------- MODULE MCDrainController --------------------------
(* Instances of DrainController: pools as records keyed by name.           *)
EXTENDS DrainController, TLC

CONSTANTS n1, n2, n3, p1, p2, p3

IntMax(k) == [type |-> "int", val |-> k]
Percent(k) == [type |-> "percent", val |-> k]
NoMax == [type |-> "nil", val |-> 0]

OnePoolNodes == p1 :> {n1, n2}
OnePoolMax == p1 :> IntMax(1)
(* Three nodes of a pool whose percentage rounds down to one of them; n3   *)
(* is also in a pool without a limit; the third pool configures hardware   *)
(* offload and does not count.                                             *)
NestedPoolNodes == p1 :> {n1, n2, n3} @@ p2 :> {n3} @@ p3 :> {n1, n3}
NestedPoolMax == p1 :> Percent(60) @@ p2 :> NoMax @@ p3 :> IntMax(0)

SteadyInit == ProtocolSteady /\ ControllerInit /\ faults = 0

(* The controller never reads the value of desired-state once it exists.   *)
SteadyNext ==
    \/ ControllerNext
    \/ \E n \in Node, v \in DaemonValue : DaemonAnnotatesNode(n, v)
SteadySpec == SteadyInit /\ [][SteadyNext]_vars

Sym == Permutations({n1, n2})
=============================================================================
