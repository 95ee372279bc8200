---------------------------- MODULE DrainProtocol ----------------------------
(***************************************************************************)
(* The state that the drain controller of the operator and the config      *)
(* daemon of every node share through the API server, and the operators    *)
(* on it that both use.                                                    *)
(*                                                                         *)
(* The two components never talk to each other directly.  They hand a node *)
(* back and forth with three annotations:                                  *)
(*   nodeAnno  Node                   sriovnetwork.openshift.io/state      *)
(*   desired   SriovNetworkNodeState  .../desired-state                    *)
(*   current   SriovNetworkNodeState  .../current-state                    *)
(* The daemon writes the first two, the controller the third; "none" is a  *)
(* missing annotation.  cond is the reason of the Draining condition of    *)
(* the SriovNetworkNodeState.  cordoned and pods are the node itself: its  *)
(* unschedulable flag and which kinds of workload pods run on it.          *)
(***************************************************************************)
EXTENDS Integers, FiniteSets

CONSTANTS
    Node,                \* nodes of the cluster
    Managed,             \* nodes with a SriovNetworkNodeState
    Pool,                \* SriovNetworkPoolConfig objects
    PoolNodes,           \* [Pool -> SUBSET Node], what nodeSelector matches
    PoolMaxUnavailable,  \* [Pool -> MaxUnavailableSpec]
    PoolOffload,         \* pools that carry an ovsHardwareOffloadConfig
    PodKind              \* kinds of workload pods, a subset of AllPodKinds

VARIABLES nodeAnno, desired, current, cond, cordoned, pods

protocolVars == <<nodeAnno, desired, current, cond, cordoned, pods>>

Request == {"Drain_Required", "Reboot_Required"}
Busy == {"Draining", "DrainComplete"}
NodeAnnoValue == {"none", "Idle"} \cup Request
CurrentValue == {"none", "Idle"} \cup Busy
DrainCondition ==
    {"none", "Idle", "Pending", "Draining", "DrainingWithErrors", "Complete"}

(* A pod either requests a resource of the operator's prefix or not.       *)
AllPodKinds == {"sriov", "other"}

(* spec.maxUnavailable: absent, an integer or a percentage.                *)
MaxUnavailableSpec == [type : {"nil", "int", "percent"}, val : Int]

ASSUME ProtocolAssumption ==
    /\ IsFiniteSet(Node)
    /\ Managed \subseteq Node
    /\ PoolNodes \in [Pool -> SUBSET Node]
    /\ PoolMaxUnavailable \in [Pool -> MaxUnavailableSpec]
    /\ PoolOffload \subseteq Pool
    /\ PodKind \subseteq AllPodKinds

ProtocolTypeOK ==
    /\ nodeAnno \in [Node -> NodeAnnoValue]
    /\ desired \in [Node -> NodeAnnoValue]
    /\ current \in [Node -> CurrentValue]
    /\ cond \in [Node -> DrainCondition]
    /\ cordoned \in [Node -> BOOLEAN]
    /\ pods \in [Node -> SUBSET PodKind]

(* A cluster in which the SriovNetworkNodeStates were just created: no     *)
(* drain annotation and no condition yet, workloads on the nodes.          *)
ProtocolInit ==
    /\ nodeAnno = [n \in Node |-> "none"]
    /\ desired = [n \in Node |-> "none"]
    /\ current = [n \in Node |-> "none"]
    /\ cond = [n \in Node |-> "none"]
    /\ cordoned = [n \in Node |-> FALSE]
    /\ pods = [n \in Node |-> PodKind]

(* The same cluster later, when every handshake is idle.                   *)
HandshakesIdle ==
    /\ nodeAnno = [n \in Node |-> "Idle"]
    /\ desired = [n \in Node |-> "Idle"]
    /\ current = [n \in Node |-> "Idle"]
    /\ cond = [n \in Node |-> "Idle"]
    /\ cordoned = [n \in Node |-> FALSE]
ProtocolSteady == HandshakesIdle /\ pods = [n \in Node |-> PodKind]

-----------------------------------------------------------------------------
(* MaxUnavailable: -1 is "no limit"; a percentage is rounded down.         *)
MaxUnavailableInvalid(spec) ==
    \/ spec.type = "percent" /\ spec.val \notin 1..100
    \/ spec.type = "int" /\ spec.val < 0

MaxUnavailable(spec, numOfNodes) ==
    CASE spec.type = "nil" -> -1
      [] spec.type = "int" -> spec.val
      [] spec.type = "percent" -> (spec.val * numOfNodes) \div 100

(* findNodePoolConfig: objects for hardware offload are skipped; a node in *)
(* more than one pool is an error; a node in none belongs to the default   *)
(* pool, which has the nodes of no pool and a maxUnavailable of one.       *)
DrainPools == Pool \ PoolOffload
SelectedPools(n) == {p \in DrainPools : n \in PoolNodes[p]}
InManyPools(n) == \E p, q \in SelectedPools(n) : p # q
NodesInPools == UNION {PoolNodes[p] : p \in DrainPools}
DefaultPoolConfig == [type |-> "int", val |-> 1]

PoolSpec(n) ==
    IF SelectedPools(n) = {} THEN DefaultPoolConfig
    ELSE PoolMaxUnavailable[CHOOSE p \in SelectedPools(n) : TRUE]

PoolMembers(n) ==
    IF SelectedPools(n) = {} THEN Node \ NodesInPools
    ELSE PoolNodes[CHOOSE p \in SelectedPools(n) : TRUE]

\* a slip: the first of several pools wins
PoolErrorFirstWins(n) == MaxUnavailableInvalid(PoolSpec(n))
PoolError(n) == InManyPools(n) \/ MaxUnavailableInvalid(PoolSpec(n))

PoolLimit(n) == MaxUnavailable(PoolSpec(n), Cardinality(PoolMembers(n)))

(* A pod is scheduled on a node that is not cordoned.                      *)
SchedulePod(n, p) ==
    /\ ~cordoned[n]
    /\ p \notin pods[n]
    /\ pods' = [pods EXCEPT ![n] = @ \cup {p}]
    /\ UNCHANGED <<nodeAnno, desired, current, cond, cordoned>>

=============================================================================
