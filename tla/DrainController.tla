--------------------------- MODULE DrainController ---------------------------
(***************************************************************************)
(* The drain controller of the operator: one reconcile at a time per node, *)
(* any number of nodes at once (the work queue serialises a key), every    *)
(* API call a step of its own.  A reconcile decides on what it read at its *)
(* start (rNode and the branch taken in GetNodeState), however late it     *)
(* acts on it.  Any call may fail, which ends the reconcile and requeues   *)
(* the node; the operator may restart at any point.                        *)
(*                                                                         *)
(* The specification of this module leaves the daemons free to write any   *)
(* request at any time; DrainSystem puts the real daemons in their place.  *)
(***************************************************************************)
EXTENDS DrainProtocol

CONSTANTS
    NoNode,      \* holder of drainCheckMutex when it is free
    MaxFaults,   \* bound on failed calls and restarts
    DaemonValue  \* annotation values the daemons write

ASSUME ControllerAssumption ==
    /\ NoNode \notin Node
    /\ MaxFaults \in Nat
    /\ DaemonValue \subseteq Request \cup {"Idle"}

VARIABLES
    pc,      \* next call of the node's reconcile, "idle" when there is none
    dirty,   \* the node's key is in the work queue
    rNode,   \* the Node's annotation as the reconcile read it
    mutex,   \* holder of drainCheckMutex
    toScan,  \* tryDrainNode: nodes of the pool still to be read
    count,   \* tryDrainNode: draining nodes seen so far
    own,     \* tryDrainNode: current-state of the requested node as read
    faults   \* failures so far

ctrlVars == <<pc, dirty, rNode, mutex, toScan, count, own>>
vars == <<protocolVars, ctrlVars, faults>>

PC == {"idle", "getState", "ensureCurrent", "ensureDesired", "ensureNode",
       "condInit", "condIdle", "lock", "scan", "condPending", "condDraining",
       "beforeDrain", "cordon", "evict", "condErrors", "condComplete",
       "annotateComplete", "uncordon", "afterDrain", "annotateIdle"}

TypeOK ==
    /\ ProtocolTypeOK
    /\ pc \in [Node -> PC]
    /\ dirty \in [Node -> BOOLEAN]
    /\ rNode \in [Node -> NodeAnnoValue]
    /\ mutex \in Node \cup {NoNode}
    /\ toScan \in SUBSET Node
    /\ count \in Nat
    /\ own \in CurrentValue
    /\ faults \in 0..MaxFaults

ControllerInit ==
    /\ pc = [n \in Node |-> "idle"]
    /\ dirty = [n \in Node |-> TRUE]
    /\ rNode = [n \in Node |-> "none"]
    /\ mutex = NoNode
    /\ toScan = {}
    /\ count = 0
    /\ own = "none"

Init == ProtocolInit /\ ControllerInit /\ faults = 0

Goto(n, label) == pc' = [pc EXCEPT ![n] = label]
Enqueue(n) == dirty' = [dirty EXCEPT ![n] = TRUE]
Return(n) == Goto(n, "idle") /\ rNode' = [rNode EXCEPT ![n] = "none"]
Requeue(n) == Return(n) /\ Enqueue(n)
Unlock == mutex' = NoNode /\ toScan' = {} /\ count' = 0 /\ own' = "none"

-----------------------------------------------------------------------------
(* Reconcile takes the node from the queue and reads the Node.             *)
StartReconcile(n) ==
    /\ pc[n] = "idle" /\ dirty[n]
    /\ dirty' = [dirty EXCEPT ![n] = FALSE]
    /\ rNode' = [rNode EXCEPT ![n] = nodeAnno[n]]
    /\ Goto(n, "getState")
    /\ UNCHANGED <<protocolVars, mutex, toScan, count, own, faults>>

(* What a reconcile that read these annotations does next.  A node that is *)
(* still Draining although its condition says that the drain completed     *)
(* only gets its annotation repaired.                                      *)
\* a slip: the repair also runs for a node that is not Draining
HandlerTrustsCondition(node, cur, completed) ==
    CASE node = "Idle" -> IF cur = "Idle" THEN "condIdle" ELSE "uncordon"
      [] node \in Request /\ cur = "DrainComplete" -> "idle"
      [] node \in Request /\ cur # "DrainComplete" /\ completed -> "annotateComplete"
      [] node \in Request /\ cur = "Idle" /\ ~completed -> "lock"
      [] node \in Request /\ cur = "Draining" /\ ~completed -> "beforeDrain"
Handler(node, cur, completed) ==
    CASE node = "Idle" /\ cur = "Idle" -> "condIdle"
      [] node = "Idle" /\ cur \in Busy -> "uncordon"
      [] node \in Request /\ cur = "DrainComplete" -> "idle"
      [] node \in Request /\ cur = "Idle" -> "lock"
      [] node \in Request /\ cur = "Draining" /\ completed -> "annotateComplete"
      [] node \in Request /\ cur = "Draining" /\ ~completed -> "beforeDrain"

NextCall(n) ==
    CASE current[n] = "none" -> "ensureCurrent"
      [] current[n] # "none" /\ desired[n] = "none" -> "ensureDesired"
      [] current[n] # "none" /\ desired[n] # "none" /\ rNode[n] = "none" -> "ensureNode"
      [] OTHER -> Handler(rNode[n], current[n], cond[n] = "Complete")

GetNodeState(n) ==
    /\ pc[n] = "getState"
    /\ IF NextCall(n) = "idle" THEN Return(n)
       ELSE Goto(n, NextCall(n)) /\ UNCHANGED rNode
    /\ UNCHANGED <<protocolVars, dirty, mutex, toScan, count, own, faults>>

(* ensureAnnotationExists, in this order for current-state, desired-state  *)
(* and the Node.  The Node is patched to Idle when it had no annotation at *)
(* the start of the reconcile, whatever it has now.                        *)
EnsureCurrent(n) ==
    /\ pc[n] = "ensureCurrent"
    /\ current' = [current EXCEPT ![n] = "Idle"]
    /\ Enqueue(n)
    /\ Goto(n, "ensureDesired")
    /\ UNCHANGED <<nodeAnno, desired, cond, cordoned, pods,
                   rNode, mutex, toScan, count, own, faults>>

EnsureDesired(n) ==
    /\ pc[n] = "ensureDesired"
    /\ desired' = [desired EXCEPT ![n] = IF @ = "none" THEN "Idle" ELSE @]
    /\ Goto(n, "ensureNode")
    /\ UNCHANGED <<nodeAnno, current, cond, cordoned, pods,
                   dirty, rNode, mutex, toScan, count, own, faults>>

EnsureNode(n) ==
    /\ pc[n] = "ensureNode"
    /\ IF rNode[n] = "none"
       THEN /\ nodeAnno' = [nodeAnno EXCEPT ![n] = "Idle"]
            /\ Enqueue(n)
       ELSE UNCHANGED <<nodeAnno, dirty>>
    /\ Goto(n, "condInit")
    /\ UNCHANGED <<desired, current, cond, cordoned, pods,
                   rNode, mutex, toScan, count, own, faults>>

(* The condition becomes Idle after the annotations were created (then the *)
(* request is requeued), when node and state are both Idle, and at the end *)
(* of an un-drain.                                                         *)
UpdateCondIdle(n) ==
    /\ pc[n] \in {"condInit", "condIdle"}
    /\ cond' = [cond EXCEPT ![n] = "Idle"]
    /\ dirty' = [dirty EXCEPT ![n] = @ \/ pc[n] = "condInit"]
    /\ Return(n)
    /\ UNCHANGED <<nodeAnno, desired, current, cordoned, pods,
                   mutex, toScan, count, own, faults>>

-----------------------------------------------------------------------------
(* tryDrainNode: under drainCheckMutex the controller reads the NodeStates *)
(* of the pool one by one and counts the ones that are draining.           *)
\* a slip: tryDrainNode without its mutex
LockWithoutMutex(n) ==
    /\ pc[n] = "lock" /\ ~PoolError(n)
    /\ mutex' = n
    /\ toScan' = PoolMembers(n)
    /\ Goto(n, "scan")
    /\ UNCHANGED <<protocolVars, dirty, rNode, count, own, faults>>

Lock(n) ==
    /\ pc[n] = "lock" /\ mutex = NoNode /\ ~PoolError(n)
    /\ mutex' = n
    /\ toScan' = PoolMembers(n)
    /\ Goto(n, "scan")
    /\ UNCHANGED <<protocolVars, dirty, rNode, count, own, faults>>

PoolNotFound(n) ==
    /\ pc[n] = "lock" /\ mutex = NoNode /\ PoolError(n)
    /\ Requeue(n)
    /\ UNCHANGED <<protocolVars, mutex, toScan, count, own, faults>>

\* a slip: only Draining nodes are counted
ScanForgetsComplete(n, m) ==
    /\ pc[n] = "scan" /\ m \in toScan
    /\ toScan' = toScan \ {m}
    /\ count' = IF current[m] = "Draining" THEN count + 1 ELSE count
    /\ own' = IF m = n THEN current[m] ELSE own
    /\ UNCHANGED <<protocolVars, pc, dirty, rNode, mutex, faults>>

Scan(n, m) ==
    /\ pc[n] = "scan" /\ m \in toScan
    /\ toScan' = toScan \ {m}
    /\ count' = IF current[m] \in Busy THEN count + 1 ELSE count
    /\ own' = IF m = n THEN current[m] ELSE own
    /\ UNCHANGED <<protocolVars, pc, dirty, rNode, mutex, faults>>

\* a slip: <= for <
SlotAvailableOffByOne(n) == PoolLimit(n) = -1 \/ count <= PoolLimit(n)
SlotAvailable(n) == PoolLimit(n) = -1 \/ count < PoolLimit(n)

(* With the count at hand: go on if the node turned out to be draining     *)
(* already, wait if the pool is at its limit, else take a slot by writing  *)
(* Draining.  The mutex is held until the condition is written too.        *)
DecideSlot(n) ==
    /\ pc[n] = "scan" /\ toScan = {}
    /\ IF own \in Busy
       THEN Unlock /\ Goto(n, "beforeDrain") /\ UNCHANGED <<current, dirty>>
       ELSE /\ IF SlotAvailable(n)
               THEN /\ current' = [current EXCEPT ![n] = "Draining"]
                    /\ Enqueue(n)
                    /\ Goto(n, "condDraining")
               ELSE Goto(n, "condPending") /\ UNCHANGED <<current, dirty>>
            /\ UNCHANGED <<mutex, toScan, count, own>>
    /\ UNCHANGED <<nodeAnno, desired, cond, cordoned, pods, rNode, faults>>

UpdateCondPending(n) ==
    /\ pc[n] = "condPending"
    /\ cond' = [cond EXCEPT ![n] = "Pending"]
    /\ Unlock
    /\ Requeue(n)
    /\ UNCHANGED <<nodeAnno, desired, current, cordoned, pods, faults>>

UpdateCondDraining(n) ==
    /\ pc[n] = "condDraining"
    /\ cond' = [cond EXCEPT ![n] = "Draining"]
    /\ Unlock
    /\ Goto(n, "beforeDrain")
    /\ UNCHANGED <<nodeAnno, desired, current, cordoned, pods,
                   dirty, rNode, faults>>

-----------------------------------------------------------------------------
(* DrainNode.  A full drain is for a reboot; on a cluster of one node it   *)
(* is skipped altogether.                                                  *)
FullNodeDrain(n) == rNode[n] = "Reboot_Required"
SingleNode == Cardinality(Node) = 1

BeforeDrainNode(n) ==
    /\ pc[n] = "beforeDrain"
    /\ Goto(n, IF FullNodeDrain(n) /\ SingleNode THEN "condComplete" ELSE "cordon")
    /\ UNCHANGED <<protocolVars, dirty, rNode, mutex, toScan, count, own, faults>>

(* The orchestrator is not ready: try again later.                         *)
\* a slip: no requeue when the orchestrator is not ready
BeforeDrainNodeGivesUp(n) ==
    /\ pc[n] = "beforeDrain"
    /\ Return(n)
    /\ UNCHANGED <<protocolVars, dirty, mutex, toScan, count, own, faults>>

BeforeDrainNodeNotReady(n) ==
    /\ pc[n] = "beforeDrain"
    /\ Requeue(n)
    /\ UNCHANGED <<protocolVars, mutex, toScan, count, own, faults>>

Cordon(n) ==
    /\ pc[n] = "cordon"
    /\ cordoned' = [cordoned EXCEPT ![n] = TRUE]
    /\ Goto(n, "evict")
    /\ UNCHANGED <<nodeAnno, desired, current, cond, pods,
                   dirty, rNode, mutex, toScan, count, own, faults>>

(* createDrainHelper: a partial drain only removes pods with SR-IOV        *)
(* resources.                                                              *)
PodsToEvict(n) ==
    IF FullNodeDrain(n) THEN pods[n] ELSE pods[n] \cap {"sriov"}

EvictPod(n, p) ==
    /\ pc[n] = "evict" /\ p \in PodsToEvict(n)
    /\ pods' = [pods EXCEPT ![n] = @ \ {p}]
    /\ UNCHANGED <<nodeAnno, desired, current, cond, cordoned, ctrlVars, faults>>

(* onDrainError while an eviction is being retried.                        *)
EvictionRetried(n) ==
    /\ pc[n] = "evict" /\ PodsToEvict(n) # {}
    /\ cond' = [cond EXCEPT ![n] = "DrainingWithErrors"]
    /\ UNCHANGED <<nodeAnno, desired, current, cordoned, pods, ctrlVars, faults>>

\* a slip: the drain ends with pods left
DrainedTooEarly(n) ==
    /\ pc[n] = "evict"
    /\ Goto(n, "condComplete")
    /\ UNCHANGED <<protocolVars, dirty, rNode, mutex, toScan, count, own, faults>>
Drained(n) ==
    /\ pc[n] = "evict" /\ PodsToEvict(n) = {}
    /\ Goto(n, "condComplete")
    /\ UNCHANGED <<protocolVars, dirty, rNode, mutex, toScan, count, own, faults>>

(* An error of the orchestrator, the cordon or the evictions.              *)
DrainNodeFails(n) ==
    /\ pc[n] \in {"beforeDrain", "cordon", "evict"}
    /\ faults < MaxFaults /\ faults' = faults + 1
    /\ Goto(n, "condErrors")
    /\ UNCHANGED <<protocolVars, dirty, rNode, mutex, toScan, count, own>>

UpdateCondErrors(n) ==
    /\ pc[n] = "condErrors"
    /\ cond' = [cond EXCEPT ![n] = "DrainingWithErrors"]
    /\ Requeue(n)
    /\ UNCHANGED <<nodeAnno, desired, current, cordoned, pods,
                   mutex, toScan, count, own, faults>>

(* The condition is written before the annotation.                         *)
UpdateCondComplete(n) ==
    /\ pc[n] = "condComplete"
    /\ cond' = [cond EXCEPT ![n] = "Complete"]
    /\ Goto(n, "annotateComplete")
    /\ UNCHANGED <<nodeAnno, desired, current, cordoned, pods,
                   dirty, rNode, mutex, toScan, count, own, faults>>

AnnotateComplete(n) ==
    /\ pc[n] = "annotateComplete"
    /\ current' = [current EXCEPT ![n] = "DrainComplete"]
    /\ Requeue(n)
    /\ UNCHANGED <<nodeAnno, desired, cond, cordoned, pods,
                   mutex, toScan, count, own, faults>>

-----------------------------------------------------------------------------
(* CompleteDrainNode and the way back to Idle.                             *)
Uncordon(n) ==
    /\ pc[n] = "uncordon"
    /\ cordoned' = [cordoned EXCEPT ![n] = FALSE]
    /\ Goto(n, "afterDrain")
    /\ UNCHANGED <<nodeAnno, desired, current, cond, pods,
                   dirty, rNode, mutex, toScan, count, own, faults>>

AfterCompleteDrainNode(n) ==
    /\ pc[n] = "afterDrain"
    /\ Goto(n, "annotateIdle")
    /\ UNCHANGED <<protocolVars, dirty, rNode, mutex, toScan, count, own, faults>>

\* a slip: no requeue when the orchestrator is not ready
AfterCompleteDrainNodeGivesUp(n) ==
    /\ pc[n] = "afterDrain"
    /\ Return(n)
    /\ UNCHANGED <<protocolVars, dirty, mutex, toScan, count, own, faults>>

AfterCompleteDrainNodeNotReady(n) ==
    /\ pc[n] = "afterDrain"
    /\ Requeue(n)
    /\ UNCHANGED <<protocolVars, mutex, toScan, count, own, faults>>

AnnotateIdle(n) ==
    /\ pc[n] = "annotateIdle"
    /\ current' = [current EXCEPT ![n] = "Idle"]
    /\ Enqueue(n)
    /\ Goto(n, "condIdle")
    /\ UNCHANGED <<nodeAnno, desired, cond, cordoned, pods,
                   rNode, mutex, toScan, count, own, faults>>

-----------------------------------------------------------------------------
(* A call fails: the reconcile returns the error, which requeues the key   *)
(* and, in tryDrainNode, releases the mutex.                               *)
ApiError(n) ==
    /\ pc[n] \notin {"idle", "lock", "beforeDrain", "cordon", "evict"}
    /\ faults < MaxFaults /\ faults' = faults + 1
    /\ Requeue(n)
    /\ IF mutex = n THEN Unlock ELSE UNCHANGED <<mutex, toScan, count, own>>
    /\ UNCHANGED protocolVars

(* The operator restarts: reconciles and the mutex are gone, the initial   *)
(* list enqueues every node.                                               *)
OperatorRestart ==
    /\ faults < MaxFaults /\ faults' = faults + 1
    /\ pc' = [n \in Node |-> "idle"]
    /\ dirty' = [n \in Node |-> TRUE]
    /\ rNode' = [n \in Node |-> "none"]
    /\ Unlock
    /\ UNCHANGED protocolVars

ReconcileStep(n) ==
    \/ StartReconcile(n) \/ GetNodeState(n)
    \/ EnsureCurrent(n) \/ EnsureDesired(n) \/ EnsureNode(n)
    \/ UpdateCondIdle(n)
    \/ Lock(n) \/ PoolNotFound(n) \/ (\E m \in Node : Scan(n, m)) \/ DecideSlot(n)
    \/ UpdateCondPending(n) \/ UpdateCondDraining(n)
    \/ BeforeDrainNode(n) \/ Cordon(n)
    \/ (\E p \in PodKind : EvictPod(n, p)) \/ Drained(n)
    \/ UpdateCondErrors(n) \/ UpdateCondComplete(n) \/ AnnotateComplete(n)
    \/ Uncordon(n) \/ AfterCompleteDrainNode(n) \/ AnnotateIdle(n)

(* What may but need not happen.                                           *)
ReconcileDelay(n) ==
    \/ BeforeDrainNodeNotReady(n) \/ AfterCompleteDrainNodeNotReady(n)
    \/ EvictionRetried(n) \/ DrainNodeFails(n) \/ ApiError(n)

ControllerNext ==
    \/ \E n \in Managed : ReconcileStep(n) \/ ReconcileDelay(n)
    \/ OperatorRestart

-----------------------------------------------------------------------------
(* Any daemon: once the controller created both annotations of the         *)
(* NodeState it may write any value on the Node and on the NodeState, in   *)
(* any order.                                                              *)
DaemonAnnotatesNode(n, v) ==
    /\ current[n] # "none" /\ desired[n] # "none" /\ nodeAnno[n] # v
    /\ nodeAnno' = [nodeAnno EXCEPT ![n] = v]
    /\ Enqueue(n)
    /\ UNCHANGED <<desired, current, cond, cordoned, pods,
                   pc, rNode, mutex, toScan, count, own, faults>>

DaemonAnnotatesState(n, v) ==
    /\ current[n] # "none" /\ desired[n] # "none" /\ desired[n] # v
    /\ desired' = [desired EXCEPT ![n] = v]
    /\ UNCHANGED <<nodeAnno, current, cond, cordoned, pods, ctrlVars, faults>>

Environment ==
    \E n \in Managed :
        \/ \E v \in DaemonValue :
              DaemonAnnotatesNode(n, v) \/ DaemonAnnotatesState(n, v)
        \/ \E p \in PodKind : SchedulePod(n, p) /\ UNCHANGED <<ctrlVars, faults>>

Next == ControllerNext \/ Environment

Spec == Init /\ [][Next]_vars

-----------------------------------------------------------------------------
DrainingIn(members) == {m \in members : current[m] \in Busy}

(* MaxParallelNodeConfiguration: of the nodes that share a pool, no more   *)
(* than its maxUnavailable are Draining or DrainComplete at any time,      *)
(* whatever fails and however the reconciles of tryDrainNode interleave.   *)
MaxUnavailableRespected ==
    \A n \in Node :
        \/ PoolError(n)
        \/ PoolLimit(n) = -1
        \/ Cardinality(DrainingIn(PoolMembers(n))) <= PoolLimit(n)

(* The controller implements DrainSlots: Draining and DrainComplete hold a *)
(* slot, and writing Draining takes it only while the live count of the    *)
(* pool, not merely the one tryDrainNode read, is below the limit.         *)
Slots == INSTANCE DrainSlots WITH
    busy <- DrainingIn(Node),
    Eligible <- {n \in Node : ~PoolError(n)},
    Members <- [n \in Node |-> PoolMembers(n)],
    Limit <- [n \in Node |-> PoolLimit(n)]
ImplementsSlots == Slots!SlotSpec

(* "Nodes matching multiple pools will not be drained": a node whose pool  *)
(* is ambiguous, or has an invalid maxUnavailable, never takes a slot.     *)
ConflictingNodesNotDrained ==
    \A n \in Node :
        InManyPools(n) \/ MaxUnavailableInvalid(PoolSpec(n)) =>
            current[n] \notin Busy /\ ~cordoned[n]

(* A node is never left cordoned behind a finished handshake: a node the   *)
(* controller cordoned is Draining or DrainComplete, so the un-drain of    *)
(* handleNodeIdleNodeStateDrainingOrCompleted still lies ahead of it.      *)
CordonedOnlyWhileBusy ==
    \A n \in Node : cordoned[n] => current[n] \in Busy

(* "this needs to be done before we annotate the node state with drain     *)
(* completed" (handleNodeDrainOrReboot): a NodeState that says             *)
(* DrainComplete has the DrainCompleted condition, through every retry.    *)
CompleteHasCondition ==
    \A n \in Node : current[n] = "DrainComplete" => cond[n] = "Complete"

(* drainCheckMutex is held by the one reconcile that is inside             *)
(* tryDrainNode, and by none when there is no such reconcile: no error     *)
(* path of tryDrainNode leaves it locked.                                  *)
InTryDrain(n) == pc[n] \in {"scan", "condPending", "condDraining"}
MutexHeldByTryDrain == \A n \in Node : InTryDrain(n) <=> mutex = n

(* The controller moves current-state only along the handshake: a drain is *)
(* never reported complete without having been announced, and a new drain  *)
(* never starts before the previous one was undone.                        *)
HandshakeEdges ==
    {<<"none", "Idle">>, <<"Idle", "Draining">>, <<"Draining", "DrainComplete">>,
     <<"Draining", "Idle">>, <<"DrainComplete", "Idle">>}
HandshakeStep ==
    \A n \in Node : current'[n] # current[n] => <<current[n], current'[n]>> \in HandshakeEdges
HandshakeOrder == [][HandshakeStep]_vars

-----------------------------------------------------------------------------
(* What a reconcile may rely on although it read the annotations long ago: *)
(* only the worker of a node moves its current-state, its condition and    *)
(* its cordon, so the branch taken in GetNodeState stays the right one.    *)
WhileIdle == {"ensureDesired", "ensureNode", "condInit", "condIdle", "lock",
              "scan", "condPending"}
WhileDraining == {"condDraining", "beforeDrain", "cordon", "evict",
                  "condErrors", "condComplete", "annotateComplete"}
WhileUndraining == {"uncordon", "afterDrain", "annotateIdle"}

WorkerInv(n) ==
    /\ pc[n] = "ensureCurrent" => current[n] = "none"
    /\ pc[n] \in WhileIdle => current[n] = "Idle"
    /\ pc[n] \in WhileDraining => current[n] = "Draining"
    /\ pc[n] \in WhileUndraining => current[n] \in Busy
    /\ pc[n] \in {"afterDrain", "annotateIdle"} => ~cordoned[n]
    /\ pc[n] = "annotateComplete" => cond[n] = "Complete"

(* Annotations are created before a node is ever drained, and the daemons  *)
(* and the controller only ever replace them.                              *)
AnnotationInv(n) ==
    /\ rNode[n] # "none" => nodeAnno[n] # "none"
    /\ current[n] \in Busy => nodeAnno[n] # "none" /\ desired[n] # "none"
    /\ pc[n] = "getState" /\ rNode[n] = "none" => current[n] \notin Busy
    /\ pc[n] \in {"lock", "scan"} => rNode[n] # "none" /\ desired[n] # "none"

(* What the state says of one node.                                        *)
LocalInv(n) ==
    /\ WorkerInv(n) /\ AnnotationInv(n)
    /\ cordoned[n] => current[n] \in Busy
    /\ current[n] = "DrainComplete" => cond[n] = "Complete"
    /\ InTryDrain(n) \/ current[n] \in Busy => ~PoolError(n)

(* The count of tryDrainNode is never below the number of busy nodes among *)
(* the ones it has read: while it reads, nodes of the pool may go back to  *)
(* Idle, but none can become busy without the mutex.                       *)
CountInv(n) ==
    pc[n] = "scan" =>
        /\ toScan \subseteq PoolMembers(n)
        /\ Cardinality(DrainingIn(PoolMembers(n) \ toScan)) <= count

(* The inductive strengthening of the safety properties above.             *)
HandshakeInv ==
    /\ \A n \in Node : LocalInv(n) /\ CountInv(n)
    /\ MutexHeldByTryDrain
    /\ own \notin Busy
    /\ MaxUnavailableRespected

=============================================================================
