------------------------ MODULE DrainControllerProof -------------------------
(***************************************************************************)
(* Proofs about DrainController, for any finite set of nodes, any pools,   *)
(* any bound on failures and daemons that write what they like.            *)
(***************************************************************************)
EXTENDS DrainController, FiniteSetTheorems, TLAPS

(* Most leaves are first-order: Zenon proves them, SMT those that cite it.  *)
USE Zenon

(* The members of a pool are nodes.                                        *)
LEMMA PoolMembersType ==
    ASSUME NEW n \in Node
    PROVE  PoolMembers(n) \subseteq Node
  <1>1. SelectedPools(n) # {} => (CHOOSE p \in SelectedPools(n) : TRUE) \in SelectedPools(n)
    OBVIOUS
  <1> QED  BY <1>1, ProtocolAssumption DEF PoolMembers, SelectedPools, DrainPools

(* Every step keeps the types.                                             *)
LEMMA TypeStep == TypeOK /\ [Next]_vars => TypeOK'
  <1> SUFFICES ASSUME TypeOK, [Next]_vars PROVE TypeOK'
    OBVIOUS
  <1> USE ControllerAssumption DEF TypeOK, ProtocolTypeOK, PC, NodeAnnoValue, CurrentValue,
        DrainCondition, Request, Busy, vars, protocolVars, ctrlVars, Goto, Enqueue,
        Return, Requeue, Unlock
  <1>1. ASSUME NEW n \in Node, StartReconcile(n) PROVE TypeOK'
    BY <1>1 DEF StartReconcile
  <1>2. ASSUME NEW n \in Node, GetNodeState(n) PROVE TypeOK'
    BY <1>2, SMT DEF GetNodeState, NextCall, Handler
  <1>3. ASSUME NEW n \in Node, EnsureCurrent(n) PROVE TypeOK'
    BY <1>3 DEF EnsureCurrent
  <1>4. ASSUME NEW n \in Node, EnsureDesired(n) PROVE TypeOK'
    BY <1>4 DEF EnsureDesired
  <1>5. ASSUME NEW n \in Node, EnsureNode(n) PROVE TypeOK'
    <2>1. CASE rNode[n] = "none"
      <3>1. nodeAnno' = [nodeAnno EXCEPT ![n] = "Idle"] /\ Enqueue(n)
        BY <1>5, <2>1 DEF EnsureNode
      <3>2. Goto(n, "condInit") /\ UNCHANGED <<desired, current, cond, cordoned, pods,
                rNode, mutex, toScan, count, own, faults>>
        BY <1>5 DEF EnsureNode
      <3> QED  BY <3>1, <3>2
    <2>2. CASE rNode[n] # "none"
      BY <1>5, <2>2, SMT DEF EnsureNode
    <2> QED  BY <2>1, <2>2
  <1>6. ASSUME NEW n \in Node, UpdateCondIdle(n) PROVE TypeOK'
    BY <1>6 DEF UpdateCondIdle
  <1>7. ASSUME NEW n \in Node, Lock(n) PROVE TypeOK'
    BY <1>7, PoolMembersType DEF Lock
  <1>8. ASSUME NEW n \in Node, DecideSlot(n) PROVE TypeOK'
    <2>1. CASE own \in Busy
      BY <1>8, <2>1, SMTT(30) DEF DecideSlot
    <2>2. CASE own \notin Busy /\ SlotAvailable(n)
      <3>1. /\ current' = [current EXCEPT ![n] = "Draining"]
            /\ Enqueue(n) /\ Goto(n, "condDraining")
            /\ UNCHANGED <<mutex, toScan, count, own>>
        BY <1>8, <2>2 DEF DecideSlot
      <3>2. UNCHANGED <<nodeAnno, desired, cond, cordoned, pods, rNode, faults>>
        BY <1>8 DEF DecideSlot
      <3> QED  BY <3>1, <3>2
    <2>3. CASE own \notin Busy /\ ~SlotAvailable(n)
      BY <1>8, <2>3, SMT DEF DecideSlot
    <2> QED  BY <2>1, <2>2, <2>3
  <1>9. ASSUME NEW n \in Node, UpdateCondPending(n) PROVE TypeOK'
    BY <1>9 DEF UpdateCondPending
  <1>10. ASSUME NEW n \in Node, UpdateCondDraining(n) PROVE TypeOK'
    BY <1>10 DEF UpdateCondDraining
  <1>11. ASSUME NEW n \in Node, BeforeDrainNode(n) PROVE TypeOK'
    BY <1>11 DEF BeforeDrainNode
  <1>12. ASSUME NEW n \in Node, Cordon(n) PROVE TypeOK'
    BY <1>12 DEF Cordon
  <1>13. ASSUME NEW n \in Node, Drained(n) PROVE TypeOK'
    BY <1>13 DEF Drained
  <1>14. ASSUME NEW n \in Node, UpdateCondErrors(n) PROVE TypeOK'
    BY <1>14 DEF UpdateCondErrors
  <1>15. ASSUME NEW n \in Node, UpdateCondComplete(n) PROVE TypeOK'
    BY <1>15 DEF UpdateCondComplete
  <1>16. ASSUME NEW n \in Node, AnnotateComplete(n) PROVE TypeOK'
    BY <1>16 DEF AnnotateComplete
  <1>17. ASSUME NEW n \in Node, Uncordon(n) PROVE TypeOK'
    BY <1>17 DEF Uncordon
  <1>18. ASSUME NEW n \in Node, AfterCompleteDrainNode(n) PROVE TypeOK'
    BY <1>18 DEF AfterCompleteDrainNode
  <1>19. ASSUME NEW n \in Node, AnnotateIdle(n) PROVE TypeOK'
    BY <1>19 DEF AnnotateIdle
  <1>20. ASSUME NEW n \in Node, BeforeDrainNodeNotReady(n) PROVE TypeOK'
    BY <1>20 DEF BeforeDrainNodeNotReady
  <1>21. ASSUME NEW n \in Node, AfterCompleteDrainNodeNotReady(n) PROVE TypeOK'
    BY <1>21 DEF AfterCompleteDrainNodeNotReady
  <1>22. ASSUME NEW n \in Node, EvictionRetried(n) PROVE TypeOK'
    BY <1>22 DEF EvictionRetried
  <1>23. ASSUME NEW n \in Node, DrainNodeFails(n) PROVE TypeOK'
    BY <1>23, SMTT(30) DEF DrainNodeFails
  <1>24. ASSUME NEW n \in Node, ApiError(n) PROVE TypeOK'
    BY <1>24, SMTT(30) DEF ApiError
  <1>25. ASSUME NEW n \in Node, NEW m \in Node, Scan(n, m) PROVE TypeOK'
    BY <1>25, SMTT(30) DEF Scan
  <1>26. ASSUME NEW n \in Node, NEW p \in PodKind, EvictPod(n, p) PROVE TypeOK'
    BY <1>26 DEF EvictPod
  <1>27. CASE OperatorRestart
    BY <1>27, SMT DEF OperatorRestart
  <1>28. CASE Environment
    <2>1. ASSUME NEW n \in Node, NEW v \in DaemonValue, DaemonAnnotatesNode(n, v) PROVE TypeOK'
      BY <2>1 DEF DaemonAnnotatesNode
    <2>2. ASSUME NEW n \in Node, NEW v \in DaemonValue, DaemonAnnotatesState(n, v) PROVE TypeOK'
      BY <2>2 DEF DaemonAnnotatesState
    <2>3. ASSUME NEW n \in Node, NEW p \in PodKind, SchedulePod(n, p),
                 UNCHANGED <<ctrlVars, faults>>
          PROVE TypeOK'
      BY <2>3, SMT DEF SchedulePod
    <2> QED  BY <1>28, <2>1, <2>2, <2>3, ProtocolAssumption DEF Environment
  <1>29. ASSUME NEW n \in Node, PoolNotFound(n) PROVE TypeOK'
    BY <1>29 DEF PoolNotFound
  <1>30. CASE UNCHANGED vars
    BY <1>30
  <1> QED
    BY <1>1, <1>2, <1>3, <1>4, <1>5, <1>6, <1>7, <1>8, <1>9, <1>10, <1>11, <1>12, <1>13, <1>14,
       <1>15, <1>16, <1>17, <1>18, <1>19, <1>20, <1>21, <1>22, <1>23, <1>24, <1>25, <1>26,
       <1>27, <1>28, <1>29, <1>30, ProtocolAssumption
    DEF Next, ControllerNext, ReconcileStep, ReconcileDelay

-----------------------------------------------------------------------------
(* What the state says of a node is not disturbed by steps that leave the  *)
(* variables of that node alone.                                           *)
LEMMA LocalFrame ==
    ASSUME NEW m \in Node, LocalInv(m),
           pc'[m] = pc[m], rNode'[m] = rNode[m], current'[m] = current[m],
           nodeAnno'[m] = nodeAnno[m], desired'[m] = desired[m],
           cond'[m] = cond[m], cordoned'[m] = cordoned[m]
    PROVE  LocalInv(m)'
  BY DEF LocalInv, WorkerInv, AnnotationInv, InTryDrain

(* A reconcile of one node leaves what belongs to another node alone.      *)
LEMMA OtherWorkers ==
    ASSUME TypeOK, NEW n \in Node, NEW m \in Node, m # n, ReconcileStep(n) \/ ReconcileDelay(n)
    PROVE  /\ pc'[m] = pc[m] /\ rNode'[m] = rNode[m] /\ current'[m] = current[m]
           /\ nodeAnno'[m] = nodeAnno[m] /\ desired'[m] = desired[m]
           /\ cond'[m] = cond[m] /\ cordoned'[m] = cordoned[m]
  BY ZenonT(30) DEF TypeOK, ProtocolTypeOK, protocolVars, ctrlVars, Goto, Return, Requeue,
     ReconcileStep, ReconcileDelay, StartReconcile, GetNodeState, EnsureCurrent,
     EnsureDesired, EnsureNode, UpdateCondIdle, Lock, PoolNotFound, Scan, DecideSlot,
     UpdateCondPending, UpdateCondDraining, BeforeDrainNode, Cordon, EvictPod, Drained,
     UpdateCondErrors, UpdateCondComplete, AnnotateComplete, Uncordon,
     AfterCompleteDrainNode, AnnotateIdle, BeforeDrainNodeNotReady,
     AfterCompleteDrainNodeNotReady, EvictionRetried, DrainNodeFails, ApiError

(* Every step of the worker of a node keeps what is said of it.            *)
LEMMA LocalStep ==
    ASSUME TypeOK, HandshakeInv, [Next]_vars, NEW m \in Node
    PROVE  LocalInv(m)'
  <1>0. LocalInv(m)
    BY DEF HandshakeInv
  <1> USE <1>0, ControllerAssumption DEF TypeOK, ProtocolTypeOK, vars, protocolVars, ctrlVars,
        Goto, Enqueue, Return, Requeue, Unlock, LocalInv, WorkerInv, AnnotationInv, InTryDrain,
        WhileIdle, WhileDraining, WhileUndraining, Busy, Request
  <1>1. CASE StartReconcile(m)
    BY <1>1 DEF StartReconcile
  <1>2. CASE GetNodeState(m)
    <2>1. UNCHANGED <<protocolVars, dirty, mutex, toScan, count, own, faults>> /\ pc[m] = "getState"
      BY <1>2 DEF GetNodeState
    <2>2. CASE NextCall(m) = "idle"
      <3>1. Return(m)
        BY <1>2, <2>2 DEF GetNodeState
      <3> QED  BY <2>1, <3>1
    <2>3. CASE NextCall(m) # "idle"
      <3>1. Goto(m, NextCall(m)) /\ UNCHANGED rNode
        BY <1>2, <2>3 DEF GetNodeState
      <3>2. CASE current[m] = "none"
        BY <2>1, <3>1, <3>2 DEF NextCall
      <3>3. CASE current[m] # "none" /\ desired[m] = "none"
        <4>1. NextCall(m) = "ensureDesired" /\ current[m] = "Idle"
          BY <3>3 DEF NextCall, CurrentValue
        <4> QED  BY <2>1, <3>1, <4>1
      <3>4. CASE current[m] # "none" /\ desired[m] # "none" /\ rNode[m] = "none"
        <4>1. NextCall(m) = "ensureNode" /\ current[m] = "Idle"
          BY <2>1, <3>4 DEF NextCall, CurrentValue
        <4> QED  BY <2>1, <3>1, <4>1
      <3>5. CASE current[m] # "none" /\ desired[m] # "none" /\ rNode[m] # "none"
        <4>1. NextCall(m) = Handler(rNode[m], current[m], cond[m] = "Complete")
          BY <3>5 DEF NextCall
        <4>2. CASE rNode[m] = "Idle"
          <5>1. \/ current[m] = "Idle" /\ NextCall(m) = "condIdle"
                \/ current[m] \in Busy /\ NextCall(m) = "uncordon"
            BY <3>5, <4>1, <4>2 DEF Handler, CurrentValue
          <5> QED  BY <2>1, <3>1, <5>1
        <4>3. CASE rNode[m] \in Request
          <5>1. CASE current[m] = "Idle"
            <6>1. NextCall(m) = "lock"
              BY <4>1, <4>3, <5>1 DEF Handler
            <6> QED  BY <2>1, <3>1, <3>5, <5>1, <6>1
          <5>2. CASE current[m] = "Draining" /\ cond[m] = "Complete"
            <6>1. NextCall(m) = "annotateComplete"
              BY <4>1, <4>3, <5>2 DEF Handler
            <6> QED  BY <2>1, <3>1, <5>2, <6>1
          <5>3. CASE current[m] = "Draining" /\ cond[m] # "Complete"
            <6>1. NextCall(m) = "beforeDrain"
              BY <4>1, <4>3, <5>3 DEF Handler
            <6> QED  BY <2>1, <3>1, <5>3, <6>1
          <5>4. current[m] # "DrainComplete"
            BY <2>3, <4>1, <4>3 DEF Handler
          <5> QED  BY <3>5, <5>1, <5>2, <5>3, <5>4 DEF CurrentValue
        <4> QED  BY <3>5, <4>2, <4>3 DEF NodeAnnoValue
      <3> QED  BY <3>2, <3>3, <3>4, <3>5
    <2> QED  BY <2>2, <2>3
  <1>3. CASE EnsureCurrent(m)
    BY <1>3 DEF EnsureCurrent
  <1>4. CASE EnsureDesired(m)
    BY <1>4 DEF EnsureDesired
  <1>5. CASE EnsureNode(m)
    BY <1>5 DEF EnsureNode
  <1>6. CASE UpdateCondIdle(m)
    BY <1>6 DEF UpdateCondIdle
  <1>7. CASE Lock(m)
    BY <1>7 DEF Lock
  <1>8. CASE DecideSlot(m)
    <2>1. own \notin Busy /\ pc[m] = "scan"
      BY <1>8 DEF HandshakeInv, DecideSlot
    <2>2. UNCHANGED <<nodeAnno, desired, cond, cordoned, rNode>>
      BY <1>8 DEF DecideSlot
    <2>3. CASE SlotAvailable(m)
      <3>1. current' = [current EXCEPT ![m] = "Draining"] /\ Goto(m, "condDraining")
        BY <1>8, <2>1, <2>3 DEF DecideSlot
      <3> QED  BY <2>1, <2>2, <3>1
    <2>4. CASE ~SlotAvailable(m)
      <3>1. Goto(m, "condPending") /\ UNCHANGED current
        BY <1>8, <2>1, <2>4 DEF DecideSlot
      <3> QED  BY <2>1, <2>2, <3>1
    <2> QED  BY <2>3, <2>4
  <1>9. CASE UpdateCondPending(m)
    BY <1>9 DEF UpdateCondPending
  <1>10. CASE UpdateCondDraining(m)
    BY <1>10 DEF UpdateCondDraining
  <1>11. CASE BeforeDrainNode(m)
    BY <1>11 DEF BeforeDrainNode
  <1>12. CASE Cordon(m)
    BY <1>12 DEF Cordon
  <1>13. CASE Drained(m)
    BY <1>13 DEF Drained
  <1>14. CASE UpdateCondErrors(m)
    BY <1>14 DEF UpdateCondErrors
  <1>15. CASE UpdateCondComplete(m)
    BY <1>15 DEF UpdateCondComplete
  <1>16. CASE AnnotateComplete(m)
    BY <1>16 DEF AnnotateComplete
  <1>17. CASE Uncordon(m)
    BY <1>17 DEF Uncordon
  <1>18. CASE AfterCompleteDrainNode(m)
    BY <1>18 DEF AfterCompleteDrainNode
  <1>19. CASE AnnotateIdle(m)
    BY <1>19 DEF AnnotateIdle
  <1>20. CASE BeforeDrainNodeNotReady(m)
    BY <1>20 DEF BeforeDrainNodeNotReady
  <1>21. CASE AfterCompleteDrainNodeNotReady(m)
    BY <1>21 DEF AfterCompleteDrainNodeNotReady
  <1>22. CASE EvictionRetried(m)
    BY <1>22 DEF EvictionRetried
  <1>23. CASE DrainNodeFails(m)
    BY <1>23 DEF DrainNodeFails
  <1>24. CASE ApiError(m)
    BY <1>24 DEF ApiError
  <1>25. CASE PoolNotFound(m)
    BY <1>25 DEF PoolNotFound
  <1>26. ASSUME NEW k \in Node, Scan(m, k) PROVE LocalInv(m)'
    BY <1>26 DEF Scan
  <1>27. ASSUME NEW p \in PodKind, EvictPod(m, p) PROVE LocalInv(m)'
    BY <1>27 DEF EvictPod
  <1>28. CASE OperatorRestart
    BY <1>28 DEF OperatorRestart
  <1>29. CASE Environment
    <2>1. ASSUME NEW n \in Node, NEW v \in DaemonValue,
                 DaemonAnnotatesNode(n, v) \/ DaemonAnnotatesState(n, v)
          PROVE LocalInv(m)'
      BY <2>1, SMTT(30) DEF DaemonAnnotatesNode, DaemonAnnotatesState
    <2>2. ASSUME NEW n \in Node, NEW p \in PodKind, SchedulePod(n, p),
                 UNCHANGED <<ctrlVars, faults>>
          PROVE LocalInv(m)'
      BY <2>2, LocalFrame DEF SchedulePod
    <2> QED  BY <1>29, <2>1, <2>2, ProtocolAssumption, ZenonT(60) DEF Environment
  <1>30. CASE UNCHANGED vars
    BY <1>30, LocalFrame
  <1>31. ASSUME NEW n \in Node, n # m, ReconcileStep(n) \/ ReconcileDelay(n)
         PROVE  LocalInv(m)'
    <2> HIDE DEF LocalInv
    <2> QED  BY <1>31, OtherWorkers, LocalFrame
  <1>32. CASE ReconcileStep(m) \/ ReconcileDelay(m)
    <2> HIDE DEF LocalInv
    <2> QED
      BY SMTT(30), <1>1, <1>2, <1>3, <1>4, <1>5, <1>6, <1>7, <1>8, <1>9, <1>10, <1>11, <1>12,
         <1>13, <1>14, <1>15, <1>16, <1>17, <1>18, <1>19, <1>20, <1>21, <1>22, <1>23,
         <1>24, <1>25, <1>26, <1>27, <1>32
      DEF ReconcileStep, ReconcileDelay
  <1> HIDE DEF LocalInv
  <1> QED
    BY <1>28, <1>29, <1>30, <1>31, <1>32, ProtocolAssumption DEF Next, ControllerNext

-----------------------------------------------------------------------------
(* Two nodes of one well-defined pool agree on its members and its limit.  *)
LEMMA PoolsAgree ==
    ASSUME NEW n \in Node, NEW m \in Node, ~PoolError(n), ~PoolError(m), m \in PoolMembers(n)
    PROVE  PoolMembers(m) = PoolMembers(n) /\ PoolLimit(m) = PoolLimit(n)
  <1>1. SelectedPools(m) = SelectedPools(n)
    <2>1. CASE SelectedPools(n) = {}
      BY <2>1 DEF PoolMembers, NodesInPools, SelectedPools
    <2>2. CASE SelectedPools(n) # {}
      <3>1. PICK p \in SelectedPools(n) : p = (CHOOSE q \in SelectedPools(n) : TRUE)
        BY <2>2
      <3>2. p \in SelectedPools(m)
        BY <2>2, <3>1 DEF PoolMembers, SelectedPools
      <3> QED  BY <3>1, <3>2, SMT DEF PoolError, InManyPools
    <2> QED  BY <2>1, <2>2
  <1> QED  BY <1>1, SMT DEF PoolMembers, PoolLimit, PoolSpec

(* A limit is an integer, and negative only when it is "no limit".         *)
LEMMA PoolLimitType ==
    ASSUME NEW n \in Node
    PROVE  PoolLimit(n) \in Int /\ (~PoolError(n) => PoolLimit(n) >= -1)
  <1>1. PoolSpec(n) \in MaxUnavailableSpec
    <2>1. SelectedPools(n) # {} => (CHOOSE p \in SelectedPools(n) : TRUE) \in SelectedPools(n)
      OBVIOUS
    <2> QED  BY <2>1, ProtocolAssumption, SMT
             DEF PoolSpec, SelectedPools, DrainPools, DefaultPoolConfig, MaxUnavailableSpec
  <1>2. Cardinality(PoolMembers(n)) \in Nat
    BY PoolMembersType, ProtocolAssumption, FS_Subset, FS_CardinalityType
  <1>3. ASSUME NEW spec \in MaxUnavailableSpec, NEW c \in Nat
        PROVE  /\ MaxUnavailable(spec, c) \in Int
               /\ ~MaxUnavailableInvalid(spec) => MaxUnavailable(spec, c) >= -1
    <2>1. spec.val \in Int /\ spec.type \in {"nil", "int", "percent"}
      BY DEF MaxUnavailableSpec
    <2>2. CASE spec.type = "nil"
      BY <2>2, SMT DEF MaxUnavailable
    <2>3. CASE spec.type = "int"
      BY <2>1, <2>3, SMT DEF MaxUnavailable, MaxUnavailableInvalid
    <2>4. CASE spec.type = "percent"
      <3>1. MaxUnavailable(spec, c) = (spec.val * c) \div 100
        BY <2>4 DEF MaxUnavailable
      <3>2. spec.val * c \in Int /\ (spec.val \in Nat => spec.val * c \in Nat)
        BY <2>1, SMT
      <3>3. \A x \in Int : x \div 100 \in Int /\ (x \in Nat => x \div 100 >= -1)
        BY SMT
      <3>4. ~MaxUnavailableInvalid(spec) => spec.val \in Nat
        BY <2>1, <2>4, SMT DEF MaxUnavailableInvalid
      <3> QED  BY <3>1, <3>2, <3>3, <3>4
    <2> QED  BY <2>1, <2>2, <2>3, <2>4
  <1> QED  BY <1>1, <1>2, <1>3 DEF PoolLimit, PoolError

(* drainCheckMutex belongs to the worker inside tryDrainNode after every   *)
(* step, error paths and restarts included.                                *)
LEMMA MutexStep ==
    ASSUME TypeOK, HandshakeInv, [Next]_vars
    PROVE  MutexHeldByTryDrain'
  <1>0. MutexHeldByTryDrain
    BY DEF HandshakeInv
  <1> USE ControllerAssumption DEF TypeOK, ProtocolTypeOK, vars, protocolVars, ctrlVars,
        Goto, Enqueue, Return, Requeue, Unlock, MutexHeldByTryDrain, InTryDrain
  <1>1. ASSUME NEW n \in Node, StartReconcile(n) PROVE MutexHeldByTryDrain'
    BY <1>0, <1>1 DEF StartReconcile
  <1>2. ASSUME NEW n \in Node, GetNodeState(n) PROVE MutexHeldByTryDrain'
    <2>1. NextCall(n) \notin {"scan", "condPending", "condDraining"}
      BY DEF NextCall, Handler, NodeAnnoValue, CurrentValue, Request, Busy
    <2>2. pc[n] = "getState" /\ UNCHANGED mutex
      BY <1>2 DEF GetNodeState
    <2>3. CASE NextCall(n) = "idle"
      BY <1>0, <1>2, <2>2, <2>3, SMTT(30) DEF GetNodeState
    <2>4. CASE NextCall(n) # "idle"
      <3>1. Goto(n, NextCall(n))
        BY <1>2, <2>4 DEF GetNodeState
      <3> QED  BY <1>0, <2>1, <2>2, <3>1
    <2> QED  BY <2>3, <2>4
  <1>3. ASSUME NEW n \in Node, EnsureCurrent(n) PROVE MutexHeldByTryDrain'
    BY <1>0, <1>3 DEF EnsureCurrent
  <1>4. ASSUME NEW n \in Node, EnsureDesired(n) PROVE MutexHeldByTryDrain'
    BY <1>0, <1>4 DEF EnsureDesired
  <1>5. ASSUME NEW n \in Node, EnsureNode(n) PROVE MutexHeldByTryDrain'
    BY <1>0, <1>5 DEF EnsureNode
  <1>6. ASSUME NEW n \in Node, UpdateCondIdle(n) PROVE MutexHeldByTryDrain'
    BY <1>0, <1>6 DEF UpdateCondIdle
  <1>7. ASSUME NEW n \in Node, Lock(n) PROVE MutexHeldByTryDrain'
    BY <1>0, <1>7 DEF Lock
  <1>8. ASSUME NEW n \in Node, DecideSlot(n) PROVE MutexHeldByTryDrain'
    BY <1>0, <1>8, SMT DEF DecideSlot
  <1>9. ASSUME NEW n \in Node, UpdateCondPending(n) PROVE MutexHeldByTryDrain'
    BY <1>0, <1>9 DEF UpdateCondPending
  <1>10. ASSUME NEW n \in Node, UpdateCondDraining(n) PROVE MutexHeldByTryDrain'
    BY <1>0, <1>10 DEF UpdateCondDraining
  <1>11. ASSUME NEW n \in Node, BeforeDrainNode(n) PROVE MutexHeldByTryDrain'
    BY <1>0, <1>11 DEF BeforeDrainNode
  <1>12. ASSUME NEW n \in Node, Cordon(n) PROVE MutexHeldByTryDrain'
    BY <1>0, <1>12 DEF Cordon
  <1>13. ASSUME NEW n \in Node, Drained(n) PROVE MutexHeldByTryDrain'
    BY <1>0, <1>13 DEF Drained
  <1>14. ASSUME NEW n \in Node, UpdateCondErrors(n) PROVE MutexHeldByTryDrain'
    BY <1>0, <1>14 DEF UpdateCondErrors
  <1>15. ASSUME NEW n \in Node, UpdateCondComplete(n) PROVE MutexHeldByTryDrain'
    BY <1>0, <1>15 DEF UpdateCondComplete
  <1>16. ASSUME NEW n \in Node, AnnotateComplete(n) PROVE MutexHeldByTryDrain'
    BY <1>0, <1>16 DEF AnnotateComplete
  <1>17. ASSUME NEW n \in Node, Uncordon(n) PROVE MutexHeldByTryDrain'
    BY <1>0, <1>17 DEF Uncordon
  <1>18. ASSUME NEW n \in Node, AfterCompleteDrainNode(n) PROVE MutexHeldByTryDrain'
    BY <1>0, <1>18 DEF AfterCompleteDrainNode
  <1>19. ASSUME NEW n \in Node, AnnotateIdle(n) PROVE MutexHeldByTryDrain'
    BY <1>0, <1>19 DEF AnnotateIdle
  <1>20. ASSUME NEW n \in Node, BeforeDrainNodeNotReady(n) PROVE MutexHeldByTryDrain'
    BY <1>0, <1>20 DEF BeforeDrainNodeNotReady
  <1>21. ASSUME NEW n \in Node, AfterCompleteDrainNodeNotReady(n) PROVE MutexHeldByTryDrain'
    BY <1>0, <1>21 DEF AfterCompleteDrainNodeNotReady
  <1>22. ASSUME NEW n \in Node, EvictionRetried(n) PROVE MutexHeldByTryDrain'
    BY <1>0, <1>22 DEF EvictionRetried
  <1>23. ASSUME NEW n \in Node, DrainNodeFails(n) PROVE MutexHeldByTryDrain'
    BY <1>0, <1>23 DEF DrainNodeFails
  <1>24. ASSUME NEW n \in Node, ApiError(n) PROVE MutexHeldByTryDrain'
    BY <1>0, <1>24, SMT DEF ApiError
  <1>25. ASSUME NEW n \in Node, PoolNotFound(n) PROVE MutexHeldByTryDrain'
    BY <1>0, <1>25 DEF PoolNotFound
  <1>26. ASSUME NEW n \in Node, NEW k \in Node, Scan(n, k) PROVE MutexHeldByTryDrain'
    BY <1>0, <1>26 DEF Scan
  <1>27. ASSUME NEW n \in Node, NEW p \in PodKind, EvictPod(n, p) PROVE MutexHeldByTryDrain'
    BY <1>0, <1>27 DEF EvictPod
  <1>28. CASE OperatorRestart
    BY <1>28 DEF OperatorRestart
  <1>29. CASE Environment
    BY <1>0, <1>29 DEF Environment, DaemonAnnotatesNode, DaemonAnnotatesState, SchedulePod
  <1>30. CASE UNCHANGED vars
    BY <1>0, <1>30
  <1> QED
    BY <1>1, <1>2, <1>3, <1>4, <1>5, <1>6, <1>7, <1>8, <1>9, <1>10, <1>11, <1>12, <1>13, <1>14,
       <1>15, <1>16, <1>17, <1>18, <1>19, <1>20, <1>21, <1>22, <1>23, <1>24, <1>25, <1>26,
       <1>27, <1>28, <1>29, <1>30, ProtocolAssumption
    DEF Next, ControllerNext, ReconcileStep, ReconcileDelay

-----------------------------------------------------------------------------
(* How a step may move current-state: one node, along the handshake.       *)
LEMMA CurrentMoves ==
    ASSUME TypeOK, HandshakeInv, [Next]_vars
    PROVE  \/ UNCHANGED current
           \/ \E n \in Node, v \in CurrentValue :
                 /\ current' = [current EXCEPT ![n] = v]
                 /\ <<current[n], v>> \in HandshakeEdges
                 /\ v = "Draining" => DecideSlot(n) /\ SlotAvailable(n)
  <1> DEFINE Moves == \E n \in Node, v \in CurrentValue :
                 /\ current' = [current EXCEPT ![n] = v]
                 /\ <<current[n], v>> \in HandshakeEdges
                 /\ v = "Draining" => DecideSlot(n) /\ SlotAvailable(n)
  <1> USE DEF HandshakeInv, LocalInv, WorkerInv, WhileIdle, WhileDraining,
        WhileUndraining, Busy, CurrentValue, HandshakeEdges
  <1>1. ASSUME NEW n \in Node, EnsureCurrent(n) PROVE Moves
    <2>1. current' = [current EXCEPT ![n] = "Idle"] /\ current[n] = "none"
      BY <1>1 DEF EnsureCurrent
    <2>2. "Idle" \in CurrentValue
      OBVIOUS
    <2> QED  BY <2>1, <2>2
  <1>2. ASSUME NEW n \in Node, AnnotateIdle(n) PROVE Moves
    <2>1. /\ current' = [current EXCEPT ![n] = "Idle"]
          /\ current[n] = "Draining" \/ current[n] = "DrainComplete"
      BY <1>2 DEF AnnotateIdle
    <2>2. "Idle" \in CurrentValue
      OBVIOUS
    <2> QED  BY <2>1, <2>2
  <1>3. ASSUME NEW n \in Node, AnnotateComplete(n) PROVE Moves
    <2>1. current' = [current EXCEPT ![n] = "DrainComplete"] /\ current[n] = "Draining"
      BY <1>3 DEF AnnotateComplete
    <2>2. "DrainComplete" \in CurrentValue
      OBVIOUS
    <2> QED  BY <2>1, <2>2
  <1>4. ASSUME NEW n \in Node, DecideSlot(n) PROVE Moves \/ UNCHANGED current
    <2>1. CASE SlotAvailable(n)
      <3>1. current' = [current EXCEPT ![n] = "Draining"] /\ current[n] = "Idle"
        BY <1>4, <2>1 DEF DecideSlot
      <3> QED  BY <1>4, <2>1, <3>1
    <2>2. CASE ~SlotAvailable(n)
      BY <1>4, <2>2 DEF DecideSlot
    <2> QED  BY <2>1, <2>2
  <1>5. ASSUME NEW n \in Node, ReconcileStep(n) \/ ReconcileDelay(n)
        PROVE  Moves \/ UNCHANGED current
    <2>1. \/ EnsureCurrent(n) \/ AnnotateIdle(n) \/ AnnotateComplete(n) \/ DecideSlot(n)
          \/ UNCHANGED current
      BY <1>5 DEF ReconcileStep, ReconcileDelay, StartReconcile, GetNodeState, EnsureDesired,
         EnsureNode, UpdateCondIdle, Lock, PoolNotFound, Scan, UpdateCondPending,
         UpdateCondDraining, BeforeDrainNode, Cordon, EvictPod, Drained, UpdateCondErrors,
         UpdateCondComplete, Uncordon, AfterCompleteDrainNode, BeforeDrainNodeNotReady,
         AfterCompleteDrainNodeNotReady, EvictionRetried, DrainNodeFails, ApiError, protocolVars
    <2> HIDE DEF Moves
    <2> QED  BY <1>1, <1>2, <1>3, <1>4, <2>1
  <1>6. CASE OperatorRestart \/ Environment \/ UNCHANGED vars
    BY <1>6 DEF OperatorRestart, Environment, DaemonAnnotatesNode, DaemonAnnotatesState,
       SchedulePod, vars, protocolVars
  <1> QED  BY <1>5, <1>6, ProtocolAssumption DEF Next, ControllerNext

(* Only tryDrainNode takes a slot: a step in which some node becomes       *)
(* Draining or DrainComplete is one of DecideSlot.                         *)
LEMMA NoNewBusy ==
    ASSUME TypeOK, HandshakeInv, [Next]_vars, ~\E n \in Node : DecideSlot(n),
           NEW m \in Node, current'[m] \in Busy
    PROVE  current[m] \in Busy
  BY CurrentMoves DEF HandshakeEdges, CurrentValue, Busy, TypeOK, ProtocolTypeOK

(* While a worker reads the NodeStates of its pool nobody else touches its *)
(* variables, nor can any worker take a slot.                              *)
LEMMA ScanFrame ==
    ASSUME TypeOK, HandshakeInv, [Next]_vars, NEW m \in Node, pc'[m] = "scan",
           ~Lock(m), ~\E k \in Node : Scan(m, k)
    PROVE  /\ pc[m] = "scan" /\ UNCHANGED <<toScan, count, own>>
           /\ ~\E n \in Node : DecideSlot(n)
  <1>0. MutexHeldByTryDrain
    BY DEF HandshakeInv
  <1> DEFINE Framed == /\ pc[m] = "scan" /\ UNCHANGED <<toScan, count, own>>
                       /\ mutex = m
  <1> USE ControllerAssumption DEF TypeOK, ProtocolTypeOK, vars, protocolVars, ctrlVars,
        Goto, Enqueue, Return, Requeue, Unlock, MutexHeldByTryDrain, InTryDrain
  <1>1. ASSUME NEW n \in Node, StartReconcile(n) PROVE Framed
    BY <1>0, <1>1 DEF StartReconcile
  <1>2. ASSUME NEW n \in Node, GetNodeState(n) PROVE Framed
    <2>1. NextCall(n) # "scan"
      BY DEF NextCall, Handler, NodeAnnoValue, CurrentValue, Request, Busy
    <2>2. pc[n] = "getState" /\ UNCHANGED <<toScan, count, own>>
      BY <1>2 DEF GetNodeState
    <2>3. pc' = [pc EXCEPT ![n] = NextCall(n)]
      BY <1>2 DEF GetNodeState
    <2> QED  BY <1>0, <2>1, <2>2, <2>3
  <1>3. ASSUME NEW n \in Node, EnsureCurrent(n) PROVE Framed
    BY <1>0, <1>3 DEF EnsureCurrent
  <1>4. ASSUME NEW n \in Node, EnsureDesired(n) PROVE Framed
    BY <1>0, <1>4 DEF EnsureDesired
  <1>5. ASSUME NEW n \in Node, EnsureNode(n) PROVE Framed
    BY <1>0, <1>5 DEF EnsureNode
  <1>6. ASSUME NEW n \in Node, UpdateCondIdle(n) PROVE Framed
    BY <1>0, <1>6 DEF UpdateCondIdle
  <1>7. ASSUME NEW n \in Node, UpdateCondPending(n) PROVE Framed
    BY <1>0, <1>7 DEF UpdateCondPending
  <1>8. ASSUME NEW n \in Node, UpdateCondDraining(n) PROVE Framed
    BY <1>0, <1>8 DEF UpdateCondDraining
  <1>9. ASSUME NEW n \in Node, BeforeDrainNode(n) PROVE Framed
    BY <1>0, <1>9 DEF BeforeDrainNode
  <1>10. ASSUME NEW n \in Node, Cordon(n) PROVE Framed
    BY <1>0, <1>10 DEF Cordon
  <1>11. ASSUME NEW n \in Node, Drained(n) PROVE Framed
    BY <1>0, <1>11 DEF Drained
  <1>12. ASSUME NEW n \in Node, UpdateCondErrors(n) PROVE Framed
    BY <1>0, <1>12 DEF UpdateCondErrors
  <1>13. ASSUME NEW n \in Node, UpdateCondComplete(n) PROVE Framed
    BY <1>0, <1>13 DEF UpdateCondComplete
  <1>14. ASSUME NEW n \in Node, AnnotateComplete(n) PROVE Framed
    BY <1>0, <1>14 DEF AnnotateComplete
  <1>15. ASSUME NEW n \in Node, Uncordon(n) PROVE Framed
    BY <1>0, <1>15 DEF Uncordon
  <1>16. ASSUME NEW n \in Node, AfterCompleteDrainNode(n) PROVE Framed
    BY <1>0, <1>16 DEF AfterCompleteDrainNode
  <1>17. ASSUME NEW n \in Node, AnnotateIdle(n) PROVE Framed
    BY <1>0, <1>17 DEF AnnotateIdle
  <1>18. ASSUME NEW n \in Node, BeforeDrainNodeNotReady(n) PROVE Framed
    BY <1>0, <1>18 DEF BeforeDrainNodeNotReady
  <1>19. ASSUME NEW n \in Node, AfterCompleteDrainNodeNotReady(n) PROVE Framed
    BY <1>0, <1>19 DEF AfterCompleteDrainNodeNotReady
  <1>20. ASSUME NEW n \in Node, EvictionRetried(n) PROVE Framed
    BY <1>0, <1>20 DEF EvictionRetried
  <1>21. ASSUME NEW n \in Node, DrainNodeFails(n) PROVE Framed
    BY <1>0, <1>21 DEF DrainNodeFails
  <1>22. ASSUME NEW n \in Node, ApiError(n) PROVE Framed
    BY <1>0, <1>22 DEF ApiError
  <1>23. ASSUME NEW n \in Node, PoolNotFound(n) PROVE Framed
    BY <1>0, <1>23 DEF PoolNotFound
  <1>24. ASSUME NEW n \in Node, Lock(n) \/ DecideSlot(n) PROVE FALSE
    BY <1>0, <1>24, SMTT(30) DEF Lock, DecideSlot
  <1>25. ASSUME NEW n \in Node, NEW k \in Node, Scan(n, k) PROVE FALSE
    BY <1>0, <1>25 DEF Scan
  <1>26. ASSUME NEW n \in Node, NEW p \in PodKind, EvictPod(n, p) PROVE Framed
    BY <1>0, <1>26 DEF EvictPod
  <1>27. ~OperatorRestart
    BY DEF OperatorRestart
  <1>28. ASSUME Environment PROVE Framed
    BY <1>0, <1>28 DEF Environment, DaemonAnnotatesNode, DaemonAnnotatesState, SchedulePod
  <1>29. ASSUME UNCHANGED vars PROVE Framed
    BY <1>0, <1>29, ZenonT(30)
  <1>30. Framed
    BY <1>1, <1>2, <1>3, <1>4, <1>5, <1>6, <1>7, <1>8, <1>9, <1>10, <1>11, <1>12, <1>13, <1>14,
       <1>15, <1>16, <1>17, <1>18, <1>19, <1>20, <1>21, <1>22, <1>23, <1>24, <1>25, <1>26,
       <1>27, <1>28, <1>29, ProtocolAssumption, SMTT(30)
    DEF Next, ControllerNext, ReconcileStep, ReconcileDelay
  <1> QED  BY <1>24, <1>30

LEMMA BusyFinite ==
    ASSUME NEW S \in SUBSET Node
    PROVE  /\ IsFiniteSet(DrainingIn(S)) /\ Cardinality(DrainingIn(S)) \in Nat
           /\ IsFiniteSet(DrainingIn(S)') /\ Cardinality(DrainingIn(S)') \in Nat
  BY ProtocolAssumption, FS_Subset, FS_CardinalityType DEF DrainingIn

(* Without a new busy node the busy part of any set of nodes only shrinks. *)
LEMMA BusyShrinks ==
    ASSUME NEW S \in SUBSET Node, \A k \in Node : current'[k] \in Busy => current[k] \in Busy
    PROVE  Cardinality(DrainingIn(S)') <= Cardinality(DrainingIn(S))
  <1>1. DrainingIn(S)' \subseteq DrainingIn(S)
    BY DEF DrainingIn
  <1> QED  BY <1>1, BusyFinite, FS_Subset

(* The count of tryDrainNode stays an upper bound.                         *)
LEMMA CountStep ==
    ASSUME TypeOK, HandshakeInv, [Next]_vars, NEW m \in Node
    PROVE  CountInv(m)'
  <1> SUFFICES ASSUME pc'[m] = "scan" PROVE CountInv(m)'
    BY DEF CountInv
  <1> DEFINE P == PoolMembers(m)
  <1>0. P \subseteq Node /\ count \in Nat
    BY PoolMembersType DEF TypeOK
  <1>1. CASE Lock(m)
    <2>1. toScan' = P /\ count' = count
      BY <1>1 DEF Lock
    <2>2. DrainingIn(P \ toScan)' = {}
      BY <2>1 DEF DrainingIn
    <2> QED  BY <1>0, <2>1, <2>2, FS_EmptySet, SMT DEF CountInv
  <1>2. CASE \E k \in Node : Scan(m, k)
    <2>1. PICK k \in Node : Scan(m, k)
      BY <1>2
    <2>2. /\ pc[m] = "scan" /\ k \in toScan /\ toScan' = toScan \ {k} /\ UNCHANGED current
          /\ count' = IF current[k] \in Busy THEN count + 1 ELSE count
      BY <2>1 DEF Scan, protocolVars
    <2>3. toScan \subseteq P /\ Cardinality(DrainingIn(P \ toScan)) <= count
      BY <2>2 DEF HandshakeInv, CountInv
    <2> DEFINE D == DrainingIn(P \ toScan)
    <2>4. IsFiniteSet(D) /\ Cardinality(D) \in Nat
      BY <1>0, BusyFinite
    <2>5. CASE current[k] \in Busy
      <3>1. DrainingIn(P \ toScan)' = D \cup {k} /\ k \notin D
        BY <2>2, <2>3, <2>5 DEF DrainingIn
      <3>2. Cardinality(D \cup {k}) = Cardinality(D) + 1
        BY <2>4, <3>1, FS_AddElement
      <3>3. count' = count + 1
        BY <2>2, <2>5
      <3>4. Cardinality(D) + 1 <= count'
        BY <1>0, <2>3, <2>4, <3>3, SMTT(30)
      <3> QED  BY <2>2, <2>3, <3>1, <3>2, <3>4 DEF CountInv
    <2>6. CASE current[k] \notin Busy
      <3>1. DrainingIn(P \ toScan)' = D
        BY <2>2, <2>3, <2>6 DEF DrainingIn
      <3> QED  BY <2>2, <2>3, <2>6, <3>1 DEF CountInv
    <2> QED  BY <2>5, <2>6
  <1>3. CASE ~Lock(m) /\ ~\E k \in Node : Scan(m, k)
    <2>1. /\ pc[m] = "scan" /\ UNCHANGED <<toScan, count>>
          /\ ~\E n \in Node : DecideSlot(n)
      BY <1>3, ScanFrame
    <2>2. \A k \in Node : current'[k] \in Busy => current[k] \in Busy
      BY <2>1, NoNewBusy
    <2>3. toScan \subseteq P /\ Cardinality(DrainingIn(P \ toScan)) <= count
      BY <2>1 DEF HandshakeInv, CountInv
    <2> DEFINE S == P \ toScan
    <2>4. Cardinality({k \in S : current'[k] \in Busy}) <= Cardinality(DrainingIn(S))
      <3>1. S \in SUBSET Node
        BY <1>0
      <3> HIDE DEF S
      <3> QED  BY <2>2, <3>1, BusyShrinks DEF DrainingIn
    <2>5. DrainingIn(P \ toScan)' = {k \in S : current'[k] \in Busy}
      BY <2>1 DEF DrainingIn
    <2>6. Cardinality(DrainingIn(S)) \in Nat /\ Cardinality({k \in S : current'[k] \in Busy}) \in Nat
      <3>1. S \in SUBSET Node
        BY <1>0
      <3> HIDE DEF S
      <3> QED  BY <3>1, BusyFinite DEF DrainingIn
    <2> QED  BY <1>0, <2>1, <2>3, <2>4, <2>5, <2>6, SMTT(30) DEF CountInv
  <1> QED  BY <1>1, <1>2, <1>3

(* tryDrainNode reads its own node as Idle.                                *)
LEMMA OwnStep ==
    ASSUME TypeOK, HandshakeInv, [Next]_vars
    PROVE  (own \notin Busy)'
  <1>0. own \notin Busy
    BY DEF HandshakeInv
  <1>1. ASSUME NEW n \in Node, NEW k \in Node, Scan(n, k) PROVE own' \notin Busy
    BY <1>0, <1>1 DEF Scan, HandshakeInv, LocalInv, WorkerInv, WhileIdle, Busy
  <1>2. CASE UNCHANGED own \/ own' = "none"
    BY <1>0, <1>2 DEF Busy
  <1>3. ASSUME NEW n \in Node, ReconcileStep(n) \/ ReconcileDelay(n) PROVE own' \notin Busy
    <2>1. \/ \E k \in Node : Scan(n, k)
          \/ UNCHANGED own \/ own' = "none"
      BY <1>3 DEF ReconcileStep, ReconcileDelay, StartReconcile, GetNodeState, EnsureCurrent,
         EnsureDesired, EnsureNode, UpdateCondIdle, Lock, PoolNotFound, DecideSlot,
         UpdateCondPending, UpdateCondDraining, BeforeDrainNode, Cordon, EvictPod, Drained,
         UpdateCondErrors, UpdateCondComplete, AnnotateComplete, Uncordon, AnnotateIdle,
         AfterCompleteDrainNode, BeforeDrainNodeNotReady, AfterCompleteDrainNodeNotReady,
         EvictionRetried, DrainNodeFails, ApiError, Unlock, ctrlVars
    <2> QED  BY <1>1, <1>2, <2>1
  <1>4. CASE OperatorRestart \/ Environment \/ UNCHANGED vars
    BY <1>2, <1>4 DEF OperatorRestart, Environment, DaemonAnnotatesNode,
       DaemonAnnotatesState, Unlock, ctrlVars, vars
  <1> QED  BY <1>3, <1>4, ProtocolAssumption DEF Next, ControllerNext

(* A step that takes a slot leaves the pool within its limit.              *)
LEMMA LimitStep ==
    ASSUME TypeOK, HandshakeInv, [Next]_vars
    PROVE  MaxUnavailableRespected'
  <1> SUFFICES ASSUME NEW m \in Node, ~PoolError(m), PoolLimit(m) # -1
               PROVE  Cardinality(DrainingIn(PoolMembers(m))') <= PoolLimit(m)
    BY DEF MaxUnavailableRespected
  <1> DEFINE P == PoolMembers(m)
             D == DrainingIn(P)
  <1>1. P \in SUBSET Node /\ PoolLimit(m) \in Int
    BY PoolMembersType, PoolLimitType
  <1>2. Cardinality(D) <= PoolLimit(m)
    BY DEF HandshakeInv, MaxUnavailableRespected
  <1>3. /\ IsFiniteSet(D) /\ Cardinality(D) \in Nat
        /\ IsFiniteSet(D') /\ Cardinality(D') \in Nat
    <2> HIDE DEF P
    <2> QED  BY <1>1, BusyFinite
  <1>4. CASE \A k \in Node : current'[k] \in Busy => current[k] \in Busy
    <2>1. Cardinality(D') <= Cardinality(D)
      BY <1>1, <1>4, BusyShrinks
    <2> QED  BY <1>1, <1>2, <1>3, <2>1, SMTT(30)
  <1>5. ASSUME NEW n \in Node, DecideSlot(n), SlotAvailable(n)
        PROVE  Cardinality(D') <= PoolLimit(m)
    <2>1. /\ pc[n] = "scan" /\ toScan = {} /\ own \notin Busy
          /\ current' = [current EXCEPT ![n] = "Draining"]
      BY <1>5 DEF DecideSlot, HandshakeInv
    <2>2. ~PoolError(n) /\ current[n] \notin Busy
      BY <2>1 DEF HandshakeInv, LocalInv, WorkerInv, InTryDrain, WhileIdle, Busy
    <2>3. CASE n \notin P
      <3>1. D' = D
        BY <1>1, <2>1, <2>3 DEF DrainingIn, TypeOK, ProtocolTypeOK
      <3> QED  BY <1>2, <3>1
    <2>4. CASE n \in P
      <3>1. PoolMembers(n) = P /\ PoolLimit(n) = PoolLimit(m)
        BY <2>2, <2>4, PoolsAgree
      <3>2. Cardinality(D) <= count
        BY <2>1, <3>1 DEF HandshakeInv, CountInv
      <3>3. count < PoolLimit(m) /\ count \in Nat
        BY <1>5, <3>1 DEF SlotAvailable, TypeOK
      <3>4. D' = D \cup {n} /\ n \notin D
        BY <1>1, <2>1, <2>2, <2>4, SMTT(30) DEF DrainingIn, TypeOK, ProtocolTypeOK, Busy
      <3>5. Cardinality(D') = Cardinality(D) + 1
        BY <1>3, <3>4, FS_AddElement
      <3> HIDE DEF D
      <3> QED  BY <1>1, <1>3, <3>2, <3>3, <3>5, SMTT(30)
    <2> QED  BY <2>3, <2>4
  <1>6. ASSUME NEW n \in Node, DecideSlot(n), ~SlotAvailable(n)
        PROVE  UNCHANGED current
    BY <1>6 DEF DecideSlot
  <1> QED  BY <1>4, <1>5, <1>6, NoNewBusy

-----------------------------------------------------------------------------
(* Initially nothing is busy.                                              *)
LEMMA InitInv == Init => TypeOK /\ HandshakeInv
  <1> SUFFICES ASSUME Init PROVE TypeOK /\ HandshakeInv
    OBVIOUS
  <1> USE ControllerAssumption DEF Init, ProtocolInit, ControllerInit
  <1>1. TypeOK
    BY SMT DEF TypeOK, ProtocolTypeOK, PC, NodeAnnoValue, CurrentValue, DrainCondition
  <1>2. \A n \in Node : LocalInv(n) /\ CountInv(n)
    BY DEF LocalInv, WorkerInv, AnnotationInv, CountInv, InTryDrain, WhileIdle,
       WhileDraining, WhileUndraining, Busy
  <1>3. MutexHeldByTryDrain /\ own \notin Busy
    BY DEF MutexHeldByTryDrain, InTryDrain, Busy
  <1>4. MaxUnavailableRespected
    <2> SUFFICES ASSUME NEW n \in Node, ~PoolError(n), PoolLimit(n) # -1
                 PROVE  Cardinality(DrainingIn(PoolMembers(n))) <= PoolLimit(n)
      BY DEF MaxUnavailableRespected
    <2>1. DrainingIn(PoolMembers(n)) = {}
      BY PoolMembersType DEF DrainingIn, Busy
    <2> QED  BY <2>1, PoolLimitType, FS_EmptySet, SMTT(30)
  <1> QED  BY <1>1, <1>2, <1>3, <1>4 DEF HandshakeInv

(* The inductive invariant: one step of the controller, of a daemon or of  *)
(* the environment.                                                        *)
LEMMA NextInv == TypeOK /\ HandshakeInv /\ [Next]_vars => TypeOK' /\ HandshakeInv'
  BY TypeStep, LocalStep, CountStep, MutexStep, OwnStep, LimitStep DEF HandshakeInv

(* All along, the state has its type and the handshake its invariant.      *)
THEOREM HandshakeSafety == Spec => [](TypeOK /\ HandshakeInv)
  BY InitInv, NextInv, PTL DEF Spec

-----------------------------------------------------------------------------
(* Of the nodes of a pool no more than maxUnavailable are ever Draining or *)
(* DrainComplete, however the reconciles of tryDrainNode interleave and    *)
(* fail.                                                                   *)
THEOREM LimitHolds == Spec => []MaxUnavailableRespected
  BY HandshakeSafety, PTL DEF HandshakeInv

(* A cordoned node is always one that still has its un-drain to come.      *)
THEOREM NeverLeftCordoned == Spec => []CordonedOnlyWhileBusy
  <1>1. HandshakeInv => CordonedOnlyWhileBusy
    BY DEF HandshakeInv, LocalInv, CordonedOnlyWhileBusy
  <1> QED  BY <1>1, HandshakeSafety, PTL

(* The condition is written before the annotation, through every retry.    *)
THEOREM ConditionFirst == Spec => []CompleteHasCondition
  <1>1. HandshakeInv => CompleteHasCondition
    BY DEF HandshakeInv, LocalInv, CompleteHasCondition
  <1> QED  BY <1>1, HandshakeSafety, PTL

(* No path through tryDrainNode leaves drainCheckMutex locked.             *)
THEOREM MutexReleased == Spec => []MutexHeldByTryDrain
  BY HandshakeSafety, PTL DEF HandshakeInv

(* A node whose pool is ambiguous or invalid is not drained.               *)
THEOREM ConflictsNotDrained == Spec => []ConflictingNodesNotDrained
  <1>1. HandshakeInv => ConflictingNodesNotDrained
    BY DEF HandshakeInv, LocalInv, ConflictingNodesNotDrained, PoolError
  <1> QED  BY <1>1, HandshakeSafety, PTL

-----------------------------------------------------------------------------
(* current-state only ever moves along the handshake.                      *)
LEMMA OrderStep == TypeOK /\ HandshakeInv /\ [Next]_vars => HandshakeStep
  BY CurrentMoves DEF HandshakeStep, TypeOK, ProtocolTypeOK

(* So it does in every behaviour.                                          *)
THEOREM HandshakeOrdered == Spec => HandshakeOrder
  BY OrderStep, HandshakeSafety, PTL DEF Spec, HandshakeOrder

LEMMA SlotStart == Init => Slots!SlotInit
  BY DEF Init, ProtocolInit, Slots!SlotInit, DrainingIn, Busy

(* A slot is taken only while the live count is below the limit.           *)
LEMMA SlotStep == TypeOK /\ HandshakeInv /\ [Next]_vars => [Slots!SlotNext]_(DrainingIn(Node))
  <1> SUFFICES ASSUME TypeOK, HandshakeInv, [Next]_vars,
                      DrainingIn(Node)' # DrainingIn(Node)
               PROVE  Slots!SlotNext
    OBVIOUS
  <1>1. PICK n \in Node, v \in CurrentValue :
               /\ current' = [current EXCEPT ![n] = v]
               /\ <<current[n], v>> \in HandshakeEdges
               /\ v = "Draining" => DecideSlot(n) /\ SlotAvailable(n)
    BY CurrentMoves DEF DrainingIn
  <1>2. CASE v = "Draining"
    <2>1. /\ pc[n] = "scan" /\ toScan = {} /\ SlotAvailable(n)
          /\ current[n] \notin Busy /\ ~PoolError(n)
      BY <1>1, <1>2 DEF DecideSlot, HandshakeInv, LocalInv, WorkerInv, InTryDrain,
         WhileIdle, Busy
    <2>2. DrainingIn(Node)' = DrainingIn(Node) \cup {n}
      BY <1>1, <1>2 DEF DrainingIn, TypeOK, ProtocolTypeOK, Busy
    <2>3. DrainingIn(Node) \cap PoolMembers(n) = DrainingIn(PoolMembers(n) \ toScan)
      BY <2>1, PoolMembersType DEF DrainingIn
    <2>4. Cardinality(DrainingIn(PoolMembers(n) \ toScan)) <= count
      BY <2>1 DEF HandshakeInv, CountInv
    <2>5. Cardinality(DrainingIn(PoolMembers(n) \ toScan)) \in Nat
      BY PoolMembersType, BusyFinite
    <2>6. PoolLimit(n) = -1 \/ Cardinality(DrainingIn(Node) \cap PoolMembers(n)) < PoolLimit(n)
      <3> DEFINE seen == Cardinality(DrainingIn(PoolMembers(n) \ toScan))
      <3>1. count \in Nat /\ PoolLimit(n) \in Int
        BY <2>1, PoolLimitType DEF TypeOK
      <3>2. seen \in Nat /\ seen <= count
        BY <2>4, <2>5
      <3>3. PoolLimit(n) = -1 \/ count < PoolLimit(n)
        BY <2>1 DEF SlotAvailable
      <3> HIDE DEF seen
      <3>4. PoolLimit(n) = -1 \/ seen < PoolLimit(n)
        BY <3>1, <3>2, <3>3, SMTT(30)
      <3> QED  BY <3>4, <2>3 DEF seen
    <2>7. n \notin DrainingIn(Node)
      BY <2>1 DEF DrainingIn
    <2>8. Slots!Acquire(n)
      <3>1. \A S : Slots!Cardinality(S) = Cardinality(S)
        BY Zenon DEF Slots!Cardinality, Cardinality
      <3> QED  BY <2>1, <2>2, <2>6, <2>7, <3>1 DEF Slots!Acquire
    <2> QED  BY <2>8 DEF Slots!SlotNext
  <1>3. CASE v # "Draining"
    <2>1. \/ v = "Idle" /\ (current[n] \in Busy \/ current[n] = "none")
          \/ v = "DrainComplete" /\ current[n] \in Busy
      BY <1>1, <1>3 DEF HandshakeEdges, Busy
    <2>2. v = "Idle" /\ current[n] \in Busy
      BY <1>1, <2>1 DEF DrainingIn, TypeOK, ProtocolTypeOK, Busy
    <2>3. n \in DrainingIn(Node) /\ DrainingIn(Node)' = DrainingIn(Node) \ {n}
      BY <1>1, <2>2 DEF DrainingIn, TypeOK, ProtocolTypeOK, Busy
    <2>4. Slots!Release(n)
      BY <2>3 DEF Slots!Release
    <2> QED  BY <2>4 DEF Slots!SlotNext
  <1> QED  BY <1>2, <1>3

(* The controller implements the abstract slots: initial states map to     *)
(* initial states and every step to a step or a stutter.                   *)
THEOREM SlotsImplemented == Spec => ImplementsSlots
  BY SlotStart, SlotStep, HandshakeSafety, PTL DEF Spec, ImplementsSlots, Slots!SlotSpec

=============================================================================
