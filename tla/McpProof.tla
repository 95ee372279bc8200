------------------------------ MODULE McpProof -------------------------------
(***************************************************************************)
(* Proofs about McpPause: with the OpenShift orchestrator in the place of  *)
(* the one that DrainSystem leaves open the system is still the one of     *)
(* DrainSystem, a pool that the operator paused always carries its mark,   *)
(* and a node is handed over to DrainNode only while the pool is paused    *)
(* and the MCO is at work on none of its nodes.  It stays so for the whole *)
(* drain, and the pause does not outlast the last handshake, as long as    *)
(* daemons take back no request before it was served.                      *)
(***************************************************************************)
EXTENDS McpPause, SystemProof

(* Most leaves are first-order: Zenon proves them, SMT those that cite it.  *)
USE Zenon

(* The calls between two of which the mark is on the pool.                 *)
WhileMarked == {"pauseAgain", "pause", "refetch", "revert", "unmark", "list", "unpause"}

MarkInv ==
    /\ \A n \in Node :
          /\ op[n] # "out" => mcpMutex = n
          /\ op[n] \in WhileMarked => mark = "Paused"
          /\ op[n] = "unmark" => ~paused
    /\ paused => mark = "Paused"

(* The MCO: once it reported a configuration it has nothing left to do for *)
(* it.                                                                     *)
McoIdle == \A n \in Node : target[n] = actual[n]
ReportInv ==
    /\ config.status <= config.spec
    /\ \A n \in Node : actual[n] <= target[n] /\ target[n] <= config.spec
    /\ ~Updating => \A n \in Node : actual[n] = config.spec

(* While no call failed, a mark and a pause go together outside the calls  *)
(* that change them, and the MCO is idle when the operator has looked at   *)
(* the paused pool again.                                                  *)
PauseInv ==
    faults = 0 =>
        /\ \A n \in Node : op[n] # "pauseAgain"
        /\ \A n \in Node : op[n] \in {"refetch", "revert", "list", "unpause"} => paused
        /\ mark = "Paused" /\ ~paused => \E n \in Node : op[n] \in {"pause", "unmark"}
        /\ paused => McoIdle \/ \E n \in Node : op[n] \in {"refetch", "revert"}

McpInv == McpTypeOK /\ MarkInv /\ ReportInv /\ PauseInv

(* BeforeDrainNode hands a node over to the drain.                         *)
HandOverStep ==
    \A n \in Node :
        faults = 0 /\ pc[n] = "beforeDrain" /\ pc'[n] \in {"cordon", "condComplete"} =>
            paused' /\ McoIdle'

-----------------------------------------------------------------------------
(* A call of the orchestrator for a node is, for the rest of the system,   *)
(* one of the answers that DrainSystem allows at any time.                 *)
LEMMA McpStepMaps == [McpNext]_mcpSysVars => [SysNext]_sysVars
  <1> SUFFICES ASSUME McpNext PROVE [SysNext]_sysVars
    BY DEF mcpSysVars
  <1>1. ASSUME NEW n \in Managed, ReadyToDrain(n) \/ Completed(n)
        PROVE  SysNext
    BY <1>1 DEF ReadyToDrain, Completed, SysNext, ControllerTakesStep, ReconcileStep
  <1>2. ASSUME NEW n \in Managed, NotReadyToDrain(n)
        PROVE  SysNext
    BY <1>2 DEF NotReadyToDrain, SysNext, ReconcileDelay
  <1>3. ASSUME NEW n \in Managed, OrchestratorStep(n)
        PROVE  ReadyToDrain(n) \/ Completed(n) \/ NotReadyToDrain(n) \/ UNCHANGED sysVars
    BY <1>3 DEF OrchestratorStep, LockMcp, GetPoolToPause, PauseAgain, MarkPaused, PausePool,
       RefetchPool, RevertPause, GetPoolToUnpause, ListNodes, UnpausePool, MarkIdle, Stay
  <1>4. ASSUME NEW n \in Managed, OrchestratorFails(n)
        PROVE  SysNext
    BY <1>4 DEF OrchestratorFails, SysNext, ReconcileDelay
  <1>5. ASSUME NEW n \in Managed, OtherReconcileStep(n) \/ OtherReconcileFault(n)
        PROVE  SysNext
    BY <1>5 DEF OtherReconcileStep, OtherReconcileFault, SysNext
  <1>6. ASSUME NEW n \in Managed, DaemonTakesStep(n) \/ DaemonFault(n)
        PROVE  SysNext
    BY <1>6 DEF SysNext
  <1>7. DaemonEnvironment /\ KeepController /\ UNCHANGED <<faults, mcpVars>> => SysNext
    BY DEF SysNext
  <1>8. RestartInOrchestrator => SysNext
    BY DEF RestartInOrchestrator, SysNext
  <1>9. NewMachineConfig \/ McoStep => UNCHANGED sysVars
    BY DEF NewMachineConfig, McoStep, McoReports, McoStartsNode, McoFinishesNode
  <1> QED  BY <1>1, <1>2, <1>3, <1>4, <1>5, <1>6, <1>7, <1>8, <1>9, SMTT(30) DEF McpNext

(* The system with the OpenShift orchestrator is a system of DrainSystem:  *)
(* all that is proved of the one holds of the other.                       *)
THEOREM McpIsSystem == McpSpec => SysSpec
  BY McpStepMaps, PTL DEF McpSpec, SysSpec

-----------------------------------------------------------------------------
(* Steps other than those of the orchestrator and the MCO, and its calls   *)
(* for a node.                                                             *)
LEMMA McpCases ==
    ASSUME [McpNext]_mcpSysVars
    PROVE  \/ UNCHANGED mcpVars
           \/ \E n \in Node : OrchestratorStep(n) \/ OrchestratorFails(n)
           \/ RestartInOrchestrator \/ NewMachineConfig \/ McoStep
  BY ProtocolAssumption DEF McpNext, mcpSysVars, OtherReconcileStep, OtherReconcileFault

(* What the calls of the orchestrator for n do to its own state.           *)
LEMMA OrchestratorMoves ==
    ASSUME McpTypeOK, NEW n \in Node, OrchestratorStep(n)
    PROVE  /\ \E l \in OrchestratorCall : op' = [op EXCEPT ![n] = l]
           /\ mcpMutex' \in {n, NoNode, mcpMutex} /\ KeepMco
           /\ paused' \in BOOLEAN /\ mark' \in {"none", "Paused", "Idle"}
  BY ZenonT(60) DEF OrchestratorStep, LockMcp, GetPoolToPause, PauseAgain, MarkPaused, PausePool,
       RefetchPool, RevertPause, GetPoolToUnpause, ListNodes, UnpausePool, MarkIdle, Stay,
       Call, Leave, ReadyToDrain, NotReadyToDrain, Completed, OrchestratorCall, McpTypeOK

(* The variables of the MCO: how its steps look from outside.              *)
LEMMA ConfigIsNat ==
    ASSUME NEW c \in ConfigNumber
    PROVE  c \in Nat
  BY McpAssumption, SMT DEF ConfigNumber

LEMMA NextConfig ==
    ASSUME NEW c \in [spec : ConfigNumber, status : ConfigNumber], c.spec < MaxConfigs
    PROVE  /\ [c EXCEPT !.spec = @ + 1] \in [spec : ConfigNumber, status : ConfigNumber]
           /\ [c EXCEPT !.spec = @ + 1].spec = c.spec + 1
           /\ [c EXCEPT !.spec = @ + 1].status = c.status
  BY McpAssumption, SMTT(30) DEF ConfigNumber

LEMMA McpTypeStep ==
    ASSUME McpTypeOK, SysTypeOK', [McpNext]_mcpSysVars
    PROVE  McpTypeOK'
  <1>1. CASE UNCHANGED mcpVars
    BY <1>1 DEF McpTypeOK, mcpVars
  <1>2. ASSUME NEW n \in Node, OrchestratorStep(n)
        PROVE  McpTypeOK'
    <2>1. PICK l \in OrchestratorCall : op' = [op EXCEPT ![n] = l]
      BY <1>2, OrchestratorMoves
    <2>2. op' \in [Node -> OrchestratorCall]
      BY <2>1 DEF McpTypeOK
    <2> QED  BY <1>2, <2>2, OrchestratorMoves, ZenonT(60) DEF McpTypeOK, KeepMco
  <1>3. ASSUME NEW n \in Node, OrchestratorFails(n)
        PROVE  McpTypeOK'
    BY <1>3 DEF OrchestratorFails, McpTypeOK, KeepMco, Call, OrchestratorCall
  <1>4. CASE RestartInOrchestrator
    BY <1>4 DEF RestartInOrchestrator, McpTypeOK, KeepMco, OrchestratorCall
  <1>5. CASE NewMachineConfig
    <2>1. config' \in [spec : ConfigNumber, status : ConfigNumber]
      BY <1>5, NextConfig DEF NewMachineConfig, McpTypeOK
    <2> QED  BY <1>5, <2>1 DEF NewMachineConfig, McpTypeOK
  <1>6. CASE McoReports
    BY <1>6 DEF McoReports, McpTypeOK
  <1>7. ASSUME NEW n \in Node, McoStartsNode(n) \/ McoFinishesNode(n)
        PROVE  McpTypeOK'
    BY <1>7 DEF McoStartsNode, McoFinishesNode, McpTypeOK
  <1> QED  BY <1>1, <1>2, <1>3, <1>4, <1>5, <1>6, <1>7, McpCases, ZenonT(60) DEF McoStep

(* Only the holder of mcpPauseMutex touches the mark and the pause.        *)
LEMMA MarkStep ==
    ASSUME McpTypeOK, MarkInv, [McpNext]_mcpSysVars
    PROVE  MarkInv'
  <1> USE DEF MarkInv, McpTypeOK, WhileMarked
  <1>1. CASE UNCHANGED mcpVars
    BY <1>1, ZenonT(60) DEF mcpVars
  <1>2. ASSUME NEW n \in Node, OrchestratorStep(n)
        PROVE  MarkInv'
    <2> USE ControllerAssumption DEF Call, Leave, ReadyToDrain, NotReadyToDrain, Completed, Stay
    <2>1. CASE LockMcp(n)
      BY <2>1 DEF LockMcp
    <2>2. CASE GetPoolToPause(n)
      BY <2>2, ZenonT(60) DEF GetPoolToPause
    <2>3. CASE PauseAgain(n) \/ MarkPaused(n) \/ PausePool(n)
      BY <2>3 DEF PauseAgain, MarkPaused, PausePool
    <2>4. CASE RefetchPool(n) \/ RevertPause(n)
      BY <2>4 DEF RefetchPool, RevertPause
    <2>5. CASE GetPoolToUnpause(n) \/ ListNodes(n)
      BY <2>5, SMTT(30) DEF GetPoolToUnpause, ListNodes
    <2>6. CASE UnpausePool(n) \/ MarkIdle(n)
      BY <2>6, SMTT(30) DEF UnpausePool, MarkIdle
    <2> QED  BY <1>2, <2>1, <2>2, <2>3, <2>4, <2>5, <2>6, SMTT(30) DEF OrchestratorStep
  <1>3. ASSUME NEW n \in Node, OrchestratorFails(n)
        PROVE  MarkInv'
    BY <1>3 DEF OrchestratorFails, Call
  <1>4. CASE RestartInOrchestrator
    BY <1>4 DEF RestartInOrchestrator
  <1>5. CASE NewMachineConfig \/ McoStep
    BY <1>5, SMTT(30) DEF NewMachineConfig, McoStep, McoReports, McoStartsNode, McoFinishesNode
  <1> QED  BY <1>1, <1>2, <1>3, <1>4, <1>5, McpCases, ZenonT(60)

(* The MCO works towards the newest configuration.                         *)
LEMMA ReportStep ==
    ASSUME McpTypeOK, ReportInv, [McpNext]_mcpSysVars
    PROVE  ReportInv'
  <1>a. /\ config.spec \in Nat /\ config.status \in Nat
        /\ \A n \in Node : target[n] \in Nat /\ actual[n] \in Nat
    BY ConfigIsNat DEF McpTypeOK
  <1> USE <1>a DEF ReportInv, Updating
  <1>1. CASE KeepMco
    BY <1>1 DEF KeepMco
  <1>2. CASE NewMachineConfig
    <2>1. /\ config'.spec = config.spec + 1 /\ config'.status = config.status
          /\ target' = target /\ actual' = actual
      BY <1>2, NextConfig, ZenonT(60) DEF NewMachineConfig, McpTypeOK
    <2> QED  BY <2>1, SMTT(30)
  <1>3. CASE McoReports
    <2>1. /\ config'.spec = config.spec /\ config'.status = config.spec
          /\ target' = target /\ actual' = actual
          /\ \A n \in Node : actual[n] = config.spec
      BY <1>3, ZenonT(60) DEF McoReports, McpTypeOK
    <2> QED  BY <2>1, SMTT(30)
  <1>4. ASSUME NEW n \in Node, McoStartsNode(n)
        PROVE  ReportInv'
    <2>1. \A m \in Node : target'[m] = (IF m = n THEN config.spec ELSE target[m])
      BY <1>4 DEF McoStartsNode, McpTypeOK
    <2> QED  BY <1>4, <2>1, SMTT(30) DEF McoStartsNode
  <1>5. ASSUME NEW n \in Node, McoFinishesNode(n)
        PROVE  ReportInv'
    <2>1. \A m \in Node : actual'[m] = (IF m = n THEN target[n] ELSE actual[m])
      BY <1>5 DEF McoFinishesNode, McpTypeOK
    <2> QED  BY <1>5, <2>1, SMTT(30) DEF McoFinishesNode
  <1>6. ASSUME NEW n \in Node, OrchestratorStep(n) \/ OrchestratorFails(n)
        PROVE  KeepMco
    BY <1>6, OrchestratorMoves DEF OrchestratorFails
  <1>7. UNCHANGED mcpVars \/ RestartInOrchestrator => KeepMco
    BY DEF mcpVars, RestartInOrchestrator, KeepMco
  <1> QED  BY <1>1, <1>2, <1>3, <1>4, <1>5, <1>6, <1>7, McpCases, ZenonT(60) DEF McoStep

(* When the MCO has reported its configuration it is idle.                 *)
LEMMA ReportedIsIdle ==
    ASSUME McpTypeOK, ReportInv, ~Updating
    PROVE  McoIdle
  <1>1. \A n \in Node : target[n] \in Nat /\ actual[n] \in Nat
    BY ConfigIsNat DEF McpTypeOK
  <1>2. config.spec \in Nat
    BY ConfigIsNat, ZenonT(30) DEF McpTypeOK
  <1> QED  BY <1>1, <1>2, SMTT(30) DEF ReportInv, McoIdle

LEMMA PauseStep ==
    ASSUME SysInv, McpTypeOK, MarkInv, ReportInv, PauseInv, [McpNext]_mcpSysVars
    PROVE  PauseInv'
  <1> SUFFICES ASSUME faults' = 0
               PROVE  PauseInv'
    BY DEF PauseInv
  <1>0. faults = 0 /\ ~OperatorRestart
    <2>1. Next \/ ControllerKept
      BY McpStepMaps, SysStepMaps
    <2> QED  BY <2>1, FaultsGrow DEF SysInv, SysTypeOK
  <1>a. \A n, m \in Node : op[n] # "out" /\ op[m] # "out" => n = m
    BY DEF MarkInv
  <1> USE <1>0 DEF PauseInv, McpTypeOK
  <1>1. CASE UNCHANGED mcpVars
    BY <1>1 DEF mcpVars, McoIdle
  <1>2. ASSUME NEW n \in Node, OrchestratorStep(n)
        PROVE  PauseInv'
    <2>0. KeepMco /\ McoIdle' = McoIdle
      BY <1>2, OrchestratorMoves, ZenonT(60) DEF KeepMco, McoIdle
    <2> USE <1>a, <2>0 DEF Call, Leave, ReadyToDrain, NotReadyToDrain, Completed, Stay
    <2>1. CASE LockMcp(n)
      <3>1. op[n] = "out" /\ op' = [op EXCEPT ![n] = "get"] /\ UNCHANGED <<paused, mark>>
        BY <2>1 DEF LockMcp
      <3> QED  BY <3>1
    <2>2. CASE GetPoolToPause(n)
      <3>1. op[n] = "get" /\ UNCHANGED <<paused, mark>>
        BY <2>2 DEF GetPoolToPause
      <3>2. \A k \in Node : op[k] \notin {"pause", "unmark", "refetch", "revert"}
        BY <3>1
      <3>3. mark = "Paused" => paused
        BY <3>2
      <3>4. op' = [op EXCEPT ![n] = "out"] \/ op' = [op EXCEPT ![n] = "annotate"]
        BY <2>2, <3>3 DEF GetPoolToPause
      <3> QED  BY <3>1, <3>2, <3>3, <3>4, SMTT(30)
    <2>3. CASE PauseAgain(n)
      BY <2>3 DEF PauseAgain
    <2>4. CASE MarkPaused(n)
      <3>1. op[n] = "annotate" /\ op' = [op EXCEPT ![n] = "pause"] /\ UNCHANGED paused
        BY <2>4 DEF MarkPaused
      <3> QED  BY <3>1
    <2>5. CASE PausePool(n)
      <3>1. op' = [op EXCEPT ![n] = "refetch"] /\ paused' = TRUE /\ op[n] = "pause"
        BY <2>5 DEF PausePool
      <3> QED  BY <3>1
    <2>6. CASE RefetchPool(n)
      <3>1. op[n] = "refetch" /\ paused /\ UNCHANGED <<paused, mark>>
        BY <2>6 DEF RefetchPool
      <3>2. CASE Updating
        <4>1. op' = [op EXCEPT ![n] = "revert"]
          BY <2>6, <3>2 DEF RefetchPool
        <4> QED  BY <3>1, <4>1
      <3>3. CASE ~Updating
        <4>1. op' = [op EXCEPT ![n] = "out"] /\ McoIdle
          BY <2>6, <3>3, ReportedIsIdle, ZenonT(60) DEF RefetchPool
        <4> QED  BY <3>1, <4>1
      <3> QED  BY <3>2, <3>3
    <2>7. CASE RevertPause(n)
      <3>1. op' = [op EXCEPT ![n] = "unmark"] /\ ~paused' /\ op[n] = "revert"
        BY <2>7 DEF RevertPause
      <3> QED  BY <3>1
    <2>8. CASE GetPoolToUnpause(n)
      <3>1. op[n] = "get" /\ UNCHANGED <<paused, mark>>
        BY <2>8, ZenonT(60) DEF GetPoolToUnpause
      <3>2. \A k \in Node : op[k] \notin {"pause", "unmark", "refetch", "revert"}
        BY <3>1
      <3>3. mark = "Paused" => paused
        BY <3>2
      <3>4. op' = [op EXCEPT ![n] = "out"] \/ (op' = [op EXCEPT ![n] = "list"] /\ paused)
        BY <2>8, <3>3 DEF GetPoolToUnpause
      <3> QED  BY <3>1, <3>2, <3>3, <3>4, ZenonT(60)
    <2>9. CASE ListNodes(n)
      <3>1. op[n] = "list" /\ paused /\ UNCHANGED <<paused, mark>>
        BY <2>9 DEF ListNodes
      <3>2. op' = [op EXCEPT ![n] = "out"] \/ op' = [op EXCEPT ![n] = "unpause"]
        BY <2>9 DEF ListNodes
      <3> QED  BY <3>1, <3>2
    <2>10. CASE UnpausePool(n)
      <3>1. op' = [op EXCEPT ![n] = "unmark"] /\ ~paused' /\ op[n] = "unpause"
        BY <2>10 DEF UnpausePool
      <3> QED  BY <3>1
    <2>11. CASE MarkIdle(n)
      <3>1. /\ op' = [op EXCEPT ![n] = "out"] /\ op[n] = "unmark"
            /\ mark' = "Idle" /\ UNCHANGED paused /\ ~paused
        BY <2>11 DEF MarkIdle, MarkInv
      <3> QED  BY <3>1
    <2> QED  BY <1>2, <2>1, <2>2, <2>3, <2>4, <2>5, <2>6, <2>7, <2>8, <2>9, <2>10, <2>11, ZenonT(60)
             DEF OrchestratorStep
  <1>3. ASSUME NEW n \in Node, OrchestratorFails(n)
        PROVE  FALSE
    BY <1>3, SMTT(30) DEF OrchestratorFails, DrainNodeFails, ApiError
  <1>4. ~RestartInOrchestrator
    BY DEF RestartInOrchestrator
  <1>5. CASE NewMachineConfig \/ McoReports
    BY <1>5 DEF NewMachineConfig, McoReports, McoIdle
  <1>6. ASSUME NEW n \in Node, McoStartsNode(n)
        PROVE  PauseInv'
    BY <1>6 DEF McoStartsNode
  <1>7. ASSUME NEW n \in Node, McoFinishesNode(n)
        PROVE  PauseInv'
    <2>1. ~McoIdle /\ UNCHANGED <<op, mark, paused>>
      BY <1>7 DEF McoFinishesNode, McoIdle
    <2> QED  BY <2>1
  <1> QED  BY <1>1, <1>2, <1>3, <1>4, <1>5, <1>6, <1>7, McpCases, SMTT(30) DEF McoStep

(* The pool a node is handed over with.                                    *)
LEMMA HandOver ==
    ASSUME SysInv, McpInv, [McpNext]_mcpSysVars
    PROVE  HandOverStep
  <1> SUFFICES ASSUME NEW n \in Node, faults = 0, pc[n] = "beforeDrain",
                      pc'[n] \in {"cordon", "condComplete"}
               PROVE  paused' /\ McoIdle'
    BY DEF HandOverStep
  <1>0. TypeOK
    BY DEF SysInv, SysTypeOK
  <1>a. McpTypeOK /\ MarkInv /\ ReportInv /\ PauseInv /\ pc'[n] # pc[n]
    BY DEF McpInv
  <1>1. ASSUME NEW k \in Managed, k # n, ReconcileStep(k) \/ ReconcileDelay(k)
        PROVE  FALSE
    BY <1>0, <1>1, <1>a, OtherWorkers, ProtocolAssumption, ZenonT(60)
  <1>2. ASSUME NEW k \in Managed, OrchestratorStep(k)
        PROVE  k = n /\ ReadyToDrain(n)
    <2>1. ReadyToDrain(k) \/ Completed(k) \/ NotReadyToDrain(k) \/ UNCHANGED sysVars
      BY <1>2 DEF OrchestratorStep, LockMcp, GetPoolToPause, PauseAgain, MarkPaused, PausePool,
         RefetchPool, RevertPause, GetPoolToUnpause, ListNodes, UnpausePool, MarkIdle, Stay
    <2>2. ~UNCHANGED sysVars
      BY <1>a DEF sysVars, vars, ctrlVars
    <2>3. ReconcileStep(k) \/ ReconcileDelay(k)
      BY <2>1, <2>2 DEF ReadyToDrain, Completed, NotReadyToDrain, ReconcileStep, ReconcileDelay
    <2>4. k = n
      BY <1>1, <2>3
    <2>5. ~Completed(n) /\ ~NotReadyToDrain(n)
      BY <1>0, <1>a, ZenonT(60) DEF Completed, NotReadyToDrain, AfterCompleteDrainNode, TypeOK,
         BeforeDrainNodeNotReady, Requeue, Return, Goto
    <2> QED  BY <2>1, <2>2, <2>4, <2>5, ZenonT(60)
  <1>3. ASSUME OrchestratorStep(n), ReadyToDrain(n)
        PROVE  paused' /\ McoIdle'
    <2>1. KeepMco /\ McoIdle' = McoIdle
      BY <1>3, <1>a, OrchestratorMoves, ZenonT(60) DEF KeepMco, McoIdle
    <2>2. \A k \in Node : op[k] # "out" /\ op[n] # "out" => k = n
      BY <1>a, ZenonT(60) DEF MarkInv
    <2>3. op'[n] = "out" /\ ~UNCHANGED sysVars
      BY <1>3, <1>a DEF ReadyToDrain, Leave, Call, McpTypeOK, sysVars, vars, ctrlVars
    <2>4. CASE op[n] = "get" /\ UNCHANGED paused /\ paused
      <3>1. McoIdle
        BY <1>a, <2>2, <2>4 DEF PauseInv
      <3> QED  BY <2>1, <2>4, <3>1
    <2>5. CASE op[n] = "refetch" /\ UNCHANGED paused /\ ~Updating
      <3>1. McoIdle /\ paused
        BY <1>a, <2>5, ReportedIsIdle, ZenonT(60) DEF PauseInv
      <3> QED  BY <2>1, <2>5, <3>1
    <2>6. \/ op[n] = "get" /\ UNCHANGED paused /\ paused
          \/ op[n] = "refetch" /\ UNCHANGED paused /\ ~Updating
      <3>1. \/ GetPoolToPause(n) \/ PauseAgain(n) \/ RefetchPool(n)
            \/ GetPoolToUnpause(n) \/ ListNodes(n) \/ MarkIdle(n)
        BY <1>3, <2>3 DEF OrchestratorStep, LockMcp, MarkPaused, PausePool, RevertPause,
           UnpausePool, Stay
      <3>2. ~PauseAgain(n) /\ ~GetPoolToUnpause(n)
        BY <1>a DEF PauseAgain, GetPoolToUnpause, PauseInv
      <3>3. ~Completed(n) /\ ~NotReadyToDrain(n)
        BY <1>0, <1>a DEF Completed, NotReadyToDrain, AfterCompleteDrainNode, TypeOK,
           BeforeDrainNodeNotReady, Requeue, Return, Goto
      <3>4. ~ListNodes(n) /\ ~MarkIdle(n)
        BY <2>3, <3>3 DEF ListNodes, MarkIdle, Stay
      <3> QED  BY <2>3, <3>1, <3>2, <3>3, <3>4, ZenonT(60) DEF GetPoolToPause, RefetchPool, Stay
    <2> QED  BY <2>4, <2>5, <2>6, ZenonT(60)
  <1>4. ASSUME NEW k \in Managed, OrchestratorFails(k)
        PROVE  FALSE
    <2>1. k = n
      BY <1>1, <1>4 DEF OrchestratorFails, ReconcileDelay
    <2> QED  BY <1>0, <1>4, <2>1, ZenonT(60) DEF OrchestratorFails, DrainNodeFails, ApiError, TypeOK,
             Requeue, Return, Goto
  <1>5. ASSUME NEW k \in Managed, OtherReconcileStep(k) \/ OtherReconcileFault(k)
        PROVE  FALSE
    BY <1>1, <1>5 DEF OtherReconcileStep, OtherReconcileFault, ControllerTakesStep
  <1>6. KeepController => FALSE
    BY <1>a DEF KeepController
  <1>7. RestartInOrchestrator => FALSE
    BY DEF RestartInOrchestrator, OperatorRestart
  <1>8. UNCHANGED sysVars => FALSE
    BY <1>a DEF sysVars, vars, ctrlVars
  <1> QED  BY <1>2, <1>3, <1>4, <1>5, <1>6, <1>7, <1>8, ProtocolAssumption, ZenonT(60)
           DEF McpNext, DaemonTakesStep, DaemonFault, NewMachineConfig, McoStep, McoReports,
               McoStartsNode, McoFinishesNode, mcpSysVars

-----------------------------------------------------------------------------
LEMMA McpInitInv == SysInit /\ McpInit => McpInv
  <1> SUFFICES ASSUME SysInit, McpInit PROVE McpInv
    OBVIOUS
  <1>1. SysTypeOK /\ 0 \in ConfigNumber
    BY SysInitInv, McpAssumption, SMTT(30) DEF SysInv, ConfigNumber
  <1>2. McpTypeOK
    BY <1>1 DEF McpInit, McpTypeOK, OrchestratorCall
  <1>3. MarkInv
    BY DEF McpInit, MarkInv, WhileMarked
  <1>4. ReportInv
    BY SMTT(30) DEF McpInit, ReportInv
  <1>5. PauseInv
    BY DEF McpInit, PauseInv
  <1> QED  BY <1>2, <1>3, <1>4, <1>5, ZenonT(60) DEF McpInv

LEMMA McpNextInv == SysInv /\ McpInv /\ [McpNext]_mcpSysVars => McpInv'
  <1> SUFFICES ASSUME SysInv, McpInv, [McpNext]_mcpSysVars PROVE McpInv'
    OBVIOUS
  <1>1. SysTypeOK'
    BY McpStepMaps, SysTypeStep
  <1> QED  BY <1>1, McpTypeStep, MarkStep, ReportStep, PauseStep, ZenonT(60) DEF McpInv

(* The invariant of the orchestrator and the MCO.                          *)
THEOREM McpSafety == McpSpec => []McpInv
  <1>1. McpSpec => []SysInv
    BY McpIsSystem, SystemSafety, PTL
  <1> QED  BY <1>1, McpInitInv, McpNextInv, PTL DEF McpSpec

(* A pool that the operator paused carries its mark, wherever a call fails *)
(* and however the calls for several nodes interleave.                     *)
THEOREM PausedOnlyMarked == McpSpec => []PausedIsMarked
  <1>1. McpInv => PausedIsMarked
    BY DEF McpInv, MarkInv, PausedIsMarked
  <1> QED  BY <1>1, McpSafety, PTL

(* Up to the first failure DrainNode gets a node only with the pool paused *)
(* and the MCO idle, although the MCO may have begun between two calls.    *)
THEOREM HandedOverPaused == McpSpec => [][HandOverStep]_mcpSysVars
  <1>1. McpSpec => []SysInv
    BY McpIsSystem, SystemSafety, PTL
  <1> QED  BY <1>1, HandOver, McpSafety, PTL DEF McpSpec

(* The reboot limit with the OpenShift orchestrator in place.              *)
THEOREM McpRebootsLimited == McpSpec => []RebootLimit
  BY McpIsSystem, RebootsLimited, PTL

-----------------------------------------------------------------------------
(* Where a reconcile is when it calls the orchestrator.                    *)
InOrchestrator == {"beforeDrain", "afterDrain"}
CallInv ==
    \A n \in Node :
        /\ op[n] # "out" => pc[n] \in InOrchestrator
        /\ op[n] \in {"pauseAgain", "annotate", "pause", "refetch", "revert"} => pc[n] = "beforeDrain"
        /\ op[n] \in {"list", "unpause"} => pc[n] = "afterDrain"

(* What a reconcile does outside the orchestrator, as far as the pool is   *)
(* concerned.                                                              *)
BeingDrained == {"cordon", "evict"}
LEMMA WorkerMoves ==
    ASSUME TypeOK, HandshakeInv, NEW n \in Node, ReconcileStep(n) \/ ReconcileDelay(n)
    PROVE  /\ pc'[n] \in BeingDrained => pc[n] \in BeingDrained \cup {"beforeDrain"}
           /\ pc'[n] = "annotateIdle" => pc[n] \in {"afterDrain", "annotateIdle"}
           /\ current[n] \in Busy /\ pc[n] # "annotateIdle" => current'[n] \in Busy
  <1>0. WorkerInv(n)
    BY DEF HandshakeInv, LocalInv
  <1>a. "none" \notin Busy /\ "Draining" \in Busy /\ "DrainComplete" \in Busy
    BY ZenonT(60) DEF Busy
  <1> USE <1>0, <1>a DEF TypeOK, ProtocolTypeOK, protocolVars, ctrlVars, Goto, Return, Requeue,
        WorkerInv, BeingDrained
  <1>1. CASE GetNodeState(n)
    <2>1. NextCall(n) \notin {"cordon", "evict", "annotateIdle"}
      BY DEF NextCall, Handler, NodeAnnoValue, CurrentValue, Request, Busy
    <2>2. pc'[n] \in {"idle", NextCall(n)} /\ UNCHANGED current
      BY <1>1, ZenonT(60) DEF GetNodeState
    <2> QED  BY <2>1, <2>2, ZenonT(60)
  <1>2. CASE StartReconcile(n) \/ EnsureCurrent(n) \/ EnsureDesired(n) \/ EnsureNode(n)
    BY <1>2, ZenonT(60) DEF StartReconcile, EnsureCurrent, EnsureDesired, EnsureNode
  <1>3. CASE UpdateCondIdle(n) \/ Lock(n) \/ PoolNotFound(n)
    BY <1>3 DEF UpdateCondIdle, Lock, PoolNotFound
  <1>4. CASE (\E k \in Node : Scan(n, k)) \/ (\E p \in PodKind : EvictPod(n, p))
    BY <1>4, ZenonT(60) DEF Scan, EvictPod
  <1>5. CASE DecideSlot(n)
    BY <1>5, ZenonT(60) DEF DecideSlot
  <1>6. CASE UpdateCondPending(n) \/ UpdateCondDraining(n)
    BY <1>6, ZenonT(60) DEF UpdateCondPending, UpdateCondDraining
  <1>7. CASE BeforeDrainNode(n)
    <2>1. pc'[n] \in {"cordon", "condComplete"} /\ pc[n] = "beforeDrain" /\ UNCHANGED current
      BY <1>7, ZenonT(60) DEF BeforeDrainNode
    <2> QED  BY <2>1
  <1>8. CASE Cordon(n) \/ Drained(n)
    BY <1>8, ZenonT(60) DEF Cordon, Drained
  <1>9. CASE UpdateCondErrors(n) \/ UpdateCondComplete(n) \/ AnnotateComplete(n)
    BY <1>9, ZenonT(60) DEF UpdateCondErrors, UpdateCondComplete, AnnotateComplete
  <1>10. CASE Uncordon(n) \/ AfterCompleteDrainNode(n) \/ AnnotateIdle(n)
    BY <1>10, ZenonT(60) DEF Uncordon, AfterCompleteDrainNode, AnnotateIdle
  <1>11. CASE ReconcileDelay(n)
    BY <1>11, ZenonT(60) DEF ReconcileDelay, BeforeDrainNodeNotReady, AfterCompleteDrainNodeNotReady,
       EvictionRetried, DrainNodeFails, ApiError
  <1> HIDE DEF TypeOK, ProtocolTypeOK, protocolVars, ctrlVars, Goto, Return, Requeue,
        WorkerInv, BeingDrained
  <1> QED  BY <1>1, <1>2, <1>3, <1>4, <1>5, <1>6, <1>7, <1>8, <1>9, <1>10, <1>11, ZenonT(30)
           DEF ReconcileStep

(* A step seen from the reconciles: one of the orchestrator for a node, a  *)
(* failure in it, one of another reconcile, or none of them moves.         *)
LEMMA PoolCases ==
    ASSUME SysInv, [McpNext]_mcpSysVars
    PROVE  \/ \E n \in Node : OrchestratorStep(n)
           \/ \E n \in Node : OrchestratorFails(n)
           \/ \E n \in Node : /\ ReconcileStep(n) \/ ReconcileDelay(n)
                              /\ pc[n] \notin InOrchestrator /\ UNCHANGED mcpVars
           \/ RestartInOrchestrator
           \/ UNCHANGED <<pc, op, mcpMutex, paused, mark>>
  <1>0. TypeOK /\ Managed \subseteq Node
    BY ProtocolAssumption DEF SysInv, SysTypeOK
  <1>1. NewMachineConfig \/ McoStep => UNCHANGED <<pc, op, mcpMutex, paused, mark>>
    BY DEF NewMachineConfig, McoStep, McoReports, McoStartsNode, McoFinishesNode, sysVars, vars,
       ctrlVars
  <1>2. KeepController /\ UNCHANGED mcpVars => UNCHANGED <<pc, op, mcpMutex, paused, mark>>
    BY DEF KeepController, mcpVars
  <1>3. UNCHANGED mcpSysVars => UNCHANGED <<pc, op, mcpMutex, paused, mark>>
    BY DEF mcpSysVars, mcpVars, sysVars, vars, ctrlVars
  <1>4. \A n : DaemonTakesStep(n) \/ DaemonFault(n) => KeepController
    BY DEF DaemonTakesStep, DaemonFault
  <1>5. \A n \in Managed : OtherReconcileStep(n) \/ OtherReconcileFault(n) =>
            /\ ReconcileStep(n) \/ ReconcileDelay(n)
            /\ pc[n] \notin InOrchestrator /\ UNCHANGED mcpVars
    BY DEF OtherReconcileStep, OtherReconcileFault, ControllerTakesStep, InOrchestrator
  <1>6. DaemonEnvironment /\ KeepController /\ UNCHANGED <<faults, mcpVars>> =>
            KeepController /\ UNCHANGED mcpVars
    OBVIOUS
  <1> QED  BY <1>0, <1>1, <1>2, <1>3, <1>4, <1>5, <1>6, ZenonT(60) DEF McpNext

(* A call of the orchestrator ends, or leaves the rest of the system.      *)
LEMMA OrchestratorEnds ==
    ASSUME TypeOK, NEW n \in Node, OrchestratorStep(n)
    PROVE  /\ UNCHANGED protocolVars /\ faults' = faults
           /\ \A m \in Node \ {n} : pc'[m] = pc[m]
           /\ \/ UNCHANGED pc
              \/ ReadyToDrain(n) /\ pc[n] = "beforeDrain" /\ pc'[n] \in {"cordon", "condComplete"}
              \/ NotReadyToDrain(n) /\ pc[n] = "beforeDrain" /\ pc'[n] = "idle"
              \/ Completed(n) /\ pc[n] = "afterDrain" /\ pc'[n] = "annotateIdle"
  <1>1. ReadyToDrain(n) \/ Completed(n) \/ NotReadyToDrain(n) \/ UNCHANGED sysVars
    BY DEF OrchestratorStep, LockMcp, GetPoolToPause, PauseAgain, MarkPaused, PausePool,
       RefetchPool, RevertPause, GetPoolToUnpause, ListNodes, UnpausePool, MarkIdle, Stay
  <1> USE DEF TypeOK, Goto, Return, Requeue
  <1>2. CASE ReadyToDrain(n)
    BY <1>2 DEF ReadyToDrain, BeforeDrainNode
  <1>3. CASE NotReadyToDrain(n)
    BY <1>3 DEF NotReadyToDrain, BeforeDrainNodeNotReady
  <1>4. CASE Completed(n)
    BY <1>4 DEF Completed, AfterCompleteDrainNode
  <1>5. CASE UNCHANGED sysVars
    BY <1>5 DEF sysVars, vars, ctrlVars
  <1> QED  BY <1>1, <1>2, <1>3, <1>4, <1>5, ZenonT(60)

LEMMA CallStep ==
    ASSUME SysInv, McpInv, CallInv, [McpNext]_mcpSysVars
    PROVE  CallInv'
  <1>0. TypeOK /\ McpTypeOK /\ MarkInv
    BY DEF SysInv, SysTypeOK, McpInv
  <1>1. ASSUME NEW n \in Node, OrchestratorStep(n)
        PROVE  CallInv'
    <2>1. PICK l \in OrchestratorCall : op' = [op EXCEPT ![n] = l]
      BY <1>0, <1>1, OrchestratorMoves, ZenonT(60)
    <2>2. \A m \in Node \ {n} : pc'[m] = pc[m] /\ op'[m] = op[m]
      BY <1>0, <1>1, <2>1, OrchestratorEnds, ZenonT(60) DEF McpTypeOK
    <2>3. op'[n] = l
      BY <1>0, <2>1 DEF McpTypeOK
    <2>4. CASE ReadyToDrain(n) \/ NotReadyToDrain(n) \/ Completed(n)
      <3>1. op'[n] = "out"
        BY <1>0, <2>4, ZenonT(60) DEF ReadyToDrain, NotReadyToDrain, Completed, Leave, Call, McpTypeOK
      <3> QED  BY <2>2, <3>1 DEF CallInv
    <2>5. CASE ~(ReadyToDrain(n) \/ NotReadyToDrain(n) \/ Completed(n))
      <3>1. pc' = pc
        BY <1>0, <1>1, <2>5, OrchestratorEnds, ZenonT(60)
      <3>2. /\ op'[n] # "out" => pc[n] \in InOrchestrator
            /\ op'[n] \in {"pauseAgain", "annotate", "pause", "refetch", "revert"} =>
                  pc[n] = "beforeDrain"
            /\ op'[n] \in {"list", "unpause"} => pc[n] = "afterDrain"
        <4> USE <1>0, <2>5 DEF CallInv, McpTypeOK, Stay, Call, InOrchestrator
        <4>1. CASE LockMcp(n)
          BY <4>1 DEF LockMcp
        <4>2. CASE GetPoolToPause(n)
          BY <4>2 DEF GetPoolToPause
        <4>3. CASE PauseAgain(n) \/ MarkPaused(n) \/ PausePool(n) \/ RefetchPool(n) \/ RevertPause(n)
          BY <4>3 DEF PauseAgain, MarkPaused, PausePool, RefetchPool, RevertPause
        <4>4. CASE GetPoolToUnpause(n) \/ ListNodes(n) \/ UnpausePool(n) \/ MarkIdle(n)
          BY <4>4 DEF GetPoolToUnpause, ListNodes, UnpausePool, MarkIdle
        <4> QED  BY <1>1, <4>1, <4>2, <4>3, <4>4, ZenonT(60) DEF OrchestratorStep
      <3> QED  BY <2>2, <3>1, <3>2, ZenonT(60) DEF CallInv
    <2> QED  BY <2>4, <2>5
  <1>2. ASSUME NEW n \in Node, OrchestratorFails(n)
        PROVE  CallInv'
    <2>1. ReconcileDelay(n)
      BY <1>2 DEF OrchestratorFails, ReconcileDelay
    <2>2. \A m \in Node \ {n} : pc'[m] = pc[m] /\ op'[m] = op[m]
      BY <1>0, <1>2, <2>1, OtherWorkers, ZenonT(60) DEF OrchestratorFails, Call, McpTypeOK
    <2>3. op'[n] = "out"
      BY <1>0, <1>2 DEF OrchestratorFails, Call, McpTypeOK
    <2> QED  BY <2>2, <2>3 DEF CallInv
  <1>3. ASSUME NEW n \in Node, ReconcileStep(n) \/ ReconcileDelay(n),
               pc[n] \notin InOrchestrator, UNCHANGED mcpVars
        PROVE  CallInv'
    <2>1. op' = op /\ op[n] = "out"
      BY <1>3 DEF mcpVars, CallInv
    <2>2. \A m \in Node \ {n} : pc'[m] = pc[m]
      BY <1>0, <1>3, OtherWorkers, ZenonT(60)
    <2> QED  BY <2>1, <2>2 DEF CallInv
  <1>4. CASE RestartInOrchestrator
    BY <1>4 DEF RestartInOrchestrator, CallInv
  <1>5. CASE UNCHANGED <<pc, op, mcpMutex, paused, mark>>
    BY <1>5 DEF CallInv
  <1> QED  BY <1>1, <1>2, <1>3, <1>4, <1>5, PoolCases, ZenonT(60)

(* Up to the first failure: the pause stands while a node is drained, and  *)
(* nobody is in the course of setting or lifting it.                       *)
ChangesPause == {"annotate", "pause", "refetch", "revert", "unpause", "unmark"}
DrainInv ==
    faults = 0 =>
        /\ \A n, m \in Node : op[n] \in ChangesPause => pc[m] \notin BeingDrained
        /\ \A n \in Node : pc[n] \in BeingDrained => paused

(* A node that is being drained is under configuration for the others.     *)
LEMMA DrainedIsListed ==
    ASSUME SysInv, Stand, faults = 0, NEW m \in Node, pc[m] \in BeingDrained
    PROVE  nodeAnno[m] \in Request
  <1>1. pc[m] \in ServesRequest /\ pc[m] \in WhileDraining
    BY DEF BeingDrained, ServesRequest, WhileDraining
  <1>2. current[m] = "Draining"
    BY <1>1 DEF SysInv, HandshakeInv, LocalInv, WorkerInv
  <1> QED  BY <1>1, <1>2, ZenonT(60) DEF Stand, WorkerStand

LEMMA DrainInvStep ==
    ASSUME SysInv, McpInv, CallInv, Stand, DrainInv, [McpNext]_mcpSysVars
    PROVE  DrainInv'
  <1>0. TypeOK /\ HandshakeInv /\ McpTypeOK /\ MarkInv
    BY DEF SysInv, SysTypeOK, McpInv
  <1> SUFFICES ASSUME faults' = 0 PROVE DrainInv'
    BY DEF DrainInv
  <1>a. faults = 0 /\ ~OperatorRestart
    BY <1>0, McpStepMaps, SysStepMaps, FaultsGrow, ZenonT(60)
  <1>b. /\ \A n, m \in Node : op[n] \in ChangesPause => pc[m] \notin BeingDrained
        /\ \A n \in Node : pc[n] \in BeingDrained => paused
    BY <1>a DEF DrainInv
  <1>c. \A k, m \in Node : op[k] # "out" /\ op[m] # "out" => k = m
    BY <1>0 DEF MarkInv
  <1>1. ASSUME NEW n \in Node, OrchestratorStep(n)
        PROVE  DrainInv'
    <2>1. PICK l \in OrchestratorCall : op' = [op EXCEPT ![n] = l]
      BY <1>0, <1>1, OrchestratorMoves, ZenonT(60)
    <2>2. \A m \in Node \ {n} : pc'[m] = pc[m] /\ op'[m] = op[m]
      BY <1>0, <1>1, <2>1, OrchestratorEnds, ZenonT(60) DEF McpTypeOK
    <2>3. op'[n] = l
      BY <1>0, <2>1 DEF McpTypeOK
    <2>4. CASE ReadyToDrain(n) \/ NotReadyToDrain(n) \/ Completed(n)
      <3>1. op'[n] = "out" /\ op[n] # "out"
        <4>1. op'[n] = "out"
          BY <1>0, <2>4 DEF ReadyToDrain, NotReadyToDrain, Completed, Leave, Call, McpTypeOK
        <4>2. op[n] # "out"
          <5>1. ~LockMcp(n)
            BY <1>0, <4>1 DEF LockMcp, Call, McpTypeOK
          <5> QED  BY <1>1, <5>1, ZenonT(60) DEF OrchestratorStep, GetPoolToPause, PauseAgain, MarkPaused,
                   PausePool, RefetchPool, RevertPause, GetPoolToUnpause, ListNodes, UnpausePool,
                   MarkIdle
        <4> QED  BY <4>1, <4>2
      <3>2. \A k \in Node : op'[k] = "out"
        BY <1>c, <2>2, <3>1, ZenonT(60)
      <3>3. ASSUME NEW m \in Node, pc'[m] \in BeingDrained PROVE paused'
        <4>1. CASE ReadyToDrain(n) /\ pc[n] = "beforeDrain" /\ pc'[n] \in {"cordon", "condComplete"}
          <5>1. HandOverStep
            BY HandOver
          <5> QED  BY <1>a, <4>1, <5>1, ZenonT(60) DEF HandOverStep
        <4>2. CASE pc'[n] \in {"idle", "annotateIdle"} \/ UNCHANGED pc
          <5>1. pc[m] \in BeingDrained
            BY <2>2, <3>3, <4>2, ZenonT(60) DEF BeingDrained
          <5>2. op[n] \notin ChangesPause /\ paused
            BY <1>b, <5>1, ZenonT(60)
          <5>3. paused' = paused \/ paused'
            BY <1>1, <5>2, ZenonT(60) DEF OrchestratorStep, LockMcp, GetPoolToPause, PauseAgain, MarkPaused,
               PausePool, RefetchPool, RevertPause, GetPoolToUnpause, ListNodes, UnpausePool,
               MarkIdle, ChangesPause
          <5> QED  BY <5>2, <5>3
        <4> QED  BY <1>0, <1>1, <4>1, <4>2, OrchestratorEnds, ZenonT(60)
      <3> QED  BY <3>2, <3>3 DEF DrainInv, ChangesPause
    <2>5. CASE ~(ReadyToDrain(n) \/ NotReadyToDrain(n) \/ Completed(n))
      <3>1. pc' = pc
        BY <1>0, <1>1, <2>5, OrchestratorEnds, ZenonT(60)
      <3>2. \A k \in Node \ {n} : op'[k] = "out"
        <4>1. \A k \in Node \ {n} : op[k] = "out"
          <5>1. CASE LockMcp(n)
            BY <1>0, <5>1, ControllerAssumption, ZenonT(60) DEF LockMcp, MarkInv
          <5>2. CASE ~LockMcp(n)
            <6>1. op[n] # "out"
              BY <1>1, <5>2, ZenonT(60) DEF OrchestratorStep, GetPoolToPause, PauseAgain, MarkPaused,
                 PausePool, RefetchPool, RevertPause, GetPoolToUnpause, ListNodes, UnpausePool,
                 MarkIdle
            <6> QED  BY <1>c, <6>1
          <5> QED  BY <5>1, <5>2
        <4> QED  BY <2>2, <4>1
      <3>3. ASSUME NEW m \in Node, pc[m] \in BeingDrained
            PROVE  op'[n] \notin ChangesPause /\ paused'
        <4>1. op[n] \notin ChangesPause /\ paused /\ mark = "Paused"
          BY <1>0, <1>b, <3>3, ZenonT(60) DEF MarkInv
        <4> USE <1>0, <2>5, <4>1 DEF McpTypeOK, Stay, Call, ChangesPause
        <4>2. CASE LockMcp(n)
          BY <4>2 DEF LockMcp
        <4>3. CASE GetPoolToPause(n)
          BY <4>3 DEF GetPoolToPause
        <4>4. CASE GetPoolToUnpause(n)
          BY <4>4 DEF GetPoolToUnpause
        <4>5. CASE ListNodes(n)
          <5>1. pc[n] = "afterDrain" /\ m # n
            BY <3>3, <4>5 DEF ListNodes, CallInv, BeingDrained
          <5>2. OtherUnderConfiguration(n)
            BY <1>a, <3>3, <5>1, DrainedIsListed, ZenonT(60) DEF OtherUnderConfiguration
          <5> QED  BY <4>5, <5>2 DEF ListNodes
        <4>6. CASE PauseAgain(n)
          BY <4>6 DEF PauseAgain
        <4> QED  BY <1>1, <4>2, <4>3, <4>4, <4>5, <4>6, ZenonT(60) DEF OrchestratorStep, MarkPaused,
                 PausePool, RefetchPool, RevertPause, UnpausePool, MarkIdle
      <3>4. "out" \notin ChangesPause
        BY DEF ChangesPause
      <3>5. ASSUME NEW k \in Node, NEW m \in Node, pc[m] \in BeingDrained
            PROVE  op'[k] \notin ChangesPause
        <4>1. CASE k = n
          BY <3>3, <3>5, <4>1, ZenonT(60)
        <4>2. CASE k # n
          <5>1. op'[k] = "out"
            BY <3>2, <4>2, ZenonT(60)
          <5> QED  BY <3>4, <5>1
        <4> QED  BY <4>1, <4>2
      <3> QED  BY <3>1, <3>3, <3>5, ZenonT(60) DEF DrainInv
    <2> QED  BY <2>4, <2>5
  <1>2. ASSUME NEW n \in Node, OrchestratorFails(n)
        PROVE  FALSE
    BY <1>2, <1>a, SMTT(30) DEF OrchestratorFails, DrainNodeFails, ApiError
  <1>3. ASSUME NEW n \in Node, ReconcileStep(n) \/ ReconcileDelay(n),
               pc[n] \notin InOrchestrator, UNCHANGED mcpVars
        PROVE  DrainInv'
    <2>1. \A m \in Node \ {n} : pc'[m] = pc[m]
      BY <1>0, <1>3, OtherWorkers, ZenonT(60)
    <2>2. pc'[n] \in BeingDrained => pc[n] \in BeingDrained
      BY <1>0, <1>3, WorkerMoves, ZenonT(60) DEF InOrchestrator
    <2>3. \A m \in Node : pc'[m] \in BeingDrained => pc[m] \in BeingDrained
      BY <2>1, <2>2
    <2> QED  BY <1>3, <1>b, <2>3, ZenonT(60) DEF mcpVars, DrainInv
  <1>4. ~RestartInOrchestrator
    BY <1>a DEF RestartInOrchestrator
  <1>5. CASE UNCHANGED <<pc, op, mcpMutex, paused, mark>>
    BY <1>5, <1>b, ZenonT(60) DEF DrainInv
  <1> QED  BY <1>1, <1>2, <1>3, <1>4, <1>5, PoolCases, ZenonT(60)

LEMMA DrainInvInit == SysInit /\ McpInit => CallInv /\ DrainInv
  <1> SUFFICES ASSUME SysInit, McpInit, NEW n \in Node
               PROVE  pc[n] = "idle" /\ op[n] = "out"
    BY DEF CallInv, DrainInv, ChangesPause, BeingDrained
  <1> QED  BY DEF SysInit, Init, ControllerInit, McpInit

(* Up to the first failure the pool is paused and the MCO idle for as long *)
(* as a node is cordoned and its pods evicted, if drains stay enabled and  *)
(* no drain is escalated to a reboot.                                      *)
THEOREM DrainsApart == McpSpec /\ []PlainRequests => []DrainsWithoutMco
  <1>1. McpSpec => []SysInv /\ [][SysNext]_sysVars
    BY McpIsSystem, SystemSafety, PTL DEF SysSpec
  <1>2. SysInv /\ Stand /\ PlainRequests /\ [SysNext]_sysVars => Stand'
    BY StandStep
  <1>3. SysInv /\ McpInv /\ CallInv /\ DrainInv /\ Stand /\ [McpNext]_mcpSysVars =>
           CallInv' /\ DrainInv'
    BY CallStep, DrainInvStep
  <1>4. McpInv /\ DrainInv => DrainsWithoutMco
    <2> SUFFICES ASSUME McpInv, DrainInv, NEW n \in Node, faults = 0, pc[n] \in {"cordon", "evict"}
                 PROVE  paused /\ \A m \in Node : target[m] = actual[m]
      BY DEF DrainsWithoutMco
    <2>1. paused /\ \A k \in Node : op[k] \notin ChangesPause
      BY DEF DrainInv, BeingDrained
    <2>2. McoIdle
      BY <2>1 DEF McpInv, PauseInv, ChangesPause
    <2> QED  BY <2>1, <2>2 DEF McoIdle
  <1>5. SysInit => Stand
    BY StandInit
  <1> QED  BY <1>1, <1>2, <1>3, <1>4, <1>5, DrainInvInit, McpSafety, PTL DEF McpSpec

-----------------------------------------------------------------------------
(* Who still has to look after a paused pool: a node that asked for a      *)
(* drain, or one whose un-drain has not been through the orchestrator.     *)
Responsible(n) ==
    \/ nodeAnno[n] \in Request
    \/ current[n] \in Busy /\ pc[n] # "annotateIdle"
LookedAfter == paused => \E n \in Node : Responsible(n)

(* A node stays responsible until the orchestrator is done with it, if its *)
(* request is not taken back before.                                       *)
LEMMA StaysResponsible ==
    ASSUME SysInv, [SysNext]_sysVars, RequestsStand, NEW n \in Node, Responsible(n),
           ~(pc[n] = "afterDrain" /\ pc'[n] = "annotateIdle")
    PROVE  Responsible(n)'
  <1>0. TypeOK /\ HandshakeInv /\ Managed \subseteq Node
    BY ProtocolAssumption DEF SysInv, SysTypeOK
  <1>1. ASSUME current[n] \in Busy, pc[n] # "annotateIdle"
        PROVE  current'[n] \in Busy /\ pc'[n] # "annotateIdle"
    <2>1. CASE ControllerKept
      BY <1>1, <2>1 DEF ControllerKept, protocolVars, ctrlVars
    <2>2. ASSUME NEW k \in Managed, ReconcileStep(k) \/ ReconcileDelay(k)
          PROVE  current'[n] \in Busy /\ pc'[n] # "annotateIdle"
      <3>1. CASE k = n
        BY <1>0, <1>1, <2>2, <3>1, WorkerMoves, ZenonT(60)
      <3>2. CASE k # n
        BY <1>0, <1>1, <2>2, <3>2, OtherWorkers, ZenonT(60)
      <3> QED  BY <3>1, <3>2
    <2>3. CASE OperatorRestart
      BY <1>1, <2>3 DEF OperatorRestart, protocolVars
    <2>4. CASE Environment
      BY <1>1, <2>4 DEF Environment, DaemonAnnotatesNode, DaemonAnnotatesState, SchedulePod, ctrlVars
    <2> QED  BY <2>1, <2>2, <2>3, <2>4, SysStepMaps, ZenonT(60) DEF Next, ControllerNext
  <1>2. CASE nodeAnno'[n] \in Request
    BY <1>2 DEF Responsible
  <1>3. CASE nodeAnno'[n] \notin Request
    <2>1. current[n] \in Busy /\ pc[n] # "annotateIdle"
      BY <1>3 DEF Responsible, RequestsStand, TakesBack, StillToUndrain, WhileUndraining
    <2> QED  BY <1>1, <2>1 DEF Responsible
  <1> QED  BY <1>2, <1>3

LEMMA LookedAfterStep ==
    ASSUME SysInv, McpInv, CallInv, LookedAfter, [McpNext]_mcpSysVars, RequestsStand
    PROVE  LookedAfter'
  <1>0. TypeOK /\ HandshakeInv /\ McpTypeOK /\ MarkInv /\ [SysNext]_sysVars
    BY McpStepMaps DEF SysInv, SysTypeOK, McpInv
  <1> SUFFICES ASSUME paused' PROVE \E k \in Node : Responsible(k)'
    BY DEF LookedAfter
  <1>1. ASSUME paused, \A k \in Node : ~(pc[k] = "afterDrain" /\ pc'[k] = "annotateIdle")
        PROVE  \E k \in Node : Responsible(k)'
    BY <1>0, <1>1, StaysResponsible, ZenonT(60) DEF LookedAfter
  <1>2. ASSUME NEW n \in Node, OrchestratorStep(n)
        PROVE  \E k \in Node : Responsible(k)'
    <2>1. CASE pc[n] = "afterDrain" /\ pc'[n] = "annotateIdle"
      <3>1. ListNodes(n) /\ OtherUnderConfiguration(n)
        <4>1. ~UNCHANGED sysVars /\ pc[n] # "beforeDrain"
          BY <2>1 DEF sysVars, vars, ctrlVars
        <4>3. ~MarkIdle(n)
          BY <1>0 DEF MarkIdle, MarkInv
        <4>4. ~GetPoolToPause(n) /\ ~GetPoolToUnpause(n)
          BY <1>0, <4>1 DEF GetPoolToPause, GetPoolToUnpause, Stay, MarkInv
        <4>5. ListNodes(n)
          BY <1>2, <4>1, <4>3, <4>4, ZenonT(60) DEF OrchestratorStep, CallInv, LockMcp, PauseAgain,
             MarkPaused, PausePool, RefetchPool, RevertPause, UnpausePool, Stay
        <4> QED  BY <4>1, <4>5 DEF ListNodes, Stay
      <3>2. UNCHANGED protocolVars
        BY <1>0, <1>2, OrchestratorEnds, ZenonT(60)
      <3> QED  BY <3>1, <3>2 DEF OtherUnderConfiguration, Responsible, protocolVars
    <2>2. CASE ~(pc[n] = "afterDrain" /\ pc'[n] = "annotateIdle") /\ paused
      <3>1. \A k \in Node : ~(pc[k] = "afterDrain" /\ pc'[k] = "annotateIdle")
        BY <1>0, <1>2, <2>2, OrchestratorEnds, ZenonT(60)
      <3> QED  BY <1>1, <2>2, <3>1, ZenonT(60)
    <2>3. CASE ~paused
      <3>1. op[n] \in {"pause", "pauseAgain"}
        BY <1>2, <2>3, ZenonT(60) DEF OrchestratorStep, LockMcp, GetPoolToPause, PauseAgain, MarkPaused,
           PausePool, RefetchPool, RevertPause, GetPoolToUnpause, ListNodes, UnpausePool, MarkIdle
      <3>2. pc[n] = "beforeDrain" /\ current[n] = "Draining"
        BY <1>0, <3>1, ZenonT(60) DEF CallInv, HandshakeInv, LocalInv, WorkerInv, WhileDraining
      <3>3. pc'[n] # "annotateIdle" /\ current' = current
        BY <1>0, <1>2, <3>2, OrchestratorEnds, ZenonT(60) DEF protocolVars
      <3> QED  BY <3>2, <3>3 DEF Responsible, Busy
    <2> QED  BY <2>1, <2>2, <2>3, ZenonT(60)
  <1>3. ASSUME NEW n \in Node, OrchestratorFails(n)
        PROVE  \E k \in Node : Responsible(k)'
    <2>1. ReconcileDelay(n) /\ paused
      BY <1>3 DEF OrchestratorFails, ReconcileDelay
    <2>2. pc'[n] # "annotateIdle"
      BY <1>0, <1>3 DEF OrchestratorFails, DrainNodeFails, ApiError, TypeOK, Goto, Return, Requeue
    <2>3. \A k \in Node \ {n} : pc'[k] = pc[k]
      BY <1>0, <2>1, OtherWorkers
    <2> QED  BY <1>1, <2>1, <2>2, <2>3, ZenonT(60)
  <1>4. ASSUME NEW n \in Node, ReconcileStep(n) \/ ReconcileDelay(n),
               pc[n] \notin InOrchestrator, UNCHANGED mcpVars
        PROVE  \E k \in Node : Responsible(k)'
    <2>1. paused /\ pc[n] # "afterDrain"
      BY <1>4 DEF mcpVars, InOrchestrator
    <2>2. \A k \in Node \ {n} : pc'[k] = pc[k]
      BY <1>0, <1>4, OtherWorkers
    <2> QED  BY <1>1, <2>1, <2>2
  <1>5. CASE RestartInOrchestrator
    BY <1>1, <1>5 DEF RestartInOrchestrator, OperatorRestart
  <1>6. CASE UNCHANGED <<pc, op, mcpMutex, paused, mark>>
    BY <1>1, <1>6
  <1> QED  BY <1>2, <1>3, <1>4, <1>5, <1>6, PoolCases, ZenonT(60)

(* Whatever fails, a pool is not left paused behind finished handshakes,   *)
(* if no request is taken back before its drain (RequestsKept says when).  *)
THEOREM PauseLifted == McpSpec /\ [][RequestsStand]_mcpSysVars => []NotLeftPaused
  <1>1. McpSpec => []SysInv
    BY McpIsSystem, SystemSafety, PTL
  <1>2. SysInit /\ McpInit => CallInv /\ LookedAfter
    BY DrainInvInit DEF McpInit, LookedAfter
  <1>3. /\ SysInv /\ McpInv /\ CallInv /\ LookedAfter
        /\ [McpNext]_mcpSysVars /\ [RequestsStand]_mcpSysVars
        => CallInv' /\ LookedAfter'
    <2> SUFFICES ASSUME SysInv, McpInv, CallInv, LookedAfter, [McpNext]_mcpSysVars,
                        [RequestsStand]_mcpSysVars
                 PROVE  CallInv' /\ LookedAfter'
      OBVIOUS
    <2>1. UNCHANGED mcpSysVars => RequestsStand
      BY DEF mcpSysVars, sysVars, vars, protocolVars, RequestsStand, TakesBack
    <2> QED  BY <2>1, CallStep, LookedAfterStep, ZenonT(60)
  <1>4. LookedAfter => NotLeftPaused
    BY DEF LookedAfter, NotLeftPaused, AllIdle, Responsible, Request, Busy
  <1> QED  BY <1>1, <1>2, <1>3, <1>4, McpSafety, PTL DEF McpSpec

(* In particular up to the first failure, if drains stay enabled, no drain *)
(* is escalated to a reboot and the controller is done with a new Node     *)
(* before its daemon.                                                      *)
THEOREM PauseLiftedFaultFree ==
    McpSpec /\ []PlainRequests /\ []AnnotatedFirst => [](faults = 0 => NotLeftPaused)
  <1>1. McpSpec => []SysInv /\ [][SysNext]_sysVars
    BY McpIsSystem, SystemSafety, PTL DEF SysSpec
  <1>2. SysInit /\ McpInit => CallInv /\ LookedAfter /\ Stand /\ First
    BY DrainInvInit, StandInit DEF McpInit, LookedAfter
  <1>3. /\ SysInv /\ McpInv /\ CallInv /\ Stand /\ First /\ (faults = 0 => LookedAfter)
        /\ PlainRequests /\ AnnotatedFirst /\ [McpNext]_mcpSysVars
        => CallInv' /\ Stand' /\ First' /\ (faults = 0 => LookedAfter)'
    <2> SUFFICES ASSUME SysInv, McpInv, CallInv, Stand, First, faults = 0 => LookedAfter,
                        PlainRequests, AnnotatedFirst, [McpNext]_mcpSysVars
                 PROVE  CallInv' /\ Stand' /\ First' /\ (faults' = 0 => LookedAfter')
      OBVIOUS
    <2>1. [SysNext]_sysVars
      BY McpStepMaps
    <2>2. Stand' /\ First' /\ (faults' = 0 => RequestsStand)
      BY <2>1, StandStep, TakenBack, ZenonT(60)
    <2>3. faults' = 0 => faults = 0
      BY <2>1, SysStepMaps, FaultsGrow DEF SysInv, SysTypeOK
    <2> QED  BY <2>2, <2>3, CallStep, LookedAfterStep, ZenonT(60)
  <1>4. LookedAfter => NotLeftPaused
    BY DEF LookedAfter, NotLeftPaused, AllIdle, Responsible, Request, Busy
  <1> QED  BY <1>1, <1>2, <1>3, <1>4, McpSafety, PTL DEF McpSpec
=============================================================================
