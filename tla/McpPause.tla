------------------------------- MODULE McpPause ------------------------------
(***************************************************************************)
(* The OpenShift orchestrator: what BeforeDrainNode and                    *)
(* AfterCompleteDrainNode of DrainSystem do on a cluster with a machine    *)
(* config operator (MCO).  The MCO drains and reboots nodes on its own to  *)
(* roll out a new machine config, so the drain controller pauses the       *)
(* MachineConfigPool of a node before it drains the node, and the last     *)
(* node of the pool to come back lifts the pause.  Every API call is a     *)
(* step; mcpPauseMutex is held from the first to the last of a call of the *)
(* orchestrator.  All nodes belong to one MachineConfigPool.               *)
(*                                                                         *)
(* The MCO is external: it gives nodes of a pool that is not paused the    *)
(* pool's configuration, finishes what it started even if the pool is      *)
(* paused meanwhile, and reports the configuration in the status of the    *)
(* pool once every node has it.                                            *)
(***************************************************************************)
EXTENDS DrainSystem

CONSTANT MaxConfigs  \* bound on machine configs rolled out

ASSUME McpAssumption == MaxConfigs \in Nat

VARIABLES
    op,        \* next call of the orchestrator for the node, "out" outside it
    mcpMutex,  \* holder of mcpPauseMutex
    paused,    \* spec.paused of the pool
    mark,      \* the operator's annotation on the pool
    config,    \* configuration of the pool: spec and status
    target,    \* config the MCO wants on the node
    actual     \* config the node runs

mcpVars == <<op, mcpMutex, paused, mark, config, target, actual>>
mcpSysVars == <<sysVars, mcpVars>>

OrchestratorCall == {"out", "get", "pauseAgain", "annotate", "pause", "refetch", "revert",
          "unmark", "list", "unpause"}

ConfigNumber == 0..MaxConfigs

McpTypeOK ==
    /\ SysTypeOK
    /\ op \in [Node -> OrchestratorCall]
    /\ mcpMutex \in Node \cup {NoNode}
    /\ paused \in BOOLEAN
    /\ mark \in {"none", "Paused", "Idle"}
    /\ config \in [spec : ConfigNumber, status : ConfigNumber]
    /\ target \in [Node -> ConfigNumber]
    /\ actual \in [Node -> ConfigNumber]

McpInit ==
    /\ op = [n \in Node |-> "out"]
    /\ mcpMutex = NoNode
    /\ paused = FALSE
    /\ mark = "none"
    /\ config = [spec |-> 0, status |-> 0]
    /\ target = [n \in Node |-> 0]
    /\ actual = [n \in Node |-> 0]

(* The MCO is applying something.                                          *)
Updating == config.spec # config.status

-----------------------------------------------------------------------------
Call(n, label) == op' = [op EXCEPT ![n] = label]
Stay(n, label) == Call(n, label) /\ UNCHANGED <<sysVars, mcpMutex>>
Leave(n) == Call(n, "out") /\ mcpMutex' = NoNode
ReadyToDrain(n) == Leave(n) /\ BeforeDrainNode(n) /\ KeepDaemon
NotReadyToDrain(n) == Leave(n) /\ BeforeDrainNodeNotReady(n) /\ KeepDaemon
Completed(n) == Leave(n) /\ AfterCompleteDrainNode(n) /\ KeepDaemon
KeepMco == UNCHANGED <<config, target, actual>>

LockMcp(n) ==
    /\ pc[n] \in {"beforeDrain", "afterDrain"} /\ op[n] = "out"
    /\ mcpMutex = NoNode /\ mcpMutex' = n
    /\ Call(n, "get")
    /\ KeepMco /\ UNCHANGED <<sysVars, paused, mark>>

(* BeforeDrainNode reads the pool.  A pool the operator marked is ready    *)
(* once it is paused; one it did not mark is marked and paused unless the  *)
(* MCO is at work.                                                         *)
GetPoolToPause(n) ==
    /\ op[n] = "get" /\ pc[n] = "beforeDrain"
    /\ CASE mark = "Paused" /\ paused -> ReadyToDrain(n)
         [] ~(mark = "Paused" /\ paused) /\ Updating -> NotReadyToDrain(n)
         [] mark = "Paused" /\ ~paused /\ ~Updating -> Stay(n, "pauseAgain")
         [] mark # "Paused" /\ ~Updating -> Stay(n, "annotate")
    /\ KeepMco /\ UNCHANGED <<paused, mark>>

PauseAgain(n) ==
    /\ op[n] = "pauseAgain"
    /\ paused' = TRUE
    /\ ReadyToDrain(n)
    /\ KeepMco /\ UNCHANGED mark

\* a slip: the pool is paused without the mark
MarkPausedSkipped(n) ==
    /\ op[n] = "annotate"
    /\ Stay(n, "pause")
    /\ KeepMco /\ UNCHANGED <<paused, mark>>

MarkPaused(n) ==
    /\ op[n] = "annotate"
    /\ mark' = "Paused"
    /\ Stay(n, "pause")
    /\ KeepMco /\ UNCHANGED paused

PausePool(n) ==
    /\ op[n] = "pause"
    /\ paused' = TRUE
    /\ Stay(n, "refetch")
    /\ KeepMco /\ UNCHANGED mark

(* The pool is read again: an update that began meanwhile goes first.      *)
\* a slip: the pool is not looked at again
RefetchIgnored(n) ==
    /\ op[n] = "refetch"
    /\ ReadyToDrain(n)
    /\ KeepMco /\ UNCHANGED <<paused, mark>>

RefetchPool(n) ==
    /\ op[n] = "refetch"
    /\ IF Updating THEN Stay(n, "revert") ELSE ReadyToDrain(n)
    /\ KeepMco /\ UNCHANGED <<paused, mark>>

\* a slip: only the mark is reverted
RevertMarkOnly(n) ==
    /\ op[n] = "revert"
    /\ Stay(n, "unmark")
    /\ KeepMco /\ UNCHANGED <<paused, mark>>

RevertPause(n) ==
    /\ op[n] = "revert"
    /\ paused' = FALSE
    /\ Stay(n, "unmark")
    /\ KeepMco /\ UNCHANGED mark

(* AfterCompleteDrainNode: nothing to do for a pool that is not marked;    *)
(* otherwise the pause stays as long as the Node of another node of the    *)
(* pool is annotated with anything but Idle.                               *)
GetPoolToUnpause(n) ==
    /\ op[n] = "get" /\ pc[n] = "afterDrain"
    /\ IF mark = "Paused" THEN Stay(n, "list") ELSE Completed(n)
    /\ KeepMco /\ UNCHANGED <<paused, mark>>

OtherUnderConfiguration(n) == \E m \in Node \ {n} : nodeAnno[m] \in Request

ListNodes(n) ==
    /\ op[n] = "list"
    /\ IF OtherUnderConfiguration(n) THEN Completed(n) ELSE Stay(n, "unpause")
    /\ KeepMco /\ UNCHANGED <<paused, mark>>

UnpausePool(n) ==
    /\ op[n] = "unpause"
    /\ paused' = FALSE
    /\ Stay(n, "unmark")
    /\ KeepMco /\ UNCHANGED mark

(* The mark becomes Idle after the pause was lifted, in both calls.        *)
\* a slip: the mark is emptied
MarkCleared(n) ==
    /\ op[n] = "unmark"
    /\ mark' = ""
    /\ IF pc[n] = "beforeDrain" THEN NotReadyToDrain(n) ELSE Completed(n)
    /\ KeepMco /\ UNCHANGED paused

MarkIdle(n) ==
    /\ op[n] = "unmark"
    /\ mark' = "Idle"
    /\ IF pc[n] = "beforeDrain" THEN NotReadyToDrain(n) ELSE Completed(n)
    /\ KeepMco /\ UNCHANGED paused

OrchestratorStep(n) ==
    \/ LockMcp(n) \/ GetPoolToPause(n) \/ PauseAgain(n) \/ MarkPaused(n)
    \/ PausePool(n) \/ RefetchPool(n) \/ RevertPause(n)
    \/ GetPoolToUnpause(n) \/ ListNodes(n) \/ UnpausePool(n) \/ MarkIdle(n)

(* Any of these calls fails, and with it DrainNode or CompleteDrainNode.   *)
OrchestratorFails(n) ==
    /\ pc[n] \in {"beforeDrain", "afterDrain"}
    /\ Call(n, "out")
    /\ mcpMutex' = IF mcpMutex = n THEN NoNode ELSE mcpMutex
    /\ DrainNodeFails(n) \/ ApiError(n)
    /\ KeepDaemon
    /\ KeepMco /\ UNCHANGED <<paused, mark>>

RestartInOrchestrator ==
    /\ OperatorRestart /\ KeepDaemon
    /\ op' = [n \in Node |-> "out"]
    /\ mcpMutex' = NoNode
    /\ KeepMco /\ UNCHANGED <<paused, mark>>

-----------------------------------------------------------------------------
(* The machine config operator.                                            *)
NewMachineConfig ==
    /\ config.spec < MaxConfigs
    /\ config' = [config EXCEPT !.spec = @ + 1]
    /\ UNCHANGED <<sysVars, op, mcpMutex, paused, mark, target, actual>>

McoStartsNode(n) ==
    /\ ~paused /\ target[n] = actual[n] /\ target[n] # config.spec
    /\ target' = [target EXCEPT ![n] = config.spec]
    /\ UNCHANGED <<sysVars, op, mcpMutex, paused, mark, config, actual>>

McoFinishesNode(n) ==
    /\ target[n] # actual[n]
    /\ actual' = [actual EXCEPT ![n] = target[n]]
    /\ UNCHANGED <<sysVars, op, mcpMutex, paused, mark, config, target>>

McoReports ==
    /\ Updating /\ \A n \in Node : actual[n] = config.spec
    /\ config' = [config EXCEPT !.status = config.spec]
    /\ UNCHANGED <<sysVars, op, mcpMutex, paused, mark, target, actual>>

McoStep == McoReports \/ \E n \in Node : McoStartsNode(n) \/ McoFinishesNode(n)

-----------------------------------------------------------------------------
(* The controller outside the orchestrator, and the daemons.               *)
OtherReconcileStep(n) ==
    /\ pc[n] \notin {"beforeDrain", "afterDrain"}
    /\ ControllerTakesStep(n) /\ UNCHANGED mcpVars
OtherReconcileFault(n) ==
    /\ pc[n] \notin {"beforeDrain", "afterDrain"}
    /\ ReconcileDelay(n) /\ KeepDaemon /\ UNCHANGED mcpVars

McpNext ==
    \/ \E n \in Managed : OrchestratorStep(n) \/ OrchestratorFails(n)
    \/ \E n \in Managed : OtherReconcileStep(n) \/ OtherReconcileFault(n)
    \/ \E n \in Managed : (DaemonTakesStep(n) \/ DaemonFault(n)) /\ UNCHANGED mcpVars
    \/ DaemonEnvironment /\ KeepController /\ UNCHANGED <<faults, mcpVars>>
    \/ RestartInOrchestrator
    \/ NewMachineConfig
    \/ McoStep

McpSpec == SysInit /\ McpInit /\ [][McpNext]_mcpSysVars

(* Nothing is assumed of the orchestrator's answers here: it must become   *)
(* ready because the MCO finishes what it does.                            *)
McpFairness ==
    /\ WF_mcpSysVars(McoStep)
    /\ \A n \in Managed :
        /\ WF_mcpSysVars(OrchestratorStep(n))
        /\ SF_mcpSysVars(LockMcp(n))
        /\ WF_mcpSysVars(OtherReconcileStep(n))
        /\ SF_mcpSysVars(Lock(n) /\ OtherReconcileStep(n))
        /\ WF_mcpSysVars(DaemonTakesStep(n) /\ UNCHANGED mcpVars)

-----------------------------------------------------------------------------
(* BeforeDrainNode "pauses the node's MachineConfigPool before draining to *)
(* prevent automatic reboots": while DrainNode cordons a node and evicts   *)
(* its pods the pool is paused and the MCO is at work on none of its       *)
(* nodes, as long as no call failed.                                       *)
DrainsWithoutMco ==
    \A n \in Node :
        faults = 0 /\ pc[n] \in {"cordon", "evict"} =>
            paused /\ \A m \in Node : target[m] = actual[m]

(* "we do it in that order to avoid any edge cases where we pause but      *)
(* didn't add our label" (BeforeDrainNode): a pool the operator paused     *)
(* carries its mark, so that AfterCompleteDrainNode will lift the pause,   *)
(* wherever a call fails.  (With the types of all variables.)              *)
PausedIsMarked == McpTypeOK /\ (paused => mark = "Paused")

(* "only the last node in the machine config pool that finish the drain    *)
(* should remove the pause" (AfterCompleteDrainNode): when the handshake   *)
(* of every node is back to Idle and no reconcile is running, the pool is  *)
(* not left paused.                                                        *)
AllIdle ==
    \A n \in Node : nodeAnno[n] = "Idle" /\ current[n] = "Idle" /\ pc[n] = "idle"
NotLeftPaused == AllIdle => ~paused

(* Drains and the MCO do not hold each other up for ever: while no call    *)
(* fails every machine config reaches every node and every spec is         *)
(* applied, although nothing is assumed of the orchestrator's answers.     *)
EventuallyRolledOut == <>(faults > 0) \/ (<>[](~Updating) /\ EventuallySettled)

=============================================================================
