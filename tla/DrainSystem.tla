----------------------------- MODULE DrainSystem -----------------------------
(***************************************************************************)
(* The drain controller and the config daemons together.  Each side learns *)
(* of the other only through the annotations it watches: a changed Node    *)
(* annotation or current-state enqueues the node at the controller, a      *)
(* changed annotation of the NodeState enqueues it at the daemon.          *)
(***************************************************************************)
EXTENDS DrainController, ConfigDaemon

(* What the real daemons write is what the daemons of DrainController may  *)
(* write.                                                                  *)
ASSUME SystemAssumption == DaemonValue = Request \cup {"Idle"}

sysVars == <<vars, daemonVars>>

SysTypeOK == TypeOK /\ DaemonTypeOK

SysInit == Init /\ DaemonInit

(* Watches and predicates of the daemon and of the controller.             *)
DaemonWatches ==
    ddirty' = [n \in Node |->
        ddirty[n] \/ current'[n] # current[n] \/ desired'[n] # desired[n]]
ControllerWatches ==
    dirty' = [n \in Node |-> dirty[n] \/ nodeAnno'[n] # nodeAnno[n]]

KeepDaemon ==
    /\ DaemonWatches
    /\ UNCHANGED <<dpc, lastApplied, dGen, dNeed, dCur, dDes, dVal, gen, need,
                   tracker, reboots, sync, disableDrain, env>>
KeepController ==
    /\ ControllerWatches
    /\ UNCHANGED <<pc, rNode, mutex, toScan, count, own>>

ControllerTakesStep(n) == ReconcileStep(n) /\ KeepDaemon
DaemonTakesStep(n) == DaemonStep(n) /\ KeepController /\ UNCHANGED faults

DaemonFault(n) ==
    /\ faults < MaxFaults /\ faults' = faults + 1
    /\ DaemonCallFails(n) \/ DaemonRestart(n)
    /\ KeepController

SysNext ==
    \/ \E n \in Managed : ControllerTakesStep(n) \/ DaemonTakesStep(n) \/ DaemonFault(n)
    \/ \E n \in Managed : ReconcileDelay(n) /\ KeepDaemon
    \/ OperatorRestart /\ KeepDaemon
    \/ DaemonEnvironment /\ KeepController /\ UNCHANGED faults
    \/ \E n \in Managed, p \in PodKind :
          SchedulePod(n, p) /\ UNCHANGED <<ctrlVars, faults, daemonVars>>

(* The work queues of the operator and of the daemons serve every key they *)
(* hold, and a running reconcile goes on.  A sync.Mutex starves no waiter, *)
(* and an orchestrator that is asked again and again is ready in the end.  *)
(* Nothing is assumed of the specs, the host or failures.                  *)
SysFairness ==
    \A n \in Managed :
        /\ WF_sysVars(ControllerTakesStep(n))
        /\ SF_sysVars(Lock(n) /\ KeepDaemon)
        /\ SF_sysVars(BeforeDrainNode(n) /\ KeepDaemon)
        /\ SF_sysVars(AfterCompleteDrainNode(n) /\ KeepDaemon)
        /\ WF_sysVars(DaemonTakesStep(n))

SysSpec == SysInit /\ [][SysNext]_sysVars
FairSpec == SysSpec /\ SysFairness

-----------------------------------------------------------------------------
(* A node is reported DrainComplete only when DrainNode did its work on    *)
(* it: it is cordoned and none of its pods uses SR-IOV resources (a        *)
(* single-node cluster skips the drain for a reboot).                      *)
CompleteStep ==
    \A n \in Node :
        current[n] # "DrainComplete" /\ current'[n] = "DrainComplete" =>
            \/ SingleNode
            \/ cordoned[n] /\ "sriov" \notin pods[n]
CompleteOnlyWhenDrained == [][CompleteStep]_sysVars

(* "get a full drain before rebooting" (handleDrain): with drains enabled  *)
(* a node of a larger cluster is cordoned and empty when it reboots.       *)
RebootStep ==
    \A n \in Node :
        reboots'[n] # reboots[n] /\ reboots'[n].count > 0 =>
            \/ SingleNode
            \/ cordoned[n] /\ pods[n] = {}
RebootOnlyWhenDrained == [][RebootStep]_sysVars

(* The daemon touches the devices of a node for a change that needs a      *)
(* drain only when no pod on the node uses them.                           *)
ApplyStep ==
    \A n \in Node :
        dpc[n] = "apply" /\ dpc'[n] = "relNode" /\ dNeed[n] = "drain" =>
            "sriov" \notin pods[n]
ApplyOnlyWhenDrained == [][ApplyStep]_sysVars

(* The reboot loop limit: for one generation, and since it was last        *)
(* applied, a node is rebooted at most MaxReboots times, wherever the      *)
(* daemon or its calls fail.  (With the types of all variables.)           *)
RebootLimit == SysTypeOK /\ \A n \in Node : reboots[n].count <= MaxReboots

(* A generation the daemon remembers as applied is the one on the host,    *)
(* unless the host drifted since: a spec that arrives while apply runs is  *)
(* never taken for the one that was applied.                               *)
RecordedMeansApplied ==
    \A n \in Node : lastApplied[n] = gen[n] /\ env.drifts = 0 => need[n] = "none"

(* Every spec is eventually dealt with: applied and recorded, or given up  *)
(* at the reboot limit, or waiting for the slot of a node given up.        *)
GivenUp(n) == sync[n] = "Failed"
Settled(n) ==
    \/ lastApplied[n] = gen[n] /\ need[n] = "none"
    \/ \E m \in PoolMembers(n) : GivenUp(m)
EventuallySettled == \A n \in Managed : <>[]Settled(n)

(* After the last spec every node is eventually back in service: the       *)
(* handshake is idle and the node uncordoned, unless it or a node of its   *)
(* pool was given up.                                                      *)
BackInService(n) ==
    \/ nodeAnno[n] = "Idle" /\ current[n] = "Idle" /\ ~cordoned[n]
    \/ \E m \in PoolMembers(n) : GivenUp(m)
EventuallyBackInService == \A n \in Managed : <>[]BackInService(n)

=============================================================================
