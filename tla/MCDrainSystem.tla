---------------------------- MODULE MCDrainSystem ----------------------------
(* Instances of DrainSystem. The liveness run asks two questions that need *)
(* different bounds, and its initial state says which: one node and        *)
(* several specs, or two nodes that contend for a slot.                    *)
EXTENDS DrainSystem, TLC

CONSTANTS n1, n2, p1
VARIABLE part

NoPoolNodes == <<>>

SteadyInit == HandshakesIdle /\ ControllerInit /\ faults = 0 /\ DaemonBoot
(* n2 has its spec already; or both nodes have work, n1 needs a reboot.    *)
OneNodeInit ==
    /\ SteadyInit /\ part = "one" /\ pods = [n \in Node |-> PodKind]
    /\ need = [n \in Node |-> "none"]
    /\ lastApplied = [n \in Node |-> IF n = n1 THEN 0 ELSE 1]
TwoNodesInit ==
    /\ SteadyInit /\ part = "two" /\ pods = [n \in Node |-> {}]
    /\ need = [n \in Node |-> IF n = n1 THEN "reboot" ELSE "drain"]
    /\ lastApplied = [n \in Node |-> 0]

(* What keeps to the question: n2 stays as it is, no pods come, and drains *)
(* are switched off or a third spec comes; or the specs stay.              *)
Serves(n) == part = "two" \/ n = n1
Within ==
    IF part = "one"
    THEN /\ pc'[n2] = pc[n2] /\ gen'[n2] = gen[n2] /\ pods'[n2] = pods[n2]
         /\ pods'[n1] \subseteq pods[n1]
         /\ gen'[n1] + env'.toggles <= 3
    ELSE UNCHANGED <<gen, disableDrain, pods>>
LiveNext == SysNext /\ Within /\ UNCHANGED part
(* SysFairness of the nodes the run serves.                                *)
LiveSpec ==
    /\ (OneNodeInit \/ TwoNodesInit) /\ [][LiveNext]_<<sysVars, part>>
    /\ \A n \in Managed :
        /\ WF_sysVars(Serves(n) /\ ControllerTakesStep(n))
        /\ SF_sysVars(Serves(n) /\ Lock(n) /\ KeepDaemon)
        /\ SF_sysVars(Serves(n) /\ BeforeDrainNode(n) /\ KeepDaemon)
        /\ SF_sysVars(Serves(n) /\ AfterCompleteDrainNode(n) /\ KeepDaemon)
        /\ WF_sysVars(Serves(n) /\ DaemonTakesStep(n))

FaultsInit == SysInit /\ part = "one"
FaultsSpec == FaultsInit /\ [][SysNext /\ UNCHANGED part]_<<sysVars, part>>
RebootSpec ==
    /\ SteadyInit /\ part = "one" /\ pods = [n \in Node |-> PodKind]
    /\ need = [n \in Node |-> "none"] /\ lastApplied = [n \in Node |-> 0]
    /\ [][SysNext /\ UNCHANGED part]_<<sysVars, part>>
=============================================================================
