----------------------------- MODULE MCMcpPause ------------------------------
(* Two questions in one run, as the initial state chooses: two nodes drain *)
(* at once and nothing fails, or one node goes through several specs with  *)
(* failures.                                                               *)
EXTENDS McpPause, TLC

CONSTANTS n1, n2, p1
VARIABLE part

WholePoolNodes == p1 :> {n1, n2}
TwoAtOnce == p1 :> [type |-> "int", val |-> 2]
OneAtATime == p1 :> [type |-> "int", val |-> 1]

(* Every node that takes part needs a drain when the daemons start.        *)
DrainNeededInit ==
    /\ ProtocolSteady /\ ControllerInit /\ faults = 0
    /\ DaemonBoot /\ McpInit
    /\ part \in {"one", "two"}
    /\ need = [n \in Node |-> IF part = "two" \/ n = n1 THEN "drain" ELSE "none"]
    /\ lastApplied = [n \in Node |-> IF part = "two" \/ n = n1 THEN 0 ELSE 1]

(* Nothing fails in the second part.  n1 is the first to get a slot: the   *)
(* daemon of n2 starts when n1 is about to call the orchestrator, or       *)
(* later.  The MCO updates n1, then n2.                                    *)
Within ==
    IF part = "one"
    THEN /\ pc'[n2] = pc[n2] /\ op'[n2] = op[n2] /\ gen'[n2] = gen[n2]
         /\ lastApplied'[n2] = lastApplied[n2]
    ELSE /\ UNCHANGED <<gen, faults>>
         /\ dpc'[n2] # "idle" => current[n1] # "Idle" \/ lastApplied[n1] = 1
         /\ target'[n2] <= actual[n1]
DrainNeededNext == McpNext /\ Within /\ UNCHANGED part
(* McpFairness of n1: only part "one" asks for liveness.  Nobody contends  *)
(* with n1 for a mutex there, so weak fairness of its reconcile will do.   *)
Alone == part = "one"
DrainNeededSpec ==
    /\ DrainNeededInit /\ [][DrainNeededNext]_<<mcpSysVars, part>>
    /\ WF_mcpSysVars(Alone /\ McoStep)
    /\ WF_mcpSysVars(Alone /\ (OrchestratorStep(n1) \/ OtherReconcileStep(n1)))
    /\ WF_mcpSysVars(Alone /\ DaemonTakesStep(n1) /\ UNCHANGED mcpVars)

(* Where n1 is alone, drains and rollouts do not hold each other up: while *)
(* no call fails every machine config reaches every node and every spec is *)
(* applied, whatever BeforeDrainNode answers (EventuallyRolledOut).        *)
RolledOut == Alone => EventuallyRolledOut
=============================================================================
