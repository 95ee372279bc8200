---------------------------- MODULE MCControllers ----------------------------
(* Controllers of the operator's process that share no state: those of the  *)
(* operator config, of a pool config and of the networks. Init chooses the  *)
(* one whose objects users change, and the others rest.                     *)
EXTENDS PoolConfig, NetworkController, TLC

CONSTANTS a, b

VARIABLE part

MCSpecs ==
    {[sel |-> {}, flags |-> {"injector", "webhook", "block"}],
     [sel |-> {"a"}, flags |-> {"webhook", "metrics"}],
     [sel |-> {"a", "b"}, flags |-> {"systemd", "cdi"}]}
MCFlavors == {"k8s", "openshift", "hypershift"}
MCProfiles == {"", "modern"}
MCFilled == {"operatorHook", "configDaemon", "devicePlugin"}
MCRemoved == {"configDaemon", "operatorHook"}
MCMcp == {"worker", "master"}
MCPoolName == {"", "worker", "master", "missing"}
MCOvsConfig == {"on", "other", "unsafe"}
MCBudgets == {<<3, 0>>, <<0, 4>>}
NoBudget == {<<0, 0>>}

(* One network in the operator's namespace, which may target either other   *)
(* namespace, and one of another kind in an application's namespace.        *)
TwoHomes == a :> "op" @@ b :> "app"
TwoKinds == a :> "SriovNetwork" @@ b :> "OVSNetwork"
OneHome == a :> "op"
OneKind == a :> "SriovIBNetwork"

(* Specs: the own namespace, one that may not exist yet, the application's  *)
(* one with an option the renderer drops, and one that is not JSON.         *)
Asks(target, content) == [target |-> target, content |-> content]
TwoSpecs == {Asks("", "vlan" :> "v1"), Asks("new", "vlan" :> "v1")}
FourSpecs == TwoSpecs \cup {Asks("app", "vlan" :> "v1" @@ "linkState" :> "invalid"),
                            Asks("", "ipam" :> "invalid")}
(* b keeps to its namespace or is misplaced; a has every spec.              *)
ForB == {Asks("", "vlan" :> "v1"), Asks("app", "vlan" :> "v1" @@ "linkState" :> "invalid")}
KeepsTo == \A n \in Net \ {a} : cr'[n] # NoCR => cr'[n].spec \in ForB

configVars == <<opVars, poolVars>>
mcVars == <<configVars, netVars, part>>

Networks == part = "network"
MCInit ==
    /\ part \in {"network", "config"} /\ NetworkInit /\ ControllersInit
    /\ Networks => flavor = "k8s" /\ profile = "" /\ left = 0
OfNetworks(A) == Networks /\ A /\ UNCHANGED <<configVars, part>>
OfConfigs(A) == ~Networks /\ A /\ UNCHANGED <<netVars, part>>
MCNext == OfNetworks(NetworkNext /\ KeepsTo) \/ OfConfigs(ControllersNext)

(* NetworkFairness and ControllersFairness of the part the behaviour has.   *)
(* The networks are of different kinds and so do not share a worker. One    *)
(* garbage collector serves all objects; users leave it finitely many.      *)
MCFairness ==
    /\ \A n \in Net : WF_mcVars(OfNetworks(StartReconcile(n) \/ ReconcileStep(n)))
    /\ WF_mcVars(OfNetworks(\E ns \in Namespace : GarbageCollectNad(ns)))
    /\ WF_mcVars(OfConfigs(OperatorStep /\ UNCHANGED poolVars))
    /\ WF_mcVars(OfConfigs(Requeue /\ UNCHANGED poolVars))
    /\ WF_mcVars(OfConfigs(CleanupDelete /\ UNCHANGED poolVars))
    /\ WF_mcVars(OfConfigs((\E o \in Object : GarbageCollect(o)) /\ UNCHANGED poolVars))
    /\ WF_mcVars(OfConfigs(PoolStep)) /\ WF_mcVars(OfConfigs(PoolRequeue))
MCSpec == MCInit /\ [][MCNext]_mcVars /\ MCFairness

(* Once users, other controllers and failures are done, what is looked at   *)
(* comes to rest as its objects ask for: every network that is not wedged   *)
(* has its NAD and every deletion completes; or the operator config and the *)
(* pool have what their specs deploy, and no more.                          *)
ControllersSettle ==
    <>[](IF Networks THEN \A n \in Net : Provisioned(n) ELSE Settled /\ PoolSettled)
=============================================================================
