---------------------------- MODULE OperatorConfig ----------------------------
(* SriovOperatorConfigReconciler and the clean-up command. The controller   *)
(* deploys, updates and removes what the default SriovOperatorConfig asks   *)
(* for, one object after the other, each read before it is written. Users,  *)
(* the garbage collector, the controllers that fill in CA bundles, and a    *)
(* failure or a restart of the operator come in between.                    *)
EXTENDS Integers, Sequences

CONSTANTS
    OpSpec,         \* specs users give the SriovOperatorConfig
    Flavors,        \* clusters to run in: "k8s", "openshift", "hypershift"
    Profiles,       \* TLS profiles of the cluster, "" for none
    EnvTls, EnvCA,  \* from the operator's environment, "" if not set
    Filled,         \* objects that other controllers write into
    Removed,        \* objects that users may remove
    NoConfig, NoObject

Config == [uid : Nat, gen : Nat, deleting : BOOLEAN, fin : BOOLEAN, spec : OpSpec,
           ready : [uid : Nat, gen : Nat, ok : BOOLEAN]]

ASSUME OperatorAssumption ==
    /\ NoConfig \notin Config /\ "" \in Profiles
    /\ Flavors \subseteq {"k8s", "openshift", "hypershift"} /\ {"", EnvTls} \subseteq STRING
    /\ \A s \in OpSpec : s.sel \subseteq STRING /\ s.flags \subseteq STRING

VARIABLES
    config,         \* the default SriovOperatorConfig
    objects,        \* what the operator deploys
    profile,        \* TLS profile of the cluster
    queued, pc,     \* work queue and worker of the controller
    snap, tls,      \* its copy of the config, its TLS data
    plan, found,    \* objects left, the first of them as read
    cleanup,        \* the clean-up command
    nextUid, left,  \* uid of the next config; events left
    flavor          \* the cluster it runs in

worker == <<pc, snap, tls, plan, found>>
opVars == <<config, objects, profile, queued, worker, cleanup, nextUid, left, flavor>>

Openshift == flavor # "k8s"
Hypershift == flavor = "hypershift"
Hooks == {"injectorHook", "operatorHook"}       \* cluster-scoped
Injector == <<"injectorHook", "injectorServer">>
Webhook == <<"operatorHook", "operatorServer">>
Object == {"injectorHook", "injectorServer", "operatorHook", "operatorServer",
           "configDaemon", "devicePlugin", "metrics", "machineConfig"}
Unowned == Hooks \cup {"machineConfig"}
NotReady == [uid |-> 0, gen |-> 0, ok |-> FALSE]

OperatorInit ==
    /\ config = NoConfig /\ objects = [o \in Object |-> NoObject] /\ profile = ""
    /\ queued = FALSE /\ pc = "idle" /\ snap = NoConfig /\ tls = ""
    /\ plan = <<>> /\ found = NoObject /\ cleanup = "idle" /\ nextUid = 1 /\ flavor \in Flavors

-----------------------------------------------------------------------------
(* What a spec asks for; "flags" holds the switches and gates that are on.  *)
IsEnabled(s, feature) == feature \in s.flags
Wanted(s, o) ==
    CASE o \in {"injectorHook", "injectorServer"} -> "injector" \in s.flags
      [] o \in {"operatorHook", "operatorServer"} -> "webhook" \in s.flags
      [] o = "metrics"                            -> IsEnabled(s, "metrics")
      [] o = "machineConfig"                      -> "systemd" \in s.flags
      [] OTHER                                    -> TRUE

(* The rendered data of each object. Without a selector in the spec the     *)
(* manifest's own stays.                                                    *)
Contents(sel, flags, t) == [sel |-> sel, flags |-> flags, tls |-> t]
NodeSelector(s) == IF s.sel = {} THEN {"default"} ELSE s.sel
NodeSelectorForDevicePlugin(s) == NodeSelector(s) \cup {"device-plugin"}
WebhookData(o, t) == Contents({}, {}, IF o \in Hooks THEN "" ELSE t)
ConfigDaemonData(s) == Contents(NodeSelector(s), s.flags \cap {"systemd"}, "")
PluginData(s) == Contents(NodeSelectorForDevicePlugin(s), s.flags \cap {"cdi", "block"}, "")
MetricsData(s, t) == Contents(NodeSelector(s), {}, t)
SystemdServiceData(s) == Contents(NodeSelector(s), {}, "")
Data(s, t, o) ==
    CASE o = "configDaemon"  -> ConfigDaemonData(s)
      [] o = "devicePlugin"  -> PluginData(s)
      [] o = "metrics"       -> MetricsData(s, t)
      [] o = "machineConfig" -> SystemdServiceData(s)
      [] OTHER               -> WebhookData(o, t)

(* Only namespaced objects get the owner reference. "kept" stands for what  *)
(* other controllers write into an object.                                  *)
Rendered(c, t, o) ==
    [owner |-> IF o \in Unowned THEN 0 ELSE c.uid,
     data |-> Data(c.spec, t, o),
     kept |-> IF o \in Hooks THEN EnvCA ELSE ""]

(* getTLSTemplateData: the cluster's profile goes before the environment.   *)
GetTLSConfig == IF Openshift THEN profile ELSE ""
TlsTemplateData == IF GetTLSConfig # "" THEN GetTLSConfig ELSE EnvTls

(* MergeObjectForUpdate: CA bundle, secrets, cluster IP and annotations     *)
(* stay unless the rendering sets them, and labels (those of the            *)
(* MachineConfig are the node selector) add up.                             *)
MergeKept(old, new) == IF new.kept = "" THEN old.kept ELSE new.kept
MergeLabels(o, old, new) == IF o = "machineConfig" THEN old.data.sel \cup new.data.sel ELSE new.data.sel
MergeObjectForUpdate(o, old, new) ==
    [new EXCEPT !.kept = MergeKept(old, new), !.data.sel = MergeLabels(o, old, new)]

(* syncDaemonSet: a smaller node selector or a shorter list of arguments    *)
(* counts as no change; "block" switches a label's value.                   *)
DeepDerivative(new, old) ==
    /\ new.sel \subseteq old.sel
    /\ "cdi" \in new.flags => "cdi" \in old.flags
    /\ ("block" \in new.flags) = ("block" \in old.flags)

-----------------------------------------------------------------------------
Elsewhere == UNCHANGED <<profile, cleanup, nextUid, left, flavor>>
Idle == /\ pc' = "idle" /\ snap' = NoConfig /\ tls' = "" /\ plan' = <<>> /\ found' = NoObject

(* applyReadyCondition writes by name, for the generation that was read,    *)
(* unless it was so already; a config that is gone is no error.             *)
ApplyReadyCondition(ok) ==
    LET ready == [uid |-> snap.uid, gen |-> snap.gen, ok |-> ok] IN
    config' = IF config = NoConfig \/ snap.ready = ready THEN config
              ELSE [config EXCEPT !.ready = ready]
ReturnError == Idle /\ queued' = TRUE /\ ApplyReadyCondition(FALSE)

Get ==
    /\ pc = "idle" /\ queued /\ queued' = FALSE
    /\ IF config = NoConfig THEN UNCHANGED worker
       ELSE /\ snap' = config /\ UNCHANGED <<tls, found>>
            /\ pc' = IF config.deleting THEN "delete" ELSE "finalizer"
            /\ plan' = IF config.deleting /\ config.fin THEN <<"operatorHook", "injectorHook">> ELSE <<>>
    /\ UNCHANGED <<config, objects>> /\ Elsewhere

(* syncOperatorConfigFinalizers: a merge patch, then the object once more.  *)
SyncOperatorConfigFinalizers ==
    /\ pc = "finalizer"
    /\ \/ /\ snap.fin
          /\ pc' = "sync" /\ UNCHANGED <<config, queued, snap, tls, plan, found>>
       \/ /\ ~snap.fin /\ config # NoConfig
          /\ config' = [config EXCEPT !.fin = TRUE]
          /\ pc' = "refresh" /\ UNCHANGED <<queued, snap, tls, plan, found>>
       \/ ~snap.fin /\ config = NoConfig /\ ReturnError
    /\ UNCHANGED objects /\ Elsewhere
Refresh ==
    /\ pc = "refresh"
    /\ snap' = config /\ pc' = "sync"
    /\ UNCHANGED <<config, objects, queued, tls, plan, found>> /\ Elsewhere

(* syncWebhookObjs ranges over a Go map: either webhook may come first.     *)
SyncWebhookObjs ==
    /\ pc = "sync"
    /\ \E order \in {Injector \o Webhook, Webhook \o Injector} :
          plan' = order \o <<"configDaemon", "devicePlugin", "metrics">>
                        \o IF Openshift THEN <<"machineConfig">> ELSE <<>>
    /\ tls' = TlsTemplateData /\ pc' = "read"
    /\ UNCHANGED <<config, objects, queued, snap, found>> /\ Elsewhere

Unsupported(s) == "systemd" \in s.flags /\ Hypershift   \* errSystemdModeOnHypershift

(* ApplyObject, DeleteObject and syncDaemonSet start with a get. The        *)
(* metrics exporter reads the TLS data anew.                                *)
Read ==
    /\ pc = "read" /\ plan # <<>>
    /\ \/ Head(plan) = "machineConfig" /\ Unsupported(snap.spec) /\ ReturnError
       \/ /\ Head(plan) = "machineConfig" => ~Unsupported(snap.spec)
          /\ found' = objects[Head(plan)] /\ pc' = "write"
          /\ tls' = IF Head(plan) = "metrics" THEN TlsTemplateData ELSE tls
          /\ UNCHANGED <<config, queued, snap, plan>>
    /\ UNCHANGED objects /\ Elsewhere

(* The second call: create, update at the version that was read, or, for    *)
(* the device plugin, update at any version. A slip: update at any version. *)
Unchanged(o, new) ==
    IF o = "devicePlugin" THEN new.owner = found.owner /\ DeepDerivative(new.data, found.data)
    ELSE MergeObjectForUpdate(o, found, new) = found
FailsIfGone(o, new) ==
    \/ found = NoObject /\ objects[o] # NoObject
    \/ found # NoObject /\ ~Unchanged(o, new) /\ objects[o] = NoObject
Fails(o, new) ==
    \/ found = NoObject /\ objects[o] # NoObject
    \/ /\ found # NoObject /\ ~Unchanged(o, new)
       /\ objects[o] = NoObject \/ (o # "devicePlugin" /\ objects[o] # found)
Result(o, new) ==
    CASE found = NoObject    -> new
      [] Unchanged(o, new)   -> objects[o]
      [] o = "devicePlugin"  -> new
      [] OTHER               -> MergeObjectForUpdate(o, found, new)
Write ==
    /\ pc = "write"
    /\ LET o == Head(plan)
           new == Rendered(snap, tls, o)
           To(v) == /\ objects' = [objects EXCEPT ![o] = v]
                    /\ plan' = Tail(plan) /\ found' = NoObject /\ pc' = "read"
                    /\ UNCHANGED <<config, queued, snap, tls>>
       IN
       IF Wanted(snap.spec, o)
       THEN \/ ~Fails(o, new) /\ To(Result(o, new))
            \/ Fails(o, new) /\ ReturnError /\ UNCHANGED objects
       ELSE \/ found = NoObject /\ To(objects[o])
            \/ found # NoObject /\ objects[o] # NoObject /\ To(NoObject)
            \/ found # NoObject /\ objects[o] = NoObject /\ ReturnError /\ UNCHANGED objects
    /\ Elsewhere
Finish ==
    /\ pc = "read" /\ plan = <<>>
    /\ Idle /\ ApplyReadyCondition(TRUE)
    /\ UNCHANGED <<objects, queued>> /\ Elsewhere

(* handleSriovOperatorConfigDeletion: deleteAllWebhooks, then the           *)
(* finalizer, at the version that was read. A slip: the finalizer first.    *)
DeleteAllWebhooks ==
    /\ pc = "delete" /\ plan # <<>>
    /\ objects' = [objects EXCEPT ![Head(plan)] = NoObject] /\ plan' = Tail(plan)
    /\ UNCHANGED <<config, queued, pc, snap, tls, found>> /\ Elsewhere
RemoveFinalizerEarly ==
    /\ pc = "delete" /\ config' = IF config = snap THEN NoConfig ELSE config
    /\ Idle /\ UNCHANGED <<objects, queued>> /\ Elsewhere
RemoveFinalizer ==
    /\ pc = "delete" /\ plan = <<>>
    /\ \/ /\ config = snap
          /\ config' = NoConfig /\ pc' = "read" /\ UNCHANGED <<queued, snap, tls, plan, found>>
       \/ config # snap /\ ReturnError
    /\ UNCHANGED objects /\ Elsewhere

OperatorStep ==
    \/ Get \/ SyncOperatorConfigFinalizers \/ Refresh \/ SyncWebhookObjs
    \/ Read \/ Write \/ Finish \/ DeleteAllWebhooks \/ RemoveFinalizer

(* RequeueAfter, and the watch of the DaemonSets it owns.                   *)
Requeue ==
    /\ ~queued /\ config # NoConfig /\ pc = "idle" /\ queued' = TRUE
    /\ UNCHANGED <<config, objects, worker>> /\ Elsewhere

-----------------------------------------------------------------------------
(* What happens around the controller; every event costs one of "left".     *)
Event == left > 0 /\ left' = left - 1 /\ UNCHANGED flavor
CreateConfig(s) ==
    /\ Event /\ config = NoConfig
    /\ config' = [uid |-> nextUid, gen |-> 1, deleting |-> FALSE, fin |-> FALSE,
                  spec |-> s, ready |-> NotReady]
    /\ nextUid' = nextUid + 1 /\ queued' = TRUE
    /\ UNCHANGED <<objects, profile, worker, cleanup>>
EditConfig(s) ==
    /\ Event /\ config # NoConfig /\ config.spec # s
    /\ config' = [config EXCEPT !.spec = s, !.gen = @ + 1] /\ queued' = TRUE
    /\ UNCHANGED <<objects, profile, worker, cleanup, nextUid>>
Deleted == IF config.fin THEN [config EXCEPT !.deleting = TRUE, !.gen = IF config.deleting THEN @ ELSE @ + 1]
           ELSE NoConfig
DeleteConfig ==
    /\ Event /\ config # NoConfig /\ config' = Deleted /\ config' # config /\ queued' = TRUE
    /\ UNCHANGED <<objects, profile, worker, cleanup, nextUid>>
SetProfile(p) ==
    /\ Event /\ Openshift /\ profile # p /\ profile' = p /\ queued' = (queued \/ config # NoConfig)
    /\ UNCHANGED <<config, objects, worker, cleanup, nextUid>>
Fill(o) ==
    /\ Event /\ objects[o] # NoObject /\ objects[o].kept = ""
    /\ objects' = [objects EXCEPT ![o].kept = "filled"]
    /\ UNCHANGED <<config, profile, queued, worker, cleanup, nextUid>>
Remove(o) ==
    /\ Event /\ objects[o] # NoObject /\ objects' = [objects EXCEPT ![o] = NoObject]
    /\ UNCHANGED <<config, profile, queued, worker, cleanup, nextUid>>
(* A call fails, or the operator restarts.                                  *)
Fail ==
    /\ Event /\ pc # "idle" /\ Idle /\ queued' = TRUE
    /\ \/ ApplyReadyCondition(FALSE)
       \/ UNCHANGED config
    /\ UNCHANGED <<objects, profile, cleanup, nextUid>>
GarbageCollect(o) ==
    /\ objects[o] # NoObject /\ objects[o].owner # 0
    /\ IF config = NoConfig THEN TRUE ELSE config.uid # objects[o].owner
    /\ objects' = [objects EXCEPT ![o] = NoObject]
    /\ UNCHANGED <<config, queued, worker>> /\ Elsewhere

(* runCleanupCmd: get, delete, poll until the config is gone or time is up. *)
CleanupGet ==
    /\ Event /\ cleanup = "idle"
    /\ cleanup' = IF config = NoConfig THEN "done" ELSE "delete"
    /\ UNCHANGED <<config, objects, profile, queued, worker, nextUid>>
CleanupDelete ==
    /\ cleanup = "delete"
    /\ IF config = NoConfig THEN cleanup' = "done" /\ UNCHANGED <<config, queued>>
       ELSE cleanup' = "poll" /\ config' = Deleted /\ queued' = TRUE
    /\ UNCHANGED <<objects, profile, worker, nextUid, left, flavor>>
CleanupPoll ==
    /\ cleanup = "poll"
    /\ \/ config = NoConfig /\ cleanup' = "done"
       \/ config # NoConfig /\ cleanup' = "failed"
    /\ UNCHANGED <<config, objects, profile, queued, worker, nextUid, left, flavor>>

OperatorNext ==
    \/ OperatorStep \/ Requeue \/ DeleteConfig \/ Fail
    \/ \E s \in OpSpec : CreateConfig(s) \/ EditConfig(s)
    \/ \E p \in Profiles : SetProfile(p)
    \/ \E o \in Filled : Fill(o)
    \/ \E o \in Removed : Remove(o)
    \/ \E o \in Object : GarbageCollect(o)
    \/ CleanupGet \/ CleanupDelete \/ CleanupPoll

-----------------------------------------------------------------------------
(* Type correctness, and that only an object with a finalizer is "deleting".*)
OperatorTypeOK ==
    /\ config = NoConfig \/ (config \in Config /\ (config.deleting => config.fin))
    /\ pc \in {"idle", "finalizer", "refresh", "sync", "read", "write", "delete"}
    /\ pc = "idle" <=> snap = NoConfig
    /\ pc = "refresh" => config # NoConfig /\ config.fin
    /\ profile \in Profiles /\ cleanup \in {"idle", "delete", "poll", "done", "failed"}

(* While there is no SriovOperatorConfig no webhook configuration of the    *)
(* operator is left in the cluster ("make sure webhooks objects are deleted *)
(* prior of removing finalizer"), whatever was under way when it was        *)
(* deleted: their servers go with the config, and an admission              *)
(* configuration without a server would block every request it matches.     *)
(* With it, the types.                                                      *)
NoOrphanWebhook ==
    /\ OperatorTypeOK
    /\ config = NoConfig => \A o \in Hooks : objects[o] = NoObject

(* ApplyObject never wipes what other controllers have written into an      *)
(* object, such as the injected CA bundle, even if it came after the read.  *)
NeverDropsForeign ==
    [][\A o \in Object \ {"devicePlugin"} :
          (objects[o] # NoObject /\ objects'[o] # NoObject)
            => (objects[o].kept = "filled" => objects'[o].kept # "")]_opVars

(* What is deployed for an object is what a config asks for, as the         *)
(* controller compares them.                                                *)
Matches(c, o) ==
    IF Wanted(c.spec, o)
    THEN /\ objects[o] # NoObject
         /\ LET new == Rendered(c, TlsTemplateData, o) IN
            /\ objects[o].owner = new.owner
            /\ IF o = "devicePlugin" THEN DeepDerivative(new.data, objects[o].data)
               ELSE MergeObjectForUpdate(o, objects[o], new) = objects[o]
    ELSE objects[o] = NoObject
Deployed == IF Openshift THEN Object ELSE Object \ {"machineConfig"}

(* Liveness. Once users and failures are done, the cluster comes to rest:   *)
(* a config that is not deleted has every object it asks for, as it asks    *)
(* for them, none it does not, and is Ready at its generation; a deleted    *)
(* one is gone, with everything that was deployed for it.                   *)
Settled ==
    IF config = NoConfig THEN \A o \in Object \ {"machineConfig"} : objects[o] = NoObject
    ELSE /\ ~config.deleting
         /\ \/ Unsupported(config.spec)
            \/ /\ \A o \in Deployed : Matches(config, o)
               /\ config.ready = [uid |-> config.uid, gen |-> config.gen, ok |-> TRUE]
OperatorSettles == <>[]Settled

(* What the test of the node selector expects of the device plugin: its     *)
(* DaemonSet comes to have the selector and the arguments of the config.    *)
PluginFollowsConfig ==
    <>[](IF config = NoConfig THEN TRUE
         ELSE config.deleting \/ Unsupported(config.spec)
              \/ (objects["devicePlugin"] # NoObject
                    /\ objects["devicePlugin"].data = PluginData(config.spec)))

OperatorFairness ==
    /\ WF_opVars(OperatorStep) /\ WF_opVars(Requeue)
    /\ WF_opVars(CleanupDelete)
    /\ \A o \in Object : WF_opVars(GarbageCollect(o))
=============================================================================
