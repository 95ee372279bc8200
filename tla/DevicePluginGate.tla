--------------------------- MODULE DevicePluginGate ---------------------------
(* The device plugin of a node and the config daemon. The plugin announces  *)
(* the VFs it finds when it starts, so the daemon has it restarted around a *)
(* configuration: afterwards, or, with blockDevicePluginUntilConfigured,    *)
(* before; then an init container marks the pod and waits until the daemon  *)
(* takes the mark away. Pods are replaced, the daemon and the node restart, *)
(* calls fail. Drains are left out.                                         *)
EXTENDS Naturals

CONSTANTS
    MaxGChanges,    \* bound on changes of the spec, drifts and replaced pods
    MaxGFaults      \* bound on failures

ASSUME GateAssumption == MaxGChanges \in Nat /\ MaxGFaults \in Nat

VARIABLES
    gate,           \* blockDevicePluginUntilConfigured
    ggen, gifs,     \* generation of the NodeState, and whether its spec has
                    \* interfaces
    gver,           \* how often the host was configured
    complete,       \* the last configuration came to its end
    drifted,        \* checkHostStateDrift would say so
    pod,            \* the pod of the plugin: its uid, phase, the mark, whether
                    \* it is being deleted, what the plugin has seen
    gpc, gcur, gtarget,     \* next step of the daemon, its NodeState, the pod
                            \* it deletes
    gdone,          \* lastAppliedGeneration
    unseen,         \* history: a reconcile of an applied generation failed
    gchanges, gfaults

gHost == <<gver, complete, drifted>>
gLocal == <<gpc, gcur, gtarget>>
gVars == <<gate, ggen, gifs, gHost, pod, gLocal, gdone, unseen, gchanges, gfaults>>

Phase == {"none", "init", "wait", "run"}
NoPod(uid) == [uid |-> uid, ph |-> "none", mark |-> FALSE, gone |-> FALSE, saw |-> 0]
NoTarget == 0
GIdle == gpc' = "idle" /\ gcur' = [gen |-> 0, ifs |-> FALSE] /\ gtarget' = NoTarget

GateInit ==
    /\ gate \in BOOLEAN /\ ggen = 1 /\ gifs = FALSE
    /\ gver = 0 /\ complete = FALSE /\ drifted = FALSE /\ pod = NoPod(0)
    /\ gpc = "idle" /\ gcur = [gen |-> 0, ifs |-> FALSE] /\ gtarget = NoTarget
    /\ gdone = 0 /\ unseen = FALSE /\ gchanges = 0 /\ gfaults = 0

-----------------------------------------------------------------------------
(* The pod. The daemon set runs it while the spec has interfaces; kubelet   *)
(* starts it, with its init container if the gate is on, and stops it.      *)
PodRest == UNCHANGED <<gate, ggen, gifs, gHost, gLocal, gdone, unseen, gfaults>>
CreatePod ==
    /\ pod.ph = "none" /\ gifs
    /\ pod' = [NoPod(pod.uid + 1) EXCEPT !.ph = "init"]
    /\ UNCHANGED gchanges /\ PodRest
DeletePod ==
    /\ pod.ph # "none" /\ ~pod.gone /\ ~gifs
    /\ pod' = [pod EXCEPT !.gone = TRUE]
    /\ UNCHANGED gchanges /\ PodRest
ReplacePod ==
    /\ pod.ph # "none" /\ ~pod.gone /\ gchanges < MaxGChanges
    /\ pod' = [pod EXCEPT !.gone = TRUE] /\ gchanges' = gchanges + 1 /\ PodRest
PodStops == pod.gone /\ pod' = NoPod(pod.uid) /\ UNCHANGED gchanges /\ PodRest

(* startWaitForConfigManager: the mark is set, then its removal awaited.    *)
SetAnnotationOnPod ==
    /\ gate /\ pod.ph = "init"
    /\ pod' = [pod EXCEPT !.ph = "wait", !.mark = TRUE]
    /\ UNCHANGED gchanges /\ PodRest
StartPlugin ==
    /\ pod.ph = IF gate THEN "wait" ELSE "init"
    /\ ~pod.mark
    /\ pod' = [pod EXCEPT !.ph = "run", !.saw = gver]
    /\ UNCHANGED gchanges /\ PodRest

-----------------------------------------------------------------------------
(* The daemon. A reconcile starts for a generation that is not applied or   *)
(* whose host drifted; with the gate the plugin is restarted first.         *)
GRest == UNCHANGED <<gate, ggen, gifs, gchanges, gfaults>>
StartReconcile ==
    /\ gpc = "idle" /\ (gdone # ggen \/ drifted)
    /\ gcur' = [gen |-> ggen, ifs |-> gifs]
    /\ gpc' = (IF gate THEN "list" ELSE "host") /\ gtarget' = NoTarget
    /\ UNCHANGED <<gHost, pod, gdone, unseen>> /\ GRest

(* tryUnblockDevicePlugin, also from time to time at an applied generation. *)
Unmarked == [pod EXCEPT !.mark = FALSE]
PeriodicUnblock ==
    /\ gpc = "idle" /\ gdone = ggen /\ ~drifted /\ gate /\ gifs /\ pod.mark
    /\ pod' = Unmarked
    /\ UNCHANGED <<gHost, gLocal, gdone, unseen>> /\ GRest

(* restartDevicePluginPod: list, delete, wait until the pod is gone or, the *)
(* name being taken again, another. A slip: its deletion has begun.         *)
Restarted == IF gate THEN "host" ELSE "finish"
ListPods ==
    /\ gpc = "list"
    /\ IF pod.ph = "none" THEN gpc' = Restarted /\ UNCHANGED gtarget
       ELSE gpc' = "delete" /\ gtarget' = pod.uid
    /\ UNCHANGED <<gHost, pod, gcur, gdone, unseen>> /\ GRest
DeleteListedPod ==
    /\ gpc = "delete"
    /\ IF pod.uid = gtarget /\ pod.ph # "none"
       THEN pod' = [pod EXCEPT !.gone = TRUE] /\ gpc' = "exit" /\ UNCHANGED gtarget
       ELSE gpc' = Restarted /\ gtarget' = NoTarget /\ UNCHANGED pod
    /\ UNCHANGED <<gHost, gcur, gdone, unseen>> /\ GRest
ExitBegun == pod.uid # gtarget \/ pod.ph = "none" \/ pod.gone
Exited == pod.uid # gtarget \/ pod.ph = "none"
WaitForExit ==
    /\ gpc = "exit" /\ Exited /\ gpc' = Restarted /\ gtarget' = NoTarget
    /\ UNCHANGED <<gHost, pod, gcur, gdone, unseen>> /\ GRest

(* Apply of the plugins, to its end.                                        *)
ConfigureHost ==
    /\ gpc = "host" /\ gpc' = (IF gate THEN "unblock" ELSE "list")
    /\ gver' = gver + 1 /\ complete' = TRUE /\ drifted' = FALSE
    /\ UNCHANGED <<pod, gcur, gtarget, gdone, unseen>> /\ GRest

(* waitForDevicePluginPodAndTryUnblock: nothing to wait for without         *)
(* interfaces; no mark within the time is no error.                         *)
WaitAndUnblock ==
    /\ gpc = "unblock" /\ gpc' = "finish"
    /\ \/ gcur.ifs /\ pod.mark /\ pod' = Unmarked
       \/ ~(gcur.ifs /\ pod.mark) /\ UNCHANGED pod
    /\ UNCHANGED <<gHost, gcur, gtarget, gdone, unseen>> /\ GRest

Finish ==
    /\ gpc = "finish" /\ gdone' = gcur.gen /\ GIdle
    /\ UNCHANGED <<gHost, pod, unseen>> /\ GRest

-----------------------------------------------------------------------------
GFault == gfaults < MaxGFaults /\ gfaults' = gfaults + 1
(* A call fails or times out; a configuration that fails has changed the    *)
(* host, in ways the drift check sees or does not see. The next reconcile   *)
(* makes up for it if the generation was not applied yet.                   *)
GCallFails ==
    /\ gpc # "idle" /\ GFault /\ GIdle
    /\ \/ gpc = "host" /\ gver' = gver + 1 /\ complete' = FALSE /\ drifted' \in BOOLEAN
       \/ UNCHANGED gHost
    /\ unseen' = (unseen \/ (gdone = ggen /\ ~drifted'))
    /\ UNCHANGED <<gate, ggen, gifs, pod, gdone, gchanges>>
GDaemonEnds ==
    /\ GFault /\ GIdle /\ gdone' = 0
    /\ \/ gpc = "host" /\ gver' = gver + 1 /\ complete' = FALSE /\ UNCHANGED drifted
       \/ UNCHANGED gHost
    /\ UNCHANGED <<gate, ggen, gifs, pod, unseen, gchanges>>
(* A reboot removes the VFs; kubelet runs the pod anew, its init container  *)
(* included, and the mark stays as it was.                                  *)
NodeReboots ==
    /\ GFault /\ GIdle /\ gdone' = 0
    /\ gver' = gver + 1 /\ complete' = FALSE
    /\ pod' = IF pod.ph = "none" \/ pod.gone THEN NoPod(pod.uid) ELSE [pod EXCEPT !.ph = "init"]
    /\ UNCHANGED <<gate, ggen, gifs, drifted, unseen, gchanges>>

GNewSpec ==
    /\ gchanges < MaxGChanges /\ gchanges' = gchanges + 1
    /\ ggen' = ggen + 1 /\ gifs' \in BOOLEAN
    /\ UNCHANGED <<gate, gHost, pod, gLocal, gdone, unseen, gfaults>>
HostDrifts ==
    /\ gchanges < MaxGChanges /\ gchanges' = gchanges + 1
    /\ drifted' = TRUE /\ gver' = gver + 1
    /\ UNCHANGED <<gate, ggen, gifs, complete, pod, gLocal, gdone, unseen, gfaults>>

PodStep == CreatePod \/ DeletePod \/ PodStops \/ SetAnnotationOnPod \/ StartPlugin
GDaemonStep ==
    \/ StartReconcile \/ PeriodicUnblock \/ ListPods \/ DeleteListedPod \/ WaitForExit
    \/ ConfigureHost \/ WaitAndUnblock \/ Finish
GateNext ==
    \/ PodStep \/ ReplacePod \/ GDaemonStep \/ GCallFails \/ GDaemonEnds \/ NodeReboots
    \/ GNewSpec \/ HostDrifts

(* Kubernetes runs the pod, and the daemon's queue is served.               *)
GateSpec == GateInit /\ [][GateNext]_gVars /\ WF_gVars(PodStep) /\ WF_gVars(GDaemonStep)

-----------------------------------------------------------------------------
GateTypeOK ==
    /\ pod.uid \in Nat /\ pod.ph \in Phase /\ pod.saw \in 0 .. gver
    /\ {gdone, gcur.gen} \subseteq 0 .. ggen /\ gtarget \in 0 .. pod.uid
    /\ gpc \in {"idle", "list", "delete", "exit", "host", "unblock", "finish"}

(* With the gate the host is configured only while no plugin runs, and a    *)
(* plugin starts only on a host whose configuration came to its end: no VF  *)
(* is announced that is yet to be configured. Excepted is a repair of a     *)
(* drift that fails where the drift check does not look.                    *)
NoPluginMeanwhile ==
    [][gate => /\ ConfigureHost => pod.ph # "run"
               /\ StartPlugin => complete \/ unseen]_gVars

(* With or without the gate: in the end, if the spec has interfaces, a      *)
(* plugin runs that started after the last change of the host.              *)
PluginCurrent == gifs => (pod.ph = "run" /\ ~pod.gone /\ pod.saw = gver) \/ unseen
PluginSeesHost == <>[]PluginCurrent
=============================================================================
