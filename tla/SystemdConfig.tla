---------------------------- MODULE SystemdConfig -----------------------------
(* A node whose SR-IOV configuration is made by systemd services at boot.   *)
(* The config daemon leaves the spec in a file, asks for a reboot and reads *)
(* the services' verdict from another file; the k8s plugin installs the     *)
(* units; the services run before and after the network comes up, and       *)
(* before the kubelet, hence before the daemon. In daemon mode the daemon   *)
(* configures the host itself and removes the files. Calls fail, processes  *)
(* are killed, power is lost. The drain is seen from the daemon: asked for, *)
(* then granted (DrainSystem has the protocol).                             *)
EXTENDS Integers

CONSTANTS
    Value,          \* VF configurations; 0 is no interfaces, hence no VFs
    Switchdev,      \* the values that need the OVS drop-in
    MaxReboots,     \* consts.MaxRebootsPerGeneration
    MaxChanges,     \* bound on spec changes, upgrades and mode switches
    MaxFaults       \* bound on failures

ASSUME SystemdAssumption ==
    /\ 0 \in Value /\ Value \subseteq Nat /\ Switchdev \subseteq Value \ {0}
    /\ MaxReboots \in Nat \ {0} /\ MaxChanges \in Nat /\ MaxFaults \in Nat

NoFile == -1        \* conf: the file is missing
EmptyFile == -2     \* conf: created or truncated, and not yet written
Unit == {"pre", "post"}

VARIABLES
    spec,           \* generation and value of the NodeState's spec
    systemd,        \* vars.UsingSystemdMode of the daemon
    host,           \* VF configuration of the host
    units, dropin,  \* services: "absent", "old" or "current"; OVS drop-in
    conf, result, nics, tracker,    \* the other files of the node
    boot, spc,      \* phase of the boot, next step of its service
    dpc, queued,    \* next step of the daemon, its work queue
    dSpec, dResult, dDrain, dReboot, newFile,  \* its local variables
    lastApplied,
    drain,          \* "idle", "requested" or "complete"
    status,         \* syncStatus, and the generation it is about
    changes, faults,
    stale           \* history: a fault spared a result that was due to go

files == <<units, dropin, conf, result, nics, tracker>>
local == <<dSpec, dResult, dDrain, dReboot, newFile>>
daemon == <<dpc, queued, local, lastApplied>>
sVars == <<spec, systemd, host, files, boot, spc, daemon, drain, status, changes, faults, stale>>

NoSpec == [gen |-> 0, val |-> 0]
SystemdInit ==
    /\ spec = [gen |-> 1, val |-> 0] /\ systemd \in BOOLEAN /\ host = 0
    /\ units = [u \in Unit |-> "absent"] /\ dropin = FALSE
    /\ conf = NoFile /\ result = "none" /\ nics = FALSE
    /\ tracker = [gen |-> 0, count |-> 0]
    /\ boot = "up" /\ spc = "start"
    /\ dpc = "init" /\ queued = TRUE /\ dSpec = NoSpec /\ dResult = "none"
    /\ dDrain = FALSE /\ dReboot = FALSE /\ newFile = FALSE /\ lastApplied = 0
    /\ drain = "idle" /\ status = [st |-> "", gen |-> 0]
    /\ changes = 0 /\ faults = 0 /\ stale = FALSE

(* A step of the daemon ends the reconcile, or goes on.                     *)
Forget ==
    /\ dpc' = "idle" /\ dSpec' = NoSpec /\ dResult' = "none"
    /\ dDrain' = FALSE /\ dReboot' = FALSE /\ newFile' = FALSE
Restart ==
    /\ dpc' = "init" /\ dSpec' = NoSpec /\ dResult' = "none"
    /\ dDrain' = FALSE /\ dReboot' = FALSE /\ newFile' = FALSE
    /\ queued' = TRUE /\ lastApplied' = 0

-----------------------------------------------------------------------------
(* The services. A unit that is not installed is skipped; a config file     *)
(* without content is a nil pointer, hence a panic before any result;       *)
(* without the list of supported NICs the phase fails.                      *)
Enabled(u) == units[u] # "absent"
NextPhase == spc' = "start" /\ boot' = IF boot = "pre" THEN "post" ELSE "up"
ServiceRest ==
    UNCHANGED <<spec, systemd, units, dropin, conf, nics, tracker, daemon, drain, status, changes>>
NoUnit ==
    /\ boot # "up" /\ ~Enabled(boot) /\ NextPhase
    /\ UNCHANGED <<host, result, faults, stale>> /\ ServiceRest
ServiceStarts == boot # "up" /\ spc = "start" /\ Enabled(boot)
NewServiceConfig ==
    /\ ServiceStarts /\ conf = EmptyFile /\ NextPhase
    /\ stale' = (stale \/ (boot = "pre" /\ result # "none"))
    /\ UNCHANGED <<host, result, faults>> /\ ServiceRest
InitSupportedNics ==
    /\ ServiceStarts /\ conf # EmptyFile /\ ~nics
    /\ result' = "Failed" /\ NextPhase
    /\ UNCHANGED <<host, faults, stale>> /\ ServiceRest

(* phasePre: the outdated result goes first.                                *)
PhasePre ==
    /\ ServiceStarts /\ conf # EmptyFile /\ nics /\ boot = "pre"
    /\ result' = "none" /\ stale' = FALSE /\ spc' = "apply"
    /\ UNCHANGED <<boot, host, faults>> /\ ServiceRest

(* phasePost reads the verdict of the pre phase; no file is a nil pointer,  *)
(* hence a panic.                                                           *)
PrePhaseOk == "InProgress"
PhasePost ==
    /\ ServiceStarts /\ conf # EmptyFile /\ nics /\ boot = "post"
    /\ \/ result = "none" /\ NextPhase /\ UNCHANGED result
       \/ result \notin {"none", PrePhaseOk} /\ result' = "Failed" /\ NextPhase
       \/ result = PrePhaseOk /\ spc' = "apply" /\ UNCHANGED <<boot, result>>
    /\ UNCHANGED <<host, faults, stale>> /\ ServiceRest

(* callPlugin and updateSriovResultOk. The plugin of the pre phase leaves   *)
(* the VFs alone; a missing config file is an empty spec.                   *)
CallPlugin ==
    /\ boot # "up" /\ spc = "apply"
    /\ IF boot = "pre" THEN result' = "InProgress" /\ UNCHANGED host
       ELSE result' = "Succeeded" /\ host' = IF conf = NoFile THEN 0 ELSE conf
    /\ NextPhase
    /\ UNCHANGED <<faults, stale>> /\ ServiceRest

Fault == faults < MaxFaults /\ faults' = faults + 1
(* The plugin fails and updateSriovResultErr says so; or the service is     *)
(* killed, at the latest with the result file truncated.                    *)
ServiceFails ==
    /\ ServiceStarts \/ (boot # "up" /\ spc = "apply")
    /\ Fault /\ NextPhase
    /\ \/ spc = "apply" /\ result' \in {"Failed", "", result}
       \/ spc = "start" /\ UNCHANGED result
    /\ stale' = (stale \/ (boot = "pre" /\ spc = "start" /\ result # "none"))
    /\ UNCHANGED host /\ ServiceRest

-----------------------------------------------------------------------------
(* The daemon. Init in daemon mode: CleanSriovFilesFromHost, file by file;  *)
(* the first error ends it and is only logged.                              *)
At(label) == boot = "up" /\ dpc = label
DaemonRest == UNCHANGED <<spec, systemd, boot, spc, changes>>
CleanSriovFilesFromHost ==
    /\ At("init") /\ dpc' = "idle"
    /\ IF systemd THEN UNCHANGED <<units, conf, result, nics, stale>>
       ELSE /\ conf' = NoFile /\ result' = "none" /\ nics' = FALSE
            /\ units' = [u \in Unit |-> "absent"] /\ stale' = FALSE
    /\ UNCHANGED <<host, dropin, tracker, queued, local, lastApplied, drain, status, faults>>
    /\ DaemonRest
CleanFails ==
    /\ At("init") /\ ~systemd /\ Fault /\ dpc' = "idle"
    /\ \/ conf' \in {conf, NoFile} /\ stale' = (stale \/ result # "none") /\ UNCHANGED <<result, nics>>
       \/ conf' = NoFile /\ result' = "none" /\ stale' = FALSE /\ nics' \in {nics, FALSE}
    /\ UNCHANGED <<host, units, dropin, tracker, queued, local, lastApplied, drain, status>>
    /\ DaemonRest

(* Reconcile starts with CheckSystemdStatus and, at an applied generation,  *)
(* checkHostStateDrift: only interfaces of the spec can drift, and the very *)
(* first spec, without any, is a success.                                   *)
CheckSystemdStatus == IF systemd /\ \A u \in Unit : Enabled(u) THEN result ELSE "none"
CheckHostStateDrift == spec.val # 0 /\ host # spec.val
Reconcile ==
    /\ At("idle") /\ queued
    /\ IF lastApplied = spec.gen /\ ~CheckHostStateDrift
       THEN /\ spec = [gen |-> 1, val |-> 0]
            /\ status' = [st |-> "Succeeded", gen |-> 1]
            /\ UNCHANGED <<dpc, queued, local>>
       ELSE /\ dpc' = "progress" /\ dSpec' = spec /\ dResult' = CheckSystemdStatus
            /\ queued' = FALSE
            /\ UNCHANGED <<dDrain, dReboot, newFile, status>>
    /\ UNCHANGED <<host, files, lastApplied, drain, faults, stale>> /\ DaemonRest
StatusCheckFails ==
    /\ At("idle") /\ queued /\ systemd /\ Fault
    /\ status' = [st |-> "Failed", gen |-> spec.gen] /\ queued' = FALSE
    /\ UNCHANGED <<host, files, dpc, local, lastApplied, drain, stale>> /\ DaemonRest

(* updateSyncState(InProgress), which sees a newer generation, and the      *)
(* plugins: the generic plugin drains to change VFs in use, the k8s plugin  *)
(* reboots for a unit or a drop-in that is not the wanted one.              *)
SriovServicesStateUpdate == systemd /\ \E u \in Unit : units[u] # "current"
OvsServiceStateUpdate == dSpec.val \in Switchdev /\ ~dropin
CheckOnNodeStateChange ==
    /\ At("progress")
    /\ status' = [st |-> "InProgress", gen |-> spec.gen]
    /\ IF spec.gen # dSpec.gen
       THEN Forget /\ queued' = TRUE
       ELSE /\ dReboot' = (SriovServicesStateUpdate \/ OvsServiceStateUpdate)
            /\ dDrain' = (dReboot' \/ (host # 0 /\ host # dSpec.val))
            /\ dpc' = IF systemd THEN "create" ELSE "drain"
            /\ UNCHANGED <<queued, dSpec, dResult, newFile>>
    /\ UNCHANGED <<host, files, lastApplied, drain, faults, stale>> /\ DaemonRest

(* writeSystemdConfigFile: WriteConfFile creates the file, writes it if it  *)
(* differs and calls that a change unless the file is new and the spec      *)
(* empty; a change removes the result; the NIC list is written every time.  *)
CreateConfFile ==
    /\ At("create") /\ dpc' = "write"
    /\ newFile' = (conf = NoFile) /\ conf' = IF conf = NoFile THEN EmptyFile ELSE conf
    /\ UNCHANGED <<host, units, dropin, result, nics, tracker, queued, dSpec, dResult, dDrain,
                   dReboot, lastApplied, drain, status, faults, stale>> /\ DaemonRest
WriteConfFile ==
    /\ At("write") /\ conf' = dSpec.val
    /\ dpc' = IF conf = dSpec.val \/ (newFile /\ dSpec.val = 0) THEN "nics" ELSE "remove"
    /\ UNCHANGED <<host, units, dropin, result, nics, tracker, queued, local, lastApplied,
                   drain, status, faults, stale>> /\ DaemonRest

(* A slip: the changed file removes the result and asks for no reboot.      *)
RemoveSriovResultOnly ==
    /\ At("remove") /\ result' = "none" /\ stale' = FALSE /\ dpc' = "nics"
    /\ UNCHANGED <<host, units, dropin, conf, nics, tracker, queued, local, lastApplied,
                   drain, status, faults>> /\ DaemonRest
RemoveSriovResult ==
    /\ At("remove") /\ result' = "none" /\ stale' = FALSE /\ dDrain' = TRUE /\ dpc' = "nics"
    /\ UNCHANGED <<host, units, dropin, conf, nics, tracker, queued, dSpec, dResult, dReboot,
                   newFile, lastApplied, drain, status, faults>> /\ DaemonRest

(* Without a result there is a drain, and in systemd mode a drain is a      *)
(* reboot.                                                                  *)
WriteSriovSupportedNics ==
    /\ At("nics") /\ nics' = TRUE /\ dpc' = "drain"
    /\ dDrain' = (dDrain \/ dResult = "none") /\ dReboot' = (dReboot \/ dDrain')
    /\ UNCHANGED <<host, units, dropin, conf, result, tracker, queued, dSpec, dResult, newFile,
                   lastApplied, drain, status, faults, stale>> /\ DaemonRest

(* handleDrain and isDrainCompleted. A drain under way is waited for; one   *)
(* that is no longer needed and not started yet just ends the reconcile.    *)
HandleDrain ==
    /\ At("drain")
    /\ IF drain = "complete" \/ (drain = "idle" /\ ~dDrain)
       THEN dpc' = "plugins" /\ UNCHANGED <<queued, local, drain, status>>
       ELSE /\ drain' = "requested" /\ Forget
            /\ \/ status' = [st |-> "InProgress", gen |-> spec.gen] /\ queued' = TRUE
               \/ ~dDrain /\ queued' = FALSE /\ UNCHANGED status
    /\ UNCHANGED <<host, files, lastApplied, faults, stale>> /\ DaemonRest
DrainCompletes ==
    /\ drain = "requested" /\ drain' = "complete" /\ queued' = TRUE
    /\ UNCHANGED <<spec, systemd, host, files, boot, spc, dpc, local, lastApplied, status,
                   changes, faults, stale>>

(* apply. The k8s plugin installs what it missed: pre, post, drop-in.       *)
K8sApply ==
    /\ At("plugins") /\ dpc' = "main"
    /\ units' = [u \in Unit |-> IF systemd THEN "current" ELSE units[u]]
    /\ dropin' = (dropin \/ dSpec.val \in Switchdev)
    /\ UNCHANGED <<host, conf, result, nics, tracker, queued, local, lastApplied, drain,
                   status, faults, stale>> /\ DaemonRest

(* The generic plugin only runs without a reboot and without systemd. A     *)
(* reboot is counted, and refused at the limit. A slip: one too many.       *)
GetRebootCount == IF tracker.gen = dSpec.gen THEN tracker.count ELSE 0
Reboot == boot' = "pre" /\ spc' = "start" /\ host' = 0 /\ Restart
ApplyMain ==
    /\ At("main") /\ ~dReboot /\ dpc' = "publish"
    /\ host' = IF systemd THEN host ELSE dSpec.val
    /\ UNCHANGED <<files, queued, local, lastApplied, drain, status, faults, stale>> /\ DaemonRest
RebootLimitReached ==
    /\ At("main") /\ dReboot /\ GetRebootCount >= MaxReboots
    /\ status' = [st |-> "Failed", gen |-> dSpec.gen] /\ Forget
    /\ UNCHANGED <<host, files, queued, lastApplied, drain, faults, stale>> /\ DaemonRest
BelowLimit == GetRebootCount < MaxReboots
BelowOrAtLimit == GetRebootCount <= MaxReboots
RebootIf(allowed) ==
    /\ At("main") /\ dReboot /\ allowed
    /\ tracker' = [gen |-> dSpec.gen, count |-> GetRebootCount + 1] /\ Reboot
    /\ UNCHANGED <<spec, systemd, units, dropin, conf, result, nics, drain, status, changes,
                   faults, stale>>
RebootNodeLate == RebootIf(BelowOrAtLimit)
RebootNode == RebootIf(BelowLimit)

(* The end of apply: the drain is released, the verdict published, the      *)
(* counter reset and the generation recorded.                               *)
Publish ==
    /\ At("publish") /\ drain' = "idle"
    /\ status' = [st |-> IF systemd THEN dResult ELSE "Succeeded", gen |-> dSpec.gen]
    /\ tracker' = [gen |-> dSpec.gen, count |-> 0] /\ lastApplied' = dSpec.gen
    /\ Forget /\ queued' = TRUE
    /\ UNCHANGED <<host, units, dropin, conf, result, nics, faults, stale>> /\ DaemonRest

-----------------------------------------------------------------------------
(* Faults of the daemon: a step fails and is retried, or the process ends;  *)
(* either way possibly half done. Power loss ends everything.               *)
Spared == stale' = (stale \/ (At("remove") /\ result # "none"))
HalfDone ==
    /\ conf' \in IF At("write") THEN {conf, EmptyFile} ELSE {conf}
    /\ Spared
    /\ units' \in IF At("plugins") /\ systemd THEN {units, [units EXCEPT !["pre"] = "current"],
                                                    [u \in Unit |-> "current"]} ELSE {units}
    /\ tracker' \in IF At("main") /\ dReboot /\ BelowLimit
                    THEN {tracker, [gen |-> dSpec.gen, count |-> GetRebootCount + 1]} ELSE {tracker}
    /\ drain' \in IF At("publish") THEN {drain, "idle"} ELSE {drain}
DaemonFails ==
    /\ boot = "up" /\ dpc \notin {"init", "idle"} /\ Fault /\ HalfDone
    /\ \/ Restart
       \/ Forget /\ queued' = TRUE /\ UNCHANGED lastApplied
    /\ UNCHANGED <<spec, systemd, host, dropin, result, nics, boot, spc, status, changes>>
PowerLoss ==
    /\ Fault /\ HalfDone /\ Reboot
    /\ UNCHANGED <<spec, systemd, dropin, result, nics, status, changes>>

(* The environment: a new spec; an upgrade with new units; a new mode. The  *)
(* last two restart the daemon.                                             *)
Change == changes < MaxChanges /\ changes' = changes + 1
ChangeSpec ==
    /\ Change
    /\ \E v \in Value \ {spec.val} : spec' = [gen |-> spec.gen + 1, val |-> v]
    /\ queued' = TRUE
    /\ UNCHANGED <<systemd, host, files, boot, spc, dpc, local, lastApplied, drain, status,
                   faults, stale>>
Upgrade ==
    /\ Change /\ boot = "up" /\ Restart /\ Spared
    /\ units' = [u \in Unit |-> IF Enabled(u) THEN "old" ELSE "absent"]
    /\ UNCHANGED <<spec, systemd, host, dropin, conf, result, nics, tracker, boot, spc, drain,
                   status, faults>>
SwitchMode ==
    /\ Change /\ boot = "up" /\ Restart /\ Spared /\ systemd' = ~systemd
    /\ UNCHANGED <<spec, host, files, boot, spc, drain, status, faults>>

ServiceStep ==
    \/ NoUnit \/ NewServiceConfig \/ InitSupportedNics \/ PhasePre \/ PhasePost \/ CallPlugin
DaemonStep ==
    \/ CleanSriovFilesFromHost \/ Reconcile \/ CheckOnNodeStateChange \/ CreateConfFile
    \/ WriteConfFile \/ RemoveSriovResult \/ WriteSriovSupportedNics \/ HandleDrain
    \/ K8sApply \/ ApplyMain \/ RebootLimitReached \/ RebootNode \/ Publish
SystemdNext ==
    \/ ServiceStep \/ DaemonStep \/ DrainCompletes
    \/ ServiceFails \/ CleanFails \/ StatusCheckFails \/ DaemonFails \/ PowerLoss
    \/ ChangeSpec \/ Upgrade \/ SwitchMode

(* systemd runs its units, the daemon's queue is served and a drain that is *)
(* asked for is granted.                                                    *)
SystemdSpec ==
    /\ SystemdInit /\ [][SystemdNext]_sVars
    /\ WF_sVars(ServiceStep) /\ WF_sVars(DaemonStep) /\ WF_sVars(DrainCompletes)

-----------------------------------------------------------------------------
(* Types, and the counter of writeTrackerFile stays within                  *)
(* MaxRebootsPerGeneration whatever fails: the node never reboots more      *)
(* often for one generation.                                                *)
SystemdTypeOK ==
    /\ spec \in [gen : 1 .. 1 + MaxChanges, val : Value] /\ systemd \in BOOLEAN /\ host \in Value
    /\ units \in [Unit -> {"absent", "old", "current"}] /\ {dropin, nics, stale, queued} \subseteq BOOLEAN
    /\ conf \in Value \cup {NoFile, EmptyFile}
    /\ result \in {"none", "", "InProgress", "Succeeded", "Failed"}
    /\ tracker \in [gen : 0 .. 1 + MaxChanges, count : 0 .. MaxReboots]
    /\ boot \in {"pre", "post", "up"} /\ spc \in {"start", "apply"}
    /\ lastApplied \in 0 .. spec.gen /\ drain \in {"idle", "requested", "complete"}
    /\ boot # "up" => dpc = "init"

(* A "Succeeded" the daemon publishes for a generation is true: the host    *)
(* then has the configuration of that generation, whether the services made *)
(* it at boot or the daemon itself, and whatever was restarted or lost in   *)
(* between. Excepted is only a result a fault kept from being removed.      *)
SucceededMeansConfigured ==
    [][Publish /\ status'.st = "Succeeded" => stale \/ host = dSpec.val]_sVars

(* The same without the exception: daemon.go:601 removes the result "to     *)
(* make sure that we will not use outdated result".                         *)
NoOutdatedResult ==
    [][Publish /\ status'.st = "Succeeded" => host = dSpec.val]_sVars

(* Every generation gets an answer, also after faults and at the limit of   *)
(* reboots: it is applied or reported as failed. Without a fault the answer *)
(* is that the host is configured as specified, and it is the last one.     *)
Answered == lastApplied = spec.gen \/ status = [st |-> "Failed", gen |-> spec.gen]
RightlyAnswered ==
    faults = 0 => host = spec.val /\ status = [st |-> "Succeeded", gen |-> spec.gen]
SystemdSettles == []<>Answered /\ <>[]RightlyAnswered
=============================================================================
