------------------------------ MODULE KernelArgs ------------------------------
(* The generic plugin and the arguments of the kernel. Which arguments are  *)
(* wanted is only in the daemon's memory; kargs.sh writes them to the boot  *)
(* loader, where they wait for a reboot; the RDMA mode is also an option in *)
(* modprobe.d. Specs change, commands fail, the daemon is killed and power  *)
(* is lost in between. A drain is granted at once.                          *)
EXTENDS Integers

CONSTANTS
    KSpec,          \* vfio: a VF group asks for vfio-pci; rdma: its RDMA mode;
                    \* many: more VFs than fit without pci=realloc
    KAtStart,       \* arguments the kernel may run with at first
    CpuVendor,      \* "intel", "amd" or "other"; "" if GetCPUVendor fails
    MaxKReboots,    \* consts.MaxRebootsPerGeneration
    MaxKChanges,    \* bound on changes of the spec
    MaxKFaults      \* bound on failures

Kept == {"pci=realloc", "intel_iommu=on", "iommu=pt"}
RdmaArgs == {"shared", "exclusive"}         \* ib_core.netns_mode=1 and =0
Karg == Kept \cup RdmaArgs

ASSUME KargsAssumption ==
    /\ KSpec \subseteq [vfio : BOOLEAN, rdma : RdmaArgs \cup {""}, many : BOOLEAN]
    /\ KAtStart \subseteq SUBSET Kept
    /\ CpuVendor \subseteq {"intel", "amd", "other", ""}
    /\ MaxKReboots \in Nat \ {0} /\ MaxKChanges \in Nat /\ MaxKFaults \in Nat

VARIABLES
    kspec, kgen,    \* spec of the NodeState and its generation
    cpu, editable,  \* the host; kargs.sh finds rpm-ostree or grubby, no Ubuntu
    kboot, krun,    \* arguments in the boot loader, and of the running kernel
    modconf,        \* RDMA mode in modprobe.d; "": no file, or an empty one
    rdmaMode,       \* RDMA mode of the running kernel
    ktracker,       \* file of the reboot tracker
    desired,        \* the DesiredKernelArgs that are true
    vfioLoaded,     \* DriverLoaded of vfio_pci
    kpc, kcur, ktodo, kreboot,      \* next step of the daemon, its locals
    kdone, kfailed, \* lastAppliedGeneration; gave up at the limit
    kchanges, kfaults

kNode == <<cpu, editable, kboot, krun, modconf, rdmaMode, ktracker>>
kDaemon == <<desired, vfioLoaded, kpc, kcur, ktodo, kreboot, kdone, kfailed>>
kVars == <<kspec, kgen, kNode, kDaemon, kchanges, kfaults>>

(* NewGenericPlugin: "to maintain backward compatibility" what is set stays *)
(* wanted. A slip: only what the specs ask for is.                          *)
InitialKargsNone(running) == {}
InitialKargs(running) == running \cap Kept
NewGenericPlugin(running) ==
    /\ desired' = InitialKargs(running) /\ vfioLoaded' = FALSE
    /\ kpc' = "idle" /\ kcur' = [spec |-> kspec, gen |-> 0] /\ ktodo' = {} /\ kreboot' = FALSE
    /\ kdone' = 0 /\ kfailed' = FALSE

KargsInit ==
    /\ kspec \in KSpec /\ kgen = 1 /\ cpu \in CpuVendor /\ editable \in BOOLEAN
    /\ krun \in KAtStart /\ kboot = krun
    /\ modconf = "" /\ rdmaMode = "shared" /\ ktracker = [gen |-> 0, count |-> 0]
    /\ desired = InitialKargs(krun) /\ vfioLoaded = FALSE
    /\ kpc = "idle" /\ kcur = [spec |-> kspec, gen |-> 0] /\ ktodo = {} /\ kreboot = FALSE
    /\ kdone = 0 /\ kfailed = FALSE /\ kchanges = 0 /\ kfaults = 0

-----------------------------------------------------------------------------
(* addVfioDesiredKernelArg: a vendor that cannot be read counts as Intel.   *)
VfioArgs ==
    CASE cpu \in {"intel", ""} -> {"intel_iommu=on", "iommu=pt"}
      [] cpu = "amd" -> {"iommu=pt"}
      [] OTHER -> {}
AddVfioDesiredKernelArg(s) == IF s.vfio /\ ~vfioLoaded THEN VfioArgs ELSE {}
RdmaArg(s) == {s.rdma} \cap RdmaArgs

(* CheckStatusChanges: at an applied generation the reconcile goes on only  *)
(* if the RDMA mode or the arguments are not the wanted ones; it does not   *)
(* look at a first generation without interfaces.                           *)
ShouldUpdateKernelArgs == desired # krun \cap Karg
RdmaModeNeedsUpdate == kspec.rdma \notin {"", rdmaMode}
CheckStatusChanges ==
    /\ kgen > 1 \/ kspec.vfio \/ kspec.many
    /\ RdmaModeNeedsUpdate \/ ShouldUpdateKernelArgs

(* OnNodeStateChange up to the first write.                                 *)
OnNodeStateChange ==
    /\ kpc = "idle" /\ ~kfailed /\ (kdone # kgen \/ CheckStatusChanges)
    /\ kcur' = [spec |-> kspec, gen |-> kgen] /\ kpc' = "rdma"
    /\ desired' = ((desired \cup AddVfioDesiredKernelArg(kspec)) \ RdmaArgs) \cup RdmaArg(kspec)
    /\ UNCHANGED <<kspec, kgen, kNode, vfioLoaded, ktodo, kreboot, kdone, kfailed, kchanges, kfaults>>

SetRDMASubsystem ==
    /\ kpc = "rdma" /\ modconf' = kcur.spec.rdma
    /\ kpc' = "sync" /\ ktodo' = Karg /\ kreboot' = FALSE
    /\ UNCHANGED <<kspec, kgen, cpu, editable, kboot, krun, rdmaMode, ktracker,
                   desired, vfioLoaded, kcur, kdone, kfailed, kchanges, kfaults>>

(* One round of syncDesiredKernelArgs. kargs.sh looks at the running kernel *)
(* before it adds or removes, and so does the plugin before it wants a      *)
(* reboot. A slip: the plugin looks at what the boot loader has.            *)
Edited(k) ==
    IF (k \in desired) = (k \in krun) THEN kboot
    ELSE IF k \in desired THEN kboot \cup {k} ELSE kboot \ {k}
NeedRebootOnce(k) == (k \in desired) # (k \in kboot)
NeedReboot(k) == (k \in desired) # (k \in krun)
SyncRound(k) ==
    /\ kpc = "sync" /\ k \in ktodo
    /\ kreboot' = (kreboot \/ NeedReboot(k))
    /\ ktodo' = ktodo \ {k} /\ kpc' = IF ktodo' = {} THEN "apply" ELSE "sync"
    /\ UNCHANGED <<kspec, kgen, cpu, editable, krun, modconf, rdmaMode, ktracker,
                   desired, vfioLoaded, kcur, kdone, kfailed, kchanges>>
SyncDesiredKernelArg(k) ==
    SyncRound(k) /\ kboot' = (IF editable THEN Edited(k) ELSE kboot) /\ UNCHANGED kfaults

(* A boot: arguments take effect; for the RDMA mode they win over the file, *)
(* and either of two may win; the daemon starts.                            *)
BootMode(mode) ==
    \/ mode \in kboot \cap RdmaArgs
    \/ kboot \cap RdmaArgs = {} /\ mode = IF modconf' = "" THEN "shared" ELSE modconf'
Boot ==
    /\ krun' = kboot /\ rdmaMode' \in {mode \in RdmaArgs : BootMode(mode)}
    /\ NewGenericPlugin(kboot)

(* apply with a reboot, GetRebootCount and IncrementRebootCounter.          *)
RebootCount == IF ktracker.gen = kcur.gen THEN ktracker.count ELSE 0
Counted == [gen |-> kcur.gen, count |-> RebootCount + 1]
ApplyReboot ==
    /\ kpc = "apply" /\ kreboot /\ RebootCount < MaxKReboots
    /\ ktracker' = Counted /\ UNCHANGED modconf /\ Boot
    /\ UNCHANGED <<kspec, kgen, cpu, editable, kboot, kchanges, kfaults>>
RebootsUsedUp ==
    /\ kpc = "apply" /\ kreboot /\ RebootCount >= MaxKReboots
    /\ kpc' = "idle" /\ kfailed' = (kcur.gen = kgen)
    /\ UNCHANGED <<kspec, kgen, kNode, desired, vfioLoaded, kcur, ktodo, kreboot, kdone, kchanges, kfaults>>

(* apply without one. Apply of the plugin loads the driver and makes VFs;   *)
(* without memory for them pci=realloc is wanted from now on, and the error *)
(* is returned.                                                             *)
ApplyNow ==
    /\ kpc = "apply" /\ ~kreboot /\ kpc' = "idle"
    /\ vfioLoaded' = (vfioLoaded \/ kcur.spec.vfio)
    /\ IF kcur.spec.many /\ "pci=realloc" \notin krun
       THEN desired' = desired \cup {"pci=realloc"} /\ UNCHANGED <<kdone, ktracker>>
       ELSE kdone' = kcur.gen /\ ktracker' = [gen |-> kcur.gen, count |-> 0] /\ UNCHANGED desired
    /\ UNCHANGED <<kspec, kgen, cpu, editable, kboot, krun, modconf, rdmaMode,
                   kcur, ktodo, kreboot, kfailed, kchanges, kfaults>>

-----------------------------------------------------------------------------
(* Failures. A write may be torn or a reboot counted that does not come.    *)
KFault == kfaults < MaxKFaults /\ kfaults' = kfaults + 1
HalfWritten ==
    /\ modconf' \in (IF kpc = "rdma" THEN {modconf, ""} ELSE {modconf})
    /\ ktracker' \in {ktracker} \cup
          (IF kpc = "apply" /\ kreboot /\ RebootCount < MaxKReboots THEN {Counted} ELSE {})
KCallFails ==
    /\ kpc # "idle" /\ KFault /\ HalfWritten /\ kpc' = "idle"
    /\ UNCHANGED <<kspec, kgen, cpu, editable, kboot, krun, rdmaMode, desired, vfioLoaded,
                   kcur, ktodo, kreboot, kdone, kfailed, kchanges>>
(* kargs.sh ends with echo: that rpm-ostree or grubby failed goes unnoticed. *)
EditFails(k) == editable /\ SyncRound(k) /\ KFault /\ UNCHANGED kboot
KDaemonEnds ==
    /\ KFault /\ HalfWritten /\ NewGenericPlugin(krun)
    /\ UNCHANGED <<kspec, kgen, cpu, editable, kboot, krun, rdmaMode, kchanges>>
KPowerLoss ==
    /\ KFault /\ HalfWritten /\ Boot
    /\ UNCHANGED <<kspec, kgen, cpu, editable, kboot, kchanges>>

KNewSpec ==
    /\ kchanges < MaxKChanges /\ kchanges' = kchanges + 1
    /\ kspec' \in KSpec \ {kspec} /\ kgen' = kgen + 1 /\ kfailed' = FALSE
    /\ UNCHANGED <<kNode, desired, vfioLoaded, kpc, kcur, ktodo, kreboot, kdone, kfaults>>

KargsStep ==
    \/ OnNodeStateChange \/ SetRDMASubsystem \/ \E k \in Karg : SyncDesiredKernelArg(k)
    \/ ApplyReboot \/ RebootsUsedUp \/ ApplyNow
KargsNext ==
    \/ KargsStep \/ KCallFails \/ \E k \in Karg : EditFails(k)
    \/ KDaemonEnds \/ KPowerLoss \/ KNewSpec

(* The reconciler is called again after an error and after a while.         *)
KargsSpec == KargsInit /\ [][KargsNext]_kVars /\ WF_kVars(KargsStep)

-----------------------------------------------------------------------------
KargsTypeOK ==
    /\ kspec \in KSpec /\ kcur.spec \in KSpec /\ {kdone, kcur.gen} \subseteq 0 .. kgen
    /\ \A s \in {kboot, krun, desired, ktodo} : s \subseteq Karg
    /\ {modconf, rdmaMode} \subseteq RdmaArgs \cup {""}
    /\ ktracker.gen \in 0 .. kgen /\ ktracker.count \in 0 .. MaxKReboots
    /\ kpc \in {"idle", "rdma", "sync", "apply"}

(* "we don't remove the intel_iommu, iommu and pcirealloc kernel args if    *)
(* they are configured" (generic_plugin.go:113): an argument of this kind   *)
(* the kernel once runs with is there after every later boot, whoever set   *)
(* it and whichever process or reboot was in between; and the driver is     *)
(* loaded only into a kernel that runs with the arguments it needs.         *)
ConfiguredArgsKept ==
    [][/\ krun \cap Kept \subseteq krun'
       /\ vfioLoaded' => VfioArgs \subseteq krun']_kVars

(* In the end the kernel runs with what the last spec asks for and with the *)
(* RDMA arguments of no earlier one; or the daemon gave up at the limit of  *)
(* reboots, which takes a failure or a host whose arguments it cannot edit. *)
KargsGood ==
    /\ krun \cap RdmaArgs = RdmaArg(kspec) /\ (kspec.rdma # "" => rdmaMode = kspec.rdma)
    /\ kspec.many => "pci=realloc" \in krun
    /\ kspec.vfio => VfioArgs \subseteq krun
    /\ kdone = kgen
GaveUp == kfailed /\ (kfaults > 0 \/ ~editable)
KargsSettle == <>[](KargsGood \/ GaveUp)
=============================================================================
