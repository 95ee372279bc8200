----------------------------- MODULE HostConfig -----------------------------
(* The generic plugin brings the physical functions (PFs) of a host to the *)
(* interfaces of the NodeState spec: ConfigSriovInterfaces configures the  *)
(* PFs that have an interface and resets those that have none, one after   *)
(* the other or in parallel (the gate parallelNicConfig).  What it         *)
(* configured is recorded in a file per PF, from which a later apply       *)
(* learns whether the virtual functions (VFs) it finds are its own.        *)
EXTENDS Integers, FiniteSets

CONSTANTS PF,           \* PCI addresses of the SR-IOV devices
          Ice,          \* the PFs driven by ice; the others go the mlx5 way
          Interface,    \* the interfaces a NodeState may ask for
          TotalVfs,     \* the number of VFs a PF supports
          NoPF,         \* no PF
          MaxFaults, MaxSpecs, MaxOutside

Mode == {"legacy", "switchdev"}
Driver == {"netdevice", "vfio-pci"}
(* Of an interface: how many VFs, the eswitch mode, the driver of its VFs, *)
(* and whether the PF is managed outside the operator.                     *)
AnyInterface == [num : Nat, mode : Mode, drv : Driver, em : BOOLEAN]
NoInterface == [num |-> 0, mode |-> "none", drv |-> "none", em |-> FALSE]

(* A record file may be absent, or hold something json cannot decode.      *)
Absent == [NoInterface EXCEPT !.mode = "absent"]
Torn == [NoInterface EXCEPT !.mode = "torn"]
Record == Interface \cup {Absent, Torn}

ASSUME HostAssumption ==
    /\ IsFiniteSet(PF) /\ NoPF \notin PF /\ Ice \subseteq PF
    /\ Interface \subseteq AnyInterface
    /\ {TotalVfs, MaxFaults, MaxSpecs, MaxOutside} \subseteq Nat

VARIABLES dev,          \* PF -> VFs, eswitch mode and driver of the VFs
          owner,        \* PF -> whose VFs these are (history)
          store,        \* PF -> record of the last applied interface
          spec,         \* PF -> interface of the NodeState
          pending,      \* spec is not recorded as applied; an apply may
                        \* have taken it
          want, seen,   \* DesireState: interfaces, and status of the PFs
          drain,        \* what OnNodeStateChange answered
          stage,        \* where ConfigSriovInterfaces is
          toConfig, toReset,
          saving,       \* PF whose record is to be saved next
          workers,      \* configSriovDevice, checkForConfigAndReset running
          parallel,     \* vars.ParallelNicConfig
          used          \* budget spent by the environment

hostVars == <<dev, owner, store>>
applyVars == <<want, seen, drain, toConfig, toReset, saving>>
vars == <<hostVars, applyVars, spec, pending, stage, workers, parallel, used>>

ConfigStep == {"start", "preZero", "legacy", "zero", "num", "mode", "vfs"}
ResetStep == {"load", "rLegacy", "rZero", "remove"}
Ended == {"ok", "failed"}
Worker == [pf : PF, iface : Interface \cup {NoInterface},
           at : ConfigStep \cup ResetStep \cup Ended, live : BOOLEAN]
Device == [num : Nat, mode : Mode, drv : Driver \cup {"none"}]
Budget == [faults : 0 .. MaxFaults, specs : 0 .. MaxSpecs, outside : 0 .. MaxOutside]

TypeOK ==
    /\ dev \in [PF -> Device] /\ seen \in [PF -> Device]
    /\ owner \in [PF -> {"operator", "outside"}]
    /\ store \in [PF -> Record]
    /\ spec \in [PF -> Interface \cup {NoInterface}]
    /\ want \in [PF -> Interface \cup {NoInterface}]
    /\ pending \in {"yes", "taken", "no"} /\ drain \in BOOLEAN /\ parallel \in BOOLEAN
    /\ stage \in {"idle", "scan", "config", "reset"}
    /\ toConfig \subseteq PF /\ toReset \subseteq PF /\ saving \in PF \cup {NoPF}
    /\ \A w \in workers : w \in Worker
    /\ used \in Budget

Bare == [num |-> 0, mode |-> "legacy", drv |-> "none"]

Init ==
    /\ dev = [p \in PF |-> Bare] /\ seen = dev
    /\ owner = [p \in PF |-> "outside"]
    /\ store = [p \in PF |-> Absent]
    /\ spec = [p \in PF |-> NoInterface] /\ want = spec
    /\ pending = "yes" /\ drain = FALSE
    /\ stage = "idle" /\ toConfig = {} /\ toReset = {} /\ saving = NoPF
    /\ workers = {}
    /\ parallel \in BOOLEAN
    /\ used = [faults |-> 0, specs |-> 0, outside |-> 0]

-----------------------------------------------------------------------------
(* Decisions.                                                              *)

(* An externally managed PF whose VFs have kernel drivers is always        *)
(* configured again, for the administrative MAC addresses.                 *)
NeedToUpdateSriov(i, d) ==
    \/ i.mode # d.mode
    \/ i.num # d.num
    \/ d.num > 0 /\ (i.drv # d.drv \/ (i.em /\ i.drv = "netdevice"))

Recorded(r) == r \notin {Absent, Torn}

\* a slip: PFs without an interface are forgotten
NeedToUpdateVFsConfigured(s, d, r) ==
    \E p \in PF : d[p].num > 0 /\ s[p] # NoInterface /\ NeedToUpdateSriov(s[p], d[p])
(* The generic plugin asks for a drain when VFs that exist will change.    *)
NeedToUpdateVFs(s, d, r) ==
    \E p \in PF :
        /\ d[p].num > 0
        /\ IF s[p] # NoInterface THEN NeedToUpdateSriov(s[p], d[p])
                                 ELSE Recorded(r[p]) /\ ~r[p].em
(* CheckStatusChanges: the host no longer is what the spec asks for.       *)
Drifted == \E p \in PF : spec[p] # NoInterface /\ ~spec[p].em /\ NeedToUpdateSriov(spec[p], dev[p])

ToSkip == {p \in PF : want[p] # NoInterface /\ ~NeedToUpdateSriov(want[p], seen[p])}

(* A record claims the VFs of its PF, or leaves them to whoever manages    *)
(* the PF.  Writing a file truncates it first: a write that does not       *)
(* finish may leave a torn record.                                         *)
OwnerBy(i) == IF i.em THEN "outside" ELSE "operator"
Save(S, T) ==
    /\ store' = [p \in PF |-> IF p \in S THEN want[p] ELSE IF p \in T THEN Torn ELSE store[p]]
    /\ owner' = [p \in PF |-> IF p \in S THEN OwnerBy(want[p]) ELSE owner[p]]

LiveWorkers == {w \in workers : w.live}
Running == {w \in LiveWorkers : w.at \notin Ended}

(* An error ends ConfigSriovInterfaces; the daemon will try again.  The    *)
(* goroutines still running are not stopped.                               *)
ApplyFails ==
    /\ stage' = "idle" /\ toConfig' = {} /\ toReset' = {} /\ saving' = NoPF
    /\ workers' = {[w EXCEPT !.live = FALSE] : w \in {v \in workers : v.at \notin Ended}}
    /\ UNCHANGED <<want, seen, drain>>

Fault == used.faults < MaxFaults /\ used' = [used EXCEPT !.faults = @ + 1]

-----------------------------------------------------------------------------
\* a slip: nothing is done about a host that changed
OnNodeStateChangeOnce ==
    /\ stage = "idle" /\ pending # "no"
    /\ seen' = dev /\ want' = spec
    /\ drain' = NeedToUpdateVFs(spec, dev, store)
    /\ pending' = "taken" /\ stage' = "scan"
    /\ UNCHANGED <<hostVars, spec, toConfig, toReset, saving, workers, parallel, used>>
(* The daemon: discover the devices, ask the plugin, apply.                *)
OnNodeStateChange ==
    /\ stage = "idle" /\ (pending # "no" \/ Drifted)
    /\ seen' = dev /\ want' = spec
    /\ drain' = NeedToUpdateVFs(spec, dev, store)
    /\ pending' = "taken" /\ stage' = "scan"
    /\ UNCHANGED <<hostVars, spec, toConfig, toReset, saving, workers, parallel, used>>

\* a slip: only the PFs that have an interface are looked at
GetConfigureAndResetNamed ==
    /\ stage = "scan"
    /\ Save(ToSkip, {})
    /\ toConfig' = {p \in PF : want[p] # NoInterface} \ ToSkip
    /\ toReset' = {}
    /\ stage' = "config"
    /\ UNCHANGED <<dev, spec, pending, want, seen, drain, saving, workers, parallel, used>>
(* getConfigureAndReset; a PF that needs nothing has its record saved.     *)
GetConfigureAndReset ==
    /\ stage = "scan"
    /\ Save(ToSkip, {})
    /\ toConfig' = {p \in PF : want[p] # NoInterface} \ ToSkip
    /\ toReset' = {p \in PF : want[p] = NoInterface}
    /\ stage' = "config"
    /\ UNCHANGED <<dev, spec, pending, want, seen, drain, saving, workers, parallel, used>>

SkipSaveFails ==
    /\ stage = "scan" /\ Fault
    /\ \E p \in ToSkip : \E S \in SUBSET (ToSkip \ {p}), T \in {{}, {p}} : Save(S, T)
    /\ ApplyFails
    /\ UNCHANGED <<dev, spec, pending, parallel>>

-----------------------------------------------------------------------------
(* ConfigSriovInterfaces starts configSriovDevice for each PF to           *)
(* configure, as a goroutine or one after the other.  In parallel it saves *)
(* the record right after starting the goroutine, else once it succeeded.  *)
StartConfig(p) ==
    /\ stage = "config" /\ p \in toConfig /\ saving = NoPF
    /\ parallel \/ LiveWorkers = {}
    /\ workers' = workers \cup {[pf |-> p, iface |-> want[p], at |-> "start", live |-> TRUE]}
    /\ toConfig' = toConfig \ {p}
    /\ saving' = IF parallel THEN p ELSE NoPF
    /\ UNCHANGED <<hostVars, want, seen, drain, toReset, spec, pending, stage, parallel, used>>

ConfigReturns(w) ==
    /\ stage = "config" /\ ~parallel /\ w \in LiveWorkers
    /\ \/ /\ w.at = "ok" /\ workers' = workers \ {w} /\ saving' = w.pf
          /\ UNCHANGED <<stage, want, seen, drain, toConfig, toReset>>
       \/ w.at = "failed" /\ ApplyFails
    /\ UNCHANGED <<hostVars, spec, pending, parallel, used>>

SavePf ==
    /\ saving # NoPF
    /\ Save({saving}, {}) /\ saving' = NoPF
    /\ UNCHANGED <<dev, want, seen, drain, toConfig, toReset, spec, pending, stage, workers, parallel, used>>

SavePfFails ==
    /\ saving # NoPF /\ Fault
    /\ \E T \in {{}, {saving}} : Save({}, T)
    /\ ApplyFails
    /\ UNCHANGED <<dev, spec, pending, parallel>>

ConfigDone ==
    /\ stage = "config" /\ toConfig = {} /\ saving = NoPF
    /\ LiveWorkers # {} => parallel /\ Running = {}
    /\ IF \E w \in LiveWorkers : w.at = "failed"
       THEN ApplyFails
       ELSE /\ stage' = "reset" /\ workers' = workers \ LiveWorkers
            /\ UNCHANGED applyVars
    /\ UNCHANGED <<hostVars, spec, pending, parallel, used>>

(* LoadUdevRules fails between the two phases.                             *)
LoadUdevRulesFails ==
    /\ stage = "reset" /\ LiveWorkers = {} /\ Fault
    /\ toReset = {p \in PF : want[p] = NoInterface}
    /\ ApplyFails
    /\ UNCHANGED <<hostVars, spec, pending, parallel>>

(* checkForConfigAndReset for the PFs without an interface.                *)
StartReset(p) ==
    /\ stage = "reset" /\ p \in toReset
    /\ parallel \/ \A w \in LiveWorkers : w.at = "ok"
    /\ workers' = workers \cup {[pf |-> p, iface |-> NoInterface, at |-> "load", live |-> TRUE]}
    /\ toReset' = toReset \ {p}
    /\ UNCHANGED <<hostVars, want, seen, drain, toConfig, saving, spec, pending, stage, parallel, used>>

(* In sequence the first failure ends the loop.  The generation recorded   *)
(* as applied is the one this apply started with.                          *)
ResetDone ==
    /\ stage = "reset" /\ Running = {}
    /\ IF \E w \in LiveWorkers : w.at = "failed"
       THEN (parallel => toReset = {}) /\ ApplyFails /\ UNCHANGED pending
       ELSE /\ toReset = {}
            /\ stage' = "idle" /\ workers' = workers \ LiveWorkers
            /\ pending' = IF pending = "taken" THEN "no" ELSE pending
            /\ UNCHANGED applyVars
    /\ UNCHANGED <<hostVars, spec, parallel, used>>

-----------------------------------------------------------------------------
(* configSriovDevice, and ResetSriovDevice when it fails.  Between its     *)
(* steps the host shows a PF that is neither what it was nor what was      *)
(* asked for.  Nobody waits for the result of a worker left behind.        *)
StepTo(w, at) ==
    workers' = (workers \ {w}) \cup (IF at \in Ended /\ ~w.live THEN {} ELSE {[w EXCEPT !.at = at]})
KeepApply == UNCHANGED <<applyVars, owner, store, spec, pending, stage, parallel, used>>

ResetFrom(p) == IF p \notin Ice /\ dev[p].mode # "legacy" THEN "rLegacy" ELSE "rZero"
FailTo(w) ==
    IF w.at \in ResetStep \/ w.iface.em THEN "failed" ELSE ResetFrom(w.pf)

(* The number of VFs is checked; of an externally managed PF everything    *)
(* is, and nothing changed.  createVFs has nothing to do when number and   *)
(* mode are right.  mlx5 creates VFs in legacy mode and then switches, ice *)
(* switches first.                                                         *)
CreateVFs(p, i) ==
    CASE dev[p].num = i.num /\ dev[p].mode = i.mode -> "vfs"
      [] p \in Ice /\ dev[p].mode # i.mode -> "preZero"
      [] p \notin Ice /\ dev[p].mode # "legacy" -> "legacy"
      [] OTHER -> "zero"
ConfigSriovPFDevice(w) ==
    LET i == w.iface
        d == dev[w.pf]
        bad == IF i.em THEN i.num > d.num \/ i.mode # d.mode ELSE i.num > TotalVfs
    IN /\ w.at = "start"
       /\ StepTo(w, IF bad THEN FailTo(w) ELSE IF i.em THEN "vfs" ELSE CreateVFs(w.pf, i))
       /\ UNCHANGED dev /\ KeepApply

(* A change of the flow steering mode needs legacy mode without VFs.       *)
ConfigureHWOptionsForSwitchdev(w) ==
    /\ w.at = "start" /\ ~w.iface.em /\ w.iface.num <= TotalVfs
    /\ w.iface.mode = "switchdev" /\ dev[w.pf].mode # "legacy"
    /\ dev' = [dev EXCEPT ![w.pf] = Bare]
    /\ StepTo(w, IF w.pf \in Ice THEN "preZero" ELSE "zero") /\ KeepApply

NumSet(w) == IF w.pf \notin Ice /\ w.iface.mode = "switchdev" THEN "mode" ELSE "vfs"
ResetEnd(w) == IF w.iface = NoInterface THEN "remove" ELSE "failed"

SetLegacy(w) ==
    /\ w.at \in {"legacy", "rLegacy"}
    /\ dev' = [dev EXCEPT ![w.pf].mode = "legacy", ![w.pf].drv = "none"]
    /\ StepTo(w, CASE w.at = "legacy" -> "zero"
                   [] w.at = "rLegacy" -> IF w.pf \in Ice THEN ResetEnd(w) ELSE "rZero")
    /\ KeepApply

SetNumVfsZero(w) ==
    /\ w.at \in {"preZero", "zero", "rZero"}
    /\ dev' = [dev EXCEPT ![w.pf].num = 0, ![w.pf].drv = "none"]
    /\ StepTo(w, CASE w.at = "preZero" -> "mode"
                   [] w.at = "zero" -> IF w.iface.num > 0 THEN "num" ELSE NumSet(w)
                   [] w.at = "rZero" -> IF w.pf \in Ice /\ dev[w.pf].mode # "legacy"
                                        THEN "rLegacy" ELSE ResetEnd(w))
    /\ KeepApply

(* The kernel binds new VFs to their default driver.                       *)
SetSriovNumVfs(w) ==
    /\ w.at = "num"
    /\ dev' = [dev EXCEPT ![w.pf].num = w.iface.num, ![w.pf].drv = "netdevice"]
    /\ owner' = [owner EXCEPT ![w.pf] = "operator"]
    /\ StepTo(w, NumSet(w))
    /\ UNCHANGED <<applyVars, store, spec, pending, stage, parallel, used>>

SetNicSriovMode(w) ==
    /\ w.at = "mode"
    /\ dev' = [dev EXCEPT ![w.pf].mode = w.iface.mode, ![w.pf].drv = "none"]
    /\ StepTo(w, IF w.pf \in Ice THEN "zero" ELSE "vfs")
    /\ KeepApply

ConfigSriovVFDevices(w) ==
    /\ w.at = "vfs"
    /\ dev' = [dev EXCEPT ![w.pf].drv = IF dev[w.pf].num > 0 THEN w.iface.drv ELSE "none"]
    /\ StepTo(w, "ok") /\ KeepApply

\* a slip: externally managed PFs are reset as well
LoadPfsStatusAll(w) ==
    /\ w.at = "load"
    /\ StepTo(w, CASE store[w.pf] = Torn -> "failed"
                   [] store[w.pf] = Absent -> "ok"
                   [] OTHER -> ResetFrom(w.pf))
    /\ UNCHANGED dev /\ KeepApply
(* checkForConfigAndReset: only what the record claims is reset.           *)
LoadPfsStatus(w) ==
    LET r == store[w.pf]
    IN /\ w.at = "load"
       /\ StepTo(w, CASE r = Torn -> "failed"
                      [] r = Absent -> "ok"
                      [] Recorded(r) /\ (r.em \/ seen[w.pf].num = 0) -> "remove"
                      [] OTHER -> ResetFrom(w.pf))
       /\ UNCHANGED dev /\ KeepApply

RemovePfAppliedStatus(w) ==
    /\ w.at = "remove"
    /\ store' = [store EXCEPT ![w.pf] = Absent]
    /\ StepTo(w, "ok")
    /\ UNCHANGED <<dev, owner, applyVars, spec, pending, stage, parallel, used>>

WorkerFails(w) ==
    /\ w.at \notin Ended /\ Fault
    /\ StepTo(w, FailTo(w))
    /\ UNCHANGED <<hostVars, applyVars, spec, pending, stage, parallel>>

WorkerStep(w) ==
    \/ ConfigSriovPFDevice(w) \/ ConfigureHWOptionsForSwitchdev(w)
    \/ SetLegacy(w) \/ SetNumVfsZero(w) \/ SetSriovNumVfs(w) \/ SetNicSriovMode(w)
    \/ ConfigSriovVFDevices(w) \/ LoadPfsStatus(w) \/ RemovePfAppliedStatus(w)

-----------------------------------------------------------------------------
(* The daemon's pod, or the host, restarts at any point.                   *)
Restart(reboot) ==
    /\ Fault
    /\ \E S \in SUBSET (IF stage = "scan" THEN ToSkip ELSE {}),
          T \in SUBSET (IF stage = "scan" THEN ToSkip ELSE {saving} \ {NoPF}) :
        /\ Cardinality(T) <= 1 /\ S \cap T = {} /\ Save(S, T)
    /\ dev' = IF reboot THEN [p \in PF |-> Bare] ELSE dev
    /\ stage' = "idle" /\ toConfig' = {} /\ toReset' = {} /\ saving' = NoPF
    /\ workers' = {} /\ pending' = "yes"
    /\ UNCHANGED <<want, seen, drain, spec, parallel>>

NewSpec(p, i) ==
    /\ used.specs < MaxSpecs /\ i # spec[p]
    /\ spec' = [spec EXCEPT ![p] = i] /\ pending' = "yes"
    /\ used' = [used EXCEPT !.specs = @ + 1]
    /\ UNCHANGED <<hostVars, applyVars, stage, workers, parallel>>

(* Somebody else sets the VFs of a PF the operator has nothing to do with, *)
(* or of an externally managed one.                                        *)
LeftAlone(p) ==
    /\ spec[p] = NoInterface \/ spec[p].em
    /\ stage # "idle" => want[p] = NoInterface \/ want[p].em
    /\ \A w \in workers : w.pf = p => w.iface = NoInterface \/ w.iface.em
    /\ Recorded(store[p]) => store[p].em
OutsideSets(p, n) ==
    /\ used.outside < MaxOutside /\ LeftAlone(p)
    /\ dev' = [dev EXCEPT ![p].num = n, ![p].drv = "netdevice"]
    /\ owner' = [owner EXCEPT ![p] = "outside"]
    /\ used' = [used EXCEPT !.outside = @ + 1]
    /\ UNCHANGED <<store, applyVars, spec, pending, stage, workers, parallel>>

ApplyStep ==
    \/ OnNodeStateChange \/ GetConfigureAndReset \/ SavePf \/ ConfigDone \/ ResetDone
    \/ \E p \in PF : StartConfig(p) \/ StartReset(p)
    \/ \E w \in workers : ConfigReturns(w)

Next ==
    \/ ApplyStep
    \/ \E w \in workers : WorkerStep(w) \/ WorkerFails(w)
    \/ SkipSaveFails \/ SavePfFails \/ LoadUdevRulesFails
    \/ \E reboot \in BOOLEAN : Restart(reboot)
    \/ \E p \in PF, i \in Interface \cup {NoInterface} : NewSpec(p, i)
    \/ \E p \in PF, n \in {i.num : i \in Interface} : OutsideSets(p, n)

Spec == Init /\ [][Next]_vars

(* The daemon retries with back-off, and its goroutines run.               *)
Fairness ==
    /\ WF_vars(ApplyStep)
    /\ \A p \in PF, l \in BOOLEAN :
        WF_vars(\E w \in workers : w.pf = p /\ w.live = l /\ WorkerStep(w))

-----------------------------------------------------------------------------
(* checkForConfigAndReset: "they weren't created by the sriov operator.    *)
(* Skipping the device reset".  VFs that were set up outside, on a PF no   *)
(* record claims, are not taken away when a PF without an interface is     *)
(* reset, whatever failed or restarted before; with it, every variable has *)
(* its type.                                                               *)
ResetOnlyOwnVfs ==
    /\ TypeOK
    /\ \A w \in workers :
        w.iface = NoInterface /\ w.at \in {"rLegacy", "rZero"} =>
            owner[w.pf] = "operator" \/ dev[w.pf].num = 0

(* An apply that succeeded leaves no VFs of the operator on a PF the       *)
(* NodeState does not name.                                                *)
Quiet == stage = "idle" /\ pending = "no" /\ workers = {}
NoLeakedVfs ==
    Quiet => \A p \in PF : spec[p] = NoInterface /\ owner[p] = "operator" => dev[p].num = 0
NoLeakWithoutFaults == used.faults = 0 => NoLeakedVfs

(* needToUpdateVFs and ConfigSriovInterfaces judge separately what will    *)
(* change: an apply touches VFs that existed when it started only if the   *)
(* plugin asked for a drain.                                               *)
TouchesVfs == {"preZero", "legacy", "zero", "vfs", "rLegacy", "rZero"}
DrainBeforeTouch ==
    \A w \in LiveWorkers : w.at \in TouchesVfs /\ seen[w.pf].num > 0 => drain

(* The host is eventually what the spec asks for, through failures, crashes *)
(* and leftover goroutines, unless the spec cannot be met or the record of *)
(* a PF to be reset cannot be read.                                        *)
Impossible(p) == spec[p].num > TotalVfs \/ spec[p].em
Unreadable(p) == spec[p] = NoInterface /\ store[p] = Torn
Matches(p) == spec[p] = NoInterface \/ ~NeedToUpdateSriov(spec[p], dev[p])
EventuallyConfigured ==
    <>[](Quiet /\ \A p \in PF : Matches(p)) \/ <>[](\E p \in PF : Impossible(p) \/ Unreadable(p))

=============================================================================
