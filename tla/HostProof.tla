------------------------------ MODULE HostProof ------------------------------
(***************************************************************************)
(* Proofs about HostConfig: which VFs an apply may take away, that it asks *)
(* for a drain before it touches VFs, and that it leaves none behind, for  *)
(* any number of PFs, any interfaces and any number of failed calls,       *)
(* restarts and changes from outside.                                      *)
(***************************************************************************)
EXTENDS HostConfig, TLAPS

(* Most leaves are first-order: Zenon proves them, SMT those that cite it.  *)
USE Zenon

(* A record that claims the VFs of its PF.                                 *)
Claims(r) == Recorded(r) /\ ~r.em
ClaimInv == \A p \in PF : Claims(store[p]) => owner[p] = "operator"

(* What an apply wants stays what it was when it judged it.                *)
Changes(p) ==
    IF want[p] # NoInterface THEN NeedToUpdateSriov(want[p], seen[p]) ELSE Claims(store[p])
ApplyInv ==
    /\ stage # "config" => toConfig = {} /\ saving = NoPF
    /\ stage = "idle" => toReset = {}
    /\ saving # NoPF => want[saving] # NoInterface
    /\ \A p \in toConfig : want[p] # NoInterface /\ NeedToUpdateSriov(want[p], seen[p])
    /\ \A p \in toReset : want[p] = NoInterface
    /\ stage # "idle" => \A p \in PF : seen[p].num > 0 /\ Changes(p) => drain

(* A worker that resets a PF belongs to the apply that is running; one     *)
(* that configures may be left over from an apply that failed.             *)
Resets(w) == w.iface = NoInterface
ResetterInv(w) ==
    /\ w.live /\ stage = "reset" /\ want[w.pf] = NoInterface /\ w.pf \notin toReset
    /\ w.at \in ResetStep \cup Ended
    /\ w.at \in {"rLegacy", "rZero"} => Claims(store[w.pf])
ConfigurerInv(w) ==
    /\ w.at \notin {"load", "remove"}
    /\ w.live =>
          /\ stage = "config" /\ want[w.pf] = w.iface
          /\ NeedToUpdateSriov(want[w.pf], seen[w.pf])
WorkersInv ==
    /\ \A w \in workers : IF Resets(w) THEN ResetterInv(w) ELSE ConfigurerInv(w)
    /\ \A v, w \in workers : Resets(v) /\ Resets(w) /\ v.pf = w.pf => v = w

HostInv == TypeOK /\ ClaimInv /\ ApplyInv /\ WorkersInv

(* While nothing failed, VFs of the operator without a record that claims  *)
(* them are those of the PF being configured.                              *)
BeingConfigured(p) ==
    /\ stage = "config" /\ want[p] # NoInterface /\ ~want[p].em
    /\ \/ saving = p
       \/ /\ ~parallel
          /\ \E w \in workers :
                w.pf = p /\ (w.at \in {"vfs", "ok"} \/ (w.at = "mode" /\ p \notin Ice))
Unclaimed(p) == owner[p] # "operator" \/ dev[p].num = 0
VfsInv == \A p \in PF : Claims(store[p]) \/ Unclaimed(p) \/ BeingConfigured(p)
TidyInv(w) ==
    /\ w.live /\ (w.iface.em => w.at \in {"start", "vfs", "ok", "failed"})
    /\ ~Resets(w) /\ parallel => saving = w.pf \/ store[w.pf] = w.iface
    /\ ~Resets(w) /\ ~parallel => saving = NoPF /\ workers = {w}
    /\ Resets(w) /\ w.at = "remove" => Unclaimed(w.pf)
    /\ Resets(w) /\ w.at = "ok" => store[w.pf] = Absent
    /\ Resets(w) /\ w.at = "rLegacy" /\ w.pf \in Ice => dev[w.pf].num = 0
SeenInv ==
    stage # "idle" => \A p \in PF :
        want[p] = NoInterface /\ Claims(store[p]) => dev[p].num \in {seen[p].num, 0}
ResetInv ==
    /\ stage = "config" => toReset = {p \in PF : want[p] = NoInterface}
    /\ stage = "reset" => \A p \in PF : want[p] = NoInterface =>
          p \in toReset \/ \E w \in workers : Resets(w) /\ w.pf = p
DoneInv ==
    /\ stage # "idle" /\ pending = "taken" => want = spec
    /\ pending = "no" =>
          stage = "idle" /\ \A p \in PF : spec[p] = NoInterface => store[p] = Absent
LeakInv ==
    /\ \A p \in PF : store[p] # Torn
    /\ VfsInv /\ SeenInv /\ ResetInv /\ DoneInv
    /\ \A w \in workers : TidyInv(w)
NoFaultInv == used.faults = 0 => LeakInv

-----------------------------------------------------------------------------
(* Interfaces, records and devices.                                        *)
LEMMA InterfaceFacts ==
    ASSUME NEW i \in Interface
    PROVE  /\ i # NoInterface /\ Recorded(i) /\ i \in Record
           /\ i.num \in Nat /\ i.mode \in Mode /\ i.drv \in Driver /\ i.em \in BOOLEAN
  BY HostAssumption, SMT DEF AnyInterface, NoInterface, Recorded, Record, Absent, Torn, Mode

LEMMA NothingClaimed == ~Claims(Absent) /\ ~Claims(Torn) /\ Absent \in Record /\ Torn \in Record
  BY DEF Claims, Recorded, Record

LEMMA DeviceFacts ==
    ASSUME NEW d \in Device, NEW n \in Nat, NEW m \in Mode, NEW r \in Driver \cup {"none"}
    PROVE  /\ [d EXCEPT !.mode = m, !.drv = r] \in Device
           /\ [d EXCEPT !.num = n, !.drv = r] \in Device
           /\ [d EXCEPT !.drv = r] \in Device /\ Bare \in Device
  BY DEF Device, Bare, Mode, Driver

LEMMA FaultType ==
    ASSUME used \in Budget, Fault
    PROVE  used' \in Budget /\ used'.faults # 0
  BY HostAssumption, SMT DEF Budget, Fault

LEMMA SpecType ==
    ASSUME NEW u \in Budget
    PROVE  /\ u.specs < MaxSpecs =>
                 /\ [u EXCEPT !.specs = @ + 1] \in Budget
                 /\ [u EXCEPT !.specs = @ + 1].faults = u.faults
           /\ u.outside < MaxOutside =>
                 /\ [u EXCEPT !.outside = @ + 1] \in Budget
                 /\ [u EXCEPT !.outside = @ + 1].faults = u.faults
  BY HostAssumption, SMT DEF Budget

(* The workers after one of them moved, and after an apply failed.         *)
LEMMA StepToMembers ==
    ASSUME NEW w \in workers, w \in Worker,
           NEW at \in ConfigStep \cup ResetStep \cup Ended, StepTo(w, at)
    PROVE  /\ \A v \in workers' :
                 \/ v \in workers /\ v # w
                 \/ /\ v = [w EXCEPT !.at = at] /\ v \in Worker
                    /\ v.pf = w.pf /\ v.iface = w.iface /\ v.live = w.live /\ v.at = at
           /\ \A v \in workers : v # w => v \in workers'
  <1>1. [w EXCEPT !.at = at] \in Worker
    BY DEF Worker
  <1> QED  BY <1>1 DEF StepTo, Worker

LEMMA LeftBehind ==
    ASSUME \A w \in workers : w \in Worker, ApplyFails
    PROVE  \A v \in workers' :
               /\ v \in Worker /\ ~v.live
               /\ \E w \in workers : /\ w.at \notin Ended
                                     /\ v.pf = w.pf /\ v.iface = w.iface /\ v.at = w.at
  BY DEF ApplyFails, Worker

-----------------------------------------------------------------------------
(* What a step of a worker changes, whichever step it is.                  *)
WorkerMove(w, at) ==
    /\ StepTo(w, at)
    /\ UNCHANGED <<applyVars, spec, pending, stage, parallel>>
    /\ dev' \in [PF -> Device] /\ used' \in Budget
    /\ \A p \in PF \ {w.pf} : dev'[p] = dev[p]
    /\ \/ store' = store
       \/ w.at = "remove" /\ at = "ok" /\ store' = [store EXCEPT ![w.pf] = Absent]
    /\ owner' = owner \/ (~Resets(w) /\ owner' = [owner EXCEPT ![w.pf] = "operator"])
    /\ IF Resets(w) THEN /\ at \in ResetStep \cup Ended
                         /\ at \in {"rLegacy", "rZero"} => Claims(store[w.pf])
                    ELSE at \notin {"load", "remove"}
    /\ at = "vfs" /\ w.at = "start" => ~Resets(w)

LEMMA DeviceChanged ==
    ASSUME dev \in [PF -> Device], NEW p \in PF, NEW n \in Nat, NEW m \in Mode,
           NEW r \in Driver \cup {"none"},
           \/ dev' = dev
           \/ dev' = [dev EXCEPT ![p] = Bare]
           \/ dev' = [dev EXCEPT ![p].mode = m, ![p].drv = r]
           \/ dev' = [dev EXCEPT ![p].num = n, ![p].drv = r]
           \/ dev' = [dev EXCEPT ![p].drv = r]
    PROVE  dev' \in [PF -> Device] /\ \A q \in PF \ {p} : dev'[q] = dev[q]
  <1>1. dev[p] \in Device
    OBVIOUS
  <1>2. CASE dev' = dev
    BY <1>2
  <1>3. CASE dev' = [dev EXCEPT ![p] = Bare]
    BY <1>1, <1>3, DeviceFacts
  <1>4. CASE dev' = [dev EXCEPT ![p].mode = m, ![p].drv = r]
    <2>1. dev' = [dev EXCEPT ![p] = [dev[p] EXCEPT !.mode = m, !.drv = r]]
      BY <1>4
    <2>2. [dev[p] EXCEPT !.mode = m, !.drv = r] \in Device
      BY <1>1, DeviceFacts
    <2> QED  BY <2>1, <2>2
  <1>5. CASE dev' = [dev EXCEPT ![p].num = n, ![p].drv = r]
    <2>1. dev' = [dev EXCEPT ![p] = [dev[p] EXCEPT !.num = n, !.drv = r]]
      BY <1>5
    <2>2. [dev[p] EXCEPT !.num = n, !.drv = r] \in Device
      BY <1>1, DeviceFacts
    <2> QED  BY <2>1, <2>2
  <1>6. CASE dev' = [dev EXCEPT ![p].drv = r]
    <2>1. dev' = [dev EXCEPT ![p] = [dev[p] EXCEPT !.drv = r]]
      BY <1>6
    <2>2. [dev[p] EXCEPT !.drv = r] \in Device
      BY <1>1, DeviceFacts
    <2> QED  BY <2>1, <2>2
  <1> QED  BY <1>2, <1>3, <1>4, <1>5, <1>6

LEMMA WorkerMoves ==
    ASSUME HostInv, NEW w \in workers, WorkerStep(w) \/ WorkerFails(w)
    PROVE  \E at \in ConfigStep \cup ResetStep \cup Ended : WorkerMove(w, at)
  <1> DEFINE Steps == ConfigStep \cup ResetStep \cup Ended
  <1>1. /\ dev \in [PF -> Device] /\ used \in Budget /\ store \in [PF -> Record]
        /\ w.pf \in PF /\ w.iface \in Interface \cup {NoInterface} /\ w.at \in Steps
    BY DEF HostInv, TypeOK, Worker
  <1>2. /\ w.iface.num \in Nat
        /\ w.iface \in Interface => w.iface.mode \in Mode
        /\ w.iface \in Interface => w.iface.drv \in Driver
        /\ w.iface \in Interface <=> ~Resets(w)
    <2>1. NoInterface.num = 0
      BY DEF NoInterface
    <2> QED  BY <1>1, <2>1, InterfaceFacts, SMT DEF Resets
  <1>3. /\ Resets(w) => w.at \in ResetStep \cup Ended
        /\ Resets(w) /\ w.at \in {"rLegacy", "rZero"} => Claims(store[w.pf])
        /\ ~Resets(w) => w.at \notin {"load", "remove"}
    BY DEF HostInv, WorkersInv, ResetterInv, ConfigurerInv
  <1>4. /\ ResetFrom(w.pf) \in {"rLegacy", "rZero"}
        /\ w.at \notin ResetStep => FailTo(w) \in {"failed", "rLegacy", "rZero"}
        /\ w.at \in ResetStep => FailTo(w) = "failed"
        /\ NumSet(w) \in {"mode", "vfs"}
        /\ ResetEnd(w) \in {"remove", "failed"} /\ (ResetEnd(w) = "remove" => Resets(w))
        /\ CreateVFs(w.pf, w.iface) \in {"vfs", "preZero", "legacy", "zero"}
    BY DEF ResetFrom, FailTo, NumSet, ResetEnd, CreateVFs, Resets
  <1>5. CASE ConfigSriovPFDevice(w)
    <2>1. PICK at : StepTo(w, at) /\ at \in {"vfs", "preZero", "legacy", "zero", "failed", "rLegacy", "rZero"}
      BY <1>4, <1>5 DEF ConfigSriovPFDevice, ResetStep
    <2>2. w.at = "start" /\ ~Resets(w)
      BY <1>3, <1>5 DEF ConfigSriovPFDevice, ResetStep, Ended
    <2> QED  BY <1>1, <1>5, <2>1, <2>2 DEF ConfigSriovPFDevice, KeepApply, WorkerMove,
                                            ConfigStep, ResetStep, Ended
  <1>6. CASE ConfigureHWOptionsForSwitchdev(w)
    <2>1. PICK at : StepTo(w, at) /\ at \in {"preZero", "zero"}
      BY <1>6 DEF ConfigureHWOptionsForSwitchdev
    <2>2. w.at = "start" /\ ~Resets(w)
      BY <1>3, <1>6 DEF ConfigureHWOptionsForSwitchdev, ResetStep, Ended
    <2>3. dev' \in [PF -> Device] /\ \A q \in PF \ {w.pf} : dev'[q] = dev[q]
      BY <1>1, <1>6 DEF ConfigureHWOptionsForSwitchdev, Device, Bare, Mode
    <2> QED  BY <1>1, <1>6, <2>1, <2>2, <2>3 DEF ConfigureHWOptionsForSwitchdev, KeepApply, WorkerMove,
                                            ConfigStep, ResetStep, Ended
  <1>7. CASE SetLegacy(w)
    <2>1. PICK at : /\ StepTo(w, at) /\ at \in {"zero", "rZero", "remove", "failed"}
                    /\ at = "remove" => Resets(w)
                    /\ at = "zero" => w.at = "legacy"
                    /\ at = "rZero" => w.at = "rLegacy"
      BY <1>4, <1>7 DEF SetLegacy
    <2>2. Resets(w) => w.at = "rLegacy" /\ at # "zero"
      BY <1>3, <1>7, <2>1 DEF SetLegacy, ResetStep, Ended
    <2>3. dev' = [dev EXCEPT ![w.pf].mode = "legacy", ![w.pf].drv = "none"] /\ "legacy" \in Mode
      BY <1>7 DEF SetLegacy, Mode
    <2>4. dev' \in [PF -> Device] /\ \A q \in PF \ {w.pf} : dev'[q] = dev[q]
      BY <1>1, <2>3, DeviceChanged
    <2> QED  BY <1>1, <1>3, <1>7, <2>1, <2>2, <2>4 DEF SetLegacy, KeepApply, WorkerMove,
                                            ConfigStep, ResetStep, Ended
  <1>8. CASE SetNumVfsZero(w)
    <2>1. PICK at : /\ StepTo(w, at)
                    /\ at \in {"mode", "num", "vfs", "rLegacy", "remove", "failed"}
                    /\ at = "remove" => Resets(w)
                    /\ at \in {"mode", "num", "vfs"} => w.at \in {"preZero", "zero"}
                    /\ at = "rLegacy" => w.at = "rZero"
      BY <1>4, <1>8, SMT DEF SetNumVfsZero
    <2>2. Resets(w) => w.at = "rZero" /\ at \notin {"mode", "num", "vfs"}
      BY <1>3, <1>8, <2>1 DEF SetNumVfsZero, ResetStep, Ended
    <2>3. dev' = [dev EXCEPT ![w.pf].num = 0, ![w.pf].drv = "none"]
      BY <1>8 DEF SetNumVfsZero
    <2>4. dev' \in [PF -> Device] /\ \A q \in PF \ {w.pf} : dev'[q] = dev[q]
      BY <1>1, <2>3, DeviceChanged DEF Mode
    <2> QED  BY <1>1, <1>3, <1>8, <2>1, <2>2, <2>4 DEF SetNumVfsZero, KeepApply, WorkerMove,
                                            ConfigStep, ResetStep, Ended
  <1>9. CASE SetSriovNumVfs(w)
    <2>2. w.at = "num" /\ ~Resets(w)
      BY <1>3, <1>9 DEF SetSriovNumVfs, ResetStep, Ended
    <2>3. dev' = [dev EXCEPT ![w.pf].num = w.iface.num, ![w.pf].drv = "netdevice"]
      BY <1>9 DEF SetSriovNumVfs
    <2>4. dev' \in [PF -> Device] /\ \A q \in PF \ {w.pf} : dev'[q] = dev[q]
      BY <1>1, <1>2, <2>3, DeviceChanged DEF Mode, Driver
    <2> QED  BY <1>1, <1>4, <1>9, <2>2, <2>4 DEF SetSriovNumVfs, WorkerMove,
                                            ConfigStep, ResetStep, Ended
  <1>10. CASE SetNicSriovMode(w)
    <2>1. PICK at : StepTo(w, at) /\ at \in {"zero", "vfs"}
      BY <1>10 DEF SetNicSriovMode
    <2>2. w.at = "mode" /\ ~Resets(w)
      BY <1>3, <1>10 DEF SetNicSriovMode, ResetStep, Ended
    <2>3. dev' = [dev EXCEPT ![w.pf].mode = w.iface.mode, ![w.pf].drv = "none"]
      BY <1>10 DEF SetNicSriovMode
    <2>4. dev' \in [PF -> Device] /\ \A q \in PF \ {w.pf} : dev'[q] = dev[q]
      BY <1>1, <1>2, <2>2, <2>3, DeviceChanged
    <2> QED  BY <1>1, <1>10, <2>1, <2>2, <2>4 DEF SetNicSriovMode, KeepApply, WorkerMove,
                                            ConfigStep, ResetStep, Ended
  <1>11. CASE ConfigSriovVFDevices(w)
    <2>1. StepTo(w, "ok")
      BY <1>11 DEF ConfigSriovVFDevices
    <2>2. w.at = "vfs" /\ ~Resets(w)
      BY <1>3, <1>11 DEF ConfigSriovVFDevices, ResetStep, Ended
    <2>3. PICK r \in Driver \cup {"none"} : dev' = [dev EXCEPT ![w.pf].drv = r]
      BY <1>2, <1>11, <2>2 DEF ConfigSriovVFDevices
    <2>4. dev' \in [PF -> Device] /\ \A q \in PF \ {w.pf} : dev'[q] = dev[q]
      BY <1>1, <2>3, DeviceChanged DEF Mode
    <2> QED  BY <1>1, <1>11, <2>1, <2>2, <2>4 DEF ConfigSriovVFDevices, KeepApply, WorkerMove,
                                            ConfigStep, ResetStep, Ended
  <1>12. CASE LoadPfsStatus(w)
    <2>1. PICK at : /\ StepTo(w, at) /\ at \in {"failed", "ok", "remove", "rLegacy", "rZero"}
                    /\ at \in {"rLegacy", "rZero"} => Claims(store[w.pf])
      BY <1>1, <1>4, <1>12, SMT DEF LoadPfsStatus, Claims, Recorded
    <2>2. w.at = "load" /\ Resets(w)
      BY <1>3, <1>12 DEF LoadPfsStatus
    <2> QED  BY <1>1, <1>12, <2>1, <2>2 DEF LoadPfsStatus, KeepApply, WorkerMove,
                                            ConfigStep, ResetStep, Ended
  <1>13. CASE RemovePfAppliedStatus(w)
    <2>1. w.at = "remove" /\ Resets(w)
      BY <1>3, <1>13 DEF RemovePfAppliedStatus
    <2> QED  BY <1>1, <1>13, <2>1 DEF RemovePfAppliedStatus, WorkerMove,
                                            ConfigStep, ResetStep, Ended
  <1>14. CASE WorkerFails(w)
    <2>1. StepTo(w, FailTo(w)) /\ used' \in Budget
      BY <1>1, <1>14, FaultType DEF WorkerFails
    <2>2. Resets(w) => FailTo(w) = "failed"
      BY <1>3, <1>4, <1>14 DEF WorkerFails
    <2>3. FailTo(w) \in {"failed", "rLegacy", "rZero"}
      BY <1>4
    <2> QED  BY <1>1, <1>14, <2>1, <2>2, <2>3 DEF WorkerFails, hostVars, WorkerMove,
                                            ConfigStep, ResetStep, Ended
  <1> QED  BY <1>5, <1>6, <1>7, <1>8, <1>9, <1>10, <1>11, <1>12, <1>13, <1>14 DEF WorkerStep

-----------------------------------------------------------------------------
(* Records are saved of PFs that have an interface only.                   *)
Named == {p \in PF : want[p] # NoInterface}

LEMMA SaveFacts ==
    ASSUME TypeOK, NEW S, NEW T, S \subseteq Named, T \subseteq PF, Save(S, T)
    PROVE  /\ store' \in [PF -> Record] /\ owner' \in [PF -> {"operator", "outside"}]
           /\ ClaimInv => ClaimInv'
           /\ \A p \in PF : want[p] = NoInterface /\ Claims(store'[p]) => Claims(store[p])
  <1>1. \A p \in S : want[p] \in Interface /\ want[p] \in Record
    BY InterfaceFacts DEF TypeOK, Named
  <1>2. /\ store' = [p \in PF |-> IF p \in S THEN want[p] ELSE IF p \in T THEN Torn ELSE store[p]]
        /\ owner' = [p \in PF |-> IF p \in S THEN OwnerBy(want[p]) ELSE owner[p]]
    BY DEF Save
  <1>3. store' \in [PF -> Record] /\ owner' \in [PF -> {"operator", "outside"}]
    BY <1>1, <1>2, NothingClaimed DEF TypeOK, OwnerBy
  <1>4. ASSUME ClaimInv PROVE ClaimInv'
    <2> SUFFICES ASSUME NEW p \in PF, Claims(store'[p]) PROVE owner'[p] = "operator"
      BY DEF ClaimInv
    <2>1. CASE p \in S
      BY <1>2, <2>1 DEF OwnerBy, Claims
    <2>2. CASE p \notin S
      BY <1>2, <1>4, <2>2, NothingClaimed DEF ClaimInv
    <2> QED  BY <2>1, <2>2
  <1>5. \A p \in PF : want[p] = NoInterface /\ Claims(store'[p]) => Claims(store[p])
    BY <1>2, NothingClaimed DEF Named
  <1> QED  BY <1>3, <1>4, <1>5

(* The ways an apply ends with an error.                                   *)
SomeFailed == \E w \in LiveWorkers : w.at = "failed"
ApplyAborts ==
    /\ ApplyFails
    /\ UNCHANGED <<dev, spec, pending, parallel>>
    /\ used' \in Budget
    /\ \E S \in SUBSET Named, T \in SUBSET PF : Save(S, T)
    /\ \A w \in workers : Resets(w) => w.at \in Ended

LEMMA NothingSaved ==
    ASSUME TypeOK, UNCHANGED hostVars
    PROVE  Save({}, {})
  BY DEF TypeOK, hostVars, Save

LEMMA SkippedAreNamed == ToSkip \subseteq Named
  BY DEF ToSkip, Named

LEMMA Aborts ==
    ASSUME HostInv,
           \/ SkipSaveFails \/ SavePfFails \/ LoadUdevRulesFails
           \/ SomeFailed /\ (ConfigDone \/ ResetDone)
           \/ \E w \in workers : w.at = "failed" /\ ConfigReturns(w)
    PROVE  ApplyAborts
  <1>1. /\ TypeOK /\ used \in Budget
        /\ saving # NoPF => stage = "config" /\ saving \in Named /\ saving \in PF
        /\ \A w \in workers : Resets(w) => w \in LiveWorkers /\ stage = "reset"
    BY DEF HostInv, TypeOK, ApplyInv, WorkersInv, ResetterInv, Named, LiveWorkers
  <1>2. CASE SkipSaveFails
    <2>1. ApplyFails /\ UNCHANGED <<dev, spec, pending, parallel>> /\ used' \in Budget /\ stage = "scan"
      BY <1>1, <1>2, FaultType DEF SkipSaveFails
    <2>2. \E S \in SUBSET Named, T \in SUBSET PF : Save(S, T)
      BY <1>2, SkippedAreNamed DEF SkipSaveFails, Named
    <2> QED  BY <1>1, <2>1, <2>2 DEF ApplyAborts
  <1>3. CASE SavePfFails
    <2>1. ApplyFails /\ UNCHANGED <<dev, spec, pending, parallel>> /\ used' \in Budget /\ stage = "config"
      BY <1>1, <1>3, FaultType DEF SavePfFails
    <2>2. \E S \in SUBSET Named, T \in SUBSET PF : Save(S, T)
      BY <1>1, <1>3 DEF SavePfFails
    <2> QED  BY <1>1, <2>1, <2>2 DEF ApplyAborts
  <1>4. CASE LoadUdevRulesFails
    <2>1. /\ ApplyFails /\ UNCHANGED <<dev, spec, pending, parallel>> /\ used' \in Budget
          /\ LiveWorkers = {} /\ UNCHANGED hostVars
      BY <1>1, <1>4, FaultType DEF LoadUdevRulesFails, hostVars
    <2> QED  BY <1>1, <2>1, NothingSaved DEF ApplyAborts
  <1>5. CASE \/ SomeFailed /\ ConfigDone
             \/ \E w \in workers : w.at = "failed" /\ ConfigReturns(w)
    <2>1. UNCHANGED <<hostVars, spec, pending, parallel, used>> /\ stage = "config" /\ ApplyFails
      BY <1>5 DEF ConfigDone, ConfigReturns, SomeFailed
    <2> QED  BY <1>1, <2>1, NothingSaved DEF ApplyAborts, hostVars
  <1>6. CASE SomeFailed /\ ResetDone
    <2>1. UNCHANGED <<hostVars, spec, pending, parallel, used>> /\ ApplyFails /\ Running = {}
      BY <1>6 DEF ResetDone, SomeFailed
    <2>2. \A w \in workers : Resets(w) => w.at \in Ended
      BY <1>1, <2>1 DEF Running
    <2> QED  BY <1>1, <2>1, <2>2, NothingSaved DEF ApplyAborts, hostVars
  <1> QED  BY <1>2, <1>3, <1>4, <1>5, <1>6

(* The steps of Next, by what the proofs tell apart.                       *)
Finishes(w) == w.at = "ok" /\ ConfigReturns(w)
Outside(p) == \E n \in {i.num : i \in Interface} : OutsideSets(p, n)
Asks(p) == \E i \in Interface \cup {NoInterface} : NewSpec(p, i)

HostStep ==
    \/ \E w \in workers, at \in ConfigStep \cup ResetStep \cup Ended : WorkerMove(w, at)
    \/ ApplyAborts
    \/ OnNodeStateChange \/ GetConfigureAndReset \/ SavePf
    \/ \E p \in PF : StartConfig(p) \/ StartReset(p)
    \/ \E w \in workers : Finishes(w)
    \/ ConfigDone /\ ~SomeFailed
    \/ ResetDone /\ ~SomeFailed
    \/ \E reboot \in BOOLEAN : Restart(reboot)
    \/ \E p \in PF : Asks(p) \/ Outside(p)
    \/ UNCHANGED vars

LEMMA HostCases ==
    ASSUME HostInv, [Next]_vars
    PROVE  HostStep
  <1>1. CASE ApplyStep
    <2>1. CASE ConfigDone \/ ResetDone
      BY <2>1, Aborts DEF HostStep
    <2>2. CASE \E w \in workers : ConfigReturns(w)
      <3>1. PICK w \in workers : ConfigReturns(w)
        BY <2>2
      <3>2. w.at = "ok" \/ w.at = "failed"
        BY <3>1 DEF ConfigReturns
      <3> QED  BY <3>1, <3>2, Aborts DEF HostStep, Finishes
    <2> QED  BY <1>1, <2>1, <2>2 DEF ApplyStep, HostStep
  <1>2. CASE \E w \in workers : WorkerStep(w) \/ WorkerFails(w)
    BY <1>2, WorkerMoves DEF HostStep
  <1>3. CASE SkipSaveFails \/ SavePfFails \/ LoadUdevRulesFails
    BY <1>3, Aborts DEF HostStep
  <1>4. CASE \E reboot \in BOOLEAN : Restart(reboot)
    BY <1>4 DEF HostStep
  <1>5. CASE \E p \in PF, i \in Interface \cup {NoInterface} : NewSpec(p, i)
    BY <1>5 DEF HostStep, Asks
  <1>6. CASE \E p \in PF, n \in {i.num : i \in Interface} : OutsideSets(p, n)
    BY <1>6 DEF HostStep, Outside
  <1>7. CASE UNCHANGED vars
    BY <1>7 DEF HostStep
  <1> QED  BY <1>1, <1>2, <1>3, <1>4, <1>5, <1>6, <1>7 DEF Next

LEMMA RestartSaves ==
    ASSUME HostInv, NEW reboot \in BOOLEAN, Restart(reboot)
    PROVE  \E S \in SUBSET Named, T \in SUBSET PF : Save(S, T)
  <1>1. saving \in PF \cup {NoPF}
    BY DEF HostInv, TypeOK
  <1> QED  BY <1>1, SkippedAreNamed DEF Restart, Named

LEMMA TypeStep ==
    ASSUME HostInv, HostStep
    PROVE  TypeOK'
  <1> USE DEF hostVars, applyVars
  <1>0. TypeOK
    BY DEF HostInv
  <1>1. ASSUME NEW w \in workers, NEW at \in ConfigStep \cup ResetStep \cup Ended, WorkerMove(w, at)
        PROVE  TypeOK'
    <2>1. w \in Worker /\ w.pf \in PF
      BY <1>0 DEF TypeOK, Worker
    <2>2. \A v \in workers' : v \in Worker
      BY <1>0, <1>1, <2>1, StepToMembers DEF WorkerMove, TypeOK
    <2>3. store' \in [PF -> Record] /\ owner' \in [PF -> {"operator", "outside"}]
      BY <1>0, <1>1, <2>1, NothingClaimed, SMT DEF WorkerMove, TypeOK
    <2> QED  BY <1>0, <1>1, <2>2, <2>3 DEF WorkerMove, TypeOK
  <1>2. CASE ApplyAborts
    <2>1. store' \in [PF -> Record] /\ owner' \in [PF -> {"operator", "outside"}]
      BY <1>0, <1>2, SaveFacts DEF ApplyAborts
    <2>2. \A v \in workers' : v \in Worker
      BY <1>0, <1>2, LeftBehind DEF ApplyAborts, TypeOK
    <2> QED  BY <1>0, <1>2, <2>1, <2>2 DEF ApplyAborts, ApplyFails, TypeOK
  <1>3. CASE OnNodeStateChange
    BY <1>0, <1>3 DEF OnNodeStateChange, TypeOK, NeedToUpdateVFs
  <1>4. CASE GetConfigureAndReset
    <2>1. store' \in [PF -> Record] /\ owner' \in [PF -> {"operator", "outside"}]
      BY <1>0, <1>4, SaveFacts, SkippedAreNamed DEF GetConfigureAndReset
    <2> QED  BY <1>0, <1>4, <2>1 DEF GetConfigureAndReset, TypeOK
  <1>5. CASE SavePf
    <2>1. {saving} \subseteq Named
      BY <1>0, <1>5 DEF HostInv, ApplyInv, SavePf, TypeOK, Named
    <2>2. store' \in [PF -> Record] /\ owner' \in [PF -> {"operator", "outside"}]
      BY <1>0, <1>5, <2>1, SaveFacts, SMT DEF SavePf
    <2> QED  BY <1>0, <1>5, <2>2 DEF SavePf, TypeOK
  <1>6. ASSUME NEW p \in PF, StartConfig(p) PROVE TypeOK'
    <2>1. [pf |-> p, iface |-> want[p], at |-> "start", live |-> TRUE] \in Worker
      BY <1>0 DEF TypeOK, Worker, ConfigStep
    <2> QED  BY <1>0, <1>6, <2>1 DEF StartConfig, TypeOK
  <1>7. ASSUME NEW p \in PF, StartReset(p) PROVE TypeOK'
    <2>1. [pf |-> p, iface |-> NoInterface, at |-> "load", live |-> TRUE] \in Worker
      BY DEF Worker, ResetStep
    <2> QED  BY <1>0, <1>7, <2>1 DEF StartReset, TypeOK
  <1>8. ASSUME NEW w \in workers, Finishes(w) PROVE TypeOK'
    <2>1. w.pf \in PF
      BY <1>0 DEF TypeOK, Worker
    <2> QED  BY <1>0, <1>8, <2>1 DEF Finishes, ConfigReturns, TypeOK
  <1>9. CASE ConfigDone /\ ~SomeFailed
    BY <1>0, <1>9 DEF ConfigDone, SomeFailed, TypeOK
  <1>10. CASE ResetDone /\ ~SomeFailed
    BY <1>0, <1>10 DEF ResetDone, SomeFailed, TypeOK
  <1>11. ASSUME NEW reboot \in BOOLEAN, Restart(reboot) PROVE TypeOK'
    <2>1. store' \in [PF -> Record] /\ owner' \in [PF -> {"operator", "outside"}]
      BY <1>0, <1>11, SaveFacts, RestartSaves
    <2>2. dev' \in [PF -> Device] /\ used' \in Budget
      BY <1>0, <1>11, FaultType DEF Restart, TypeOK, Device, Bare, Mode
    <2> QED  BY <1>0, <1>11, <2>1, <2>2 DEF Restart, TypeOK
  <1>12. ASSUME NEW p \in PF, Asks(p) PROVE TypeOK'
    <2>1. used' \in Budget
      BY <1>0, <1>12, SpecType DEF Asks, NewSpec, TypeOK
    <2> QED  BY <1>0, <1>12, <2>1, SMT DEF Asks, NewSpec, TypeOK
  <1>13. ASSUME NEW p \in PF, Outside(p) PROVE TypeOK'
    <2>1. PICK i \in Interface : OutsideSets(p, i.num)
      BY <1>13 DEF Outside
    <2>2. i.num \in Nat
      BY InterfaceFacts
    <2>3. dev' \in [PF -> Device]
      BY <1>0, <2>1, <2>2, DeviceChanged DEF OutsideSets, TypeOK, Mode, Driver
    <2>4. used' \in Budget
      BY <1>0, <2>1, SpecType DEF OutsideSets, TypeOK
    <2> QED  BY <1>0, <2>1, <2>3, <2>4 DEF OutsideSets, TypeOK
  <1>14. CASE UNCHANGED vars
    BY <1>0, <1>14 DEF vars, TypeOK
  <1> QED  BY <1>1, <1>2, <1>3, <1>4, <1>5, <1>6, <1>7, <1>8, <1>9, <1>10, <1>11, <1>12, <1>13,
              <1>14 DEF HostStep

-----------------------------------------------------------------------------
(* A record that claims VFs is written together with their ownership, and  *)
(* nobody outside sets VFs that a record claims.                           *)
LEMMA ClaimStep ==
    ASSUME HostInv, HostStep
    PROVE  ClaimInv'
  <1> USE DEF hostVars
  <1>0. TypeOK /\ ClaimInv
    BY DEF HostInv
  <1>1. ASSUME NEW w \in workers, NEW at \in ConfigStep \cup ResetStep \cup Ended, WorkerMove(w, at)
        PROVE  ClaimInv'
    <2>1. w.pf \in PF
      BY <1>0 DEF TypeOK, Worker
    <2> SUFFICES ASSUME NEW p \in PF, Claims(store'[p]) PROVE owner'[p] = "operator"
      BY DEF ClaimInv
    <2>2. Claims(store[p])
      BY <1>0, <1>1, <2>1, NothingClaimed DEF WorkerMove, TypeOK
    <2> QED  BY <1>0, <1>1, <2>1, <2>2 DEF WorkerMove, TypeOK, ClaimInv
  <1>2. CASE \E S \in SUBSET Named, T \in SUBSET PF : Save(S, T)
    BY <1>0, <1>2, SaveFacts
  <1>3. CASE UNCHANGED <<store, owner>>
    BY <1>0, <1>3 DEF ClaimInv
  <1>4. CASE ApplyAborts
    BY <1>2, <1>4 DEF ApplyAborts
  <1>5. CASE GetConfigureAndReset
    BY <1>2, <1>5, SkippedAreNamed DEF GetConfigureAndReset
  <1>6. CASE SavePf
    BY <1>0, <1>2, <1>6 DEF HostInv, ApplyInv, SavePf, TypeOK, Named
  <1>7. CASE \E reboot \in BOOLEAN : Restart(reboot)
    BY <1>2, <1>7, RestartSaves
  <1>8. ASSUME NEW p \in PF, Outside(p) PROVE ClaimInv'
    <2>1. UNCHANGED store /\ owner' = [owner EXCEPT ![p] = "outside"] /\ ~Claims(store[p])
      BY <1>8 DEF Outside, OutsideSets, LeftAlone, Claims
    <2> QED  BY <1>0, <2>1 DEF TypeOK, ClaimInv
  <1>9. CASE OnNodeStateChange \/ \E p \in PF : StartConfig(p) \/ StartReset(p) \/ Asks(p)
    BY <1>3, <1>9 DEF OnNodeStateChange, StartConfig, StartReset, Asks, NewSpec
  <1>10. CASE ConfigDone \/ ResetDone \/ \E w \in workers : Finishes(w)
    BY <1>3, <1>10 DEF ConfigDone, ResetDone, Finishes, ConfigReturns
  <1>11. CASE UNCHANGED vars
    BY <1>3, <1>11 DEF vars
  <1> QED  BY <1>1, <1>4, <1>5, <1>6, <1>7, <1>8, <1>9, <1>10, <1>11 DEF HostStep

(* What an apply judged when it started still holds: the records of PFs    *)
(* without an interface only disappear.                                    *)
LEMMA JudgedStep ==
    ASSUME HostInv, HostStep
    PROVE  ApplyInv'
  <1> USE DEF hostVars, applyVars
  <1>0. TypeOK /\ ApplyInv
    BY DEF HostInv
  <1>1. ASSUME UNCHANGED <<applyVars, stage>>,
               \A p \in PF : want[p] = NoInterface /\ Claims(store'[p]) => Claims(store[p])
        PROVE  ApplyInv'
    BY <1>0, <1>1 DEF ApplyInv, Changes
  <1>2. ASSUME stage' = "idle", toConfig' = {}, saving' = NoPF, toReset' = {}
        PROVE  ApplyInv'
    BY <1>0, <1>2 DEF ApplyInv
  <1>3. ASSUME NEW w \in workers, NEW at \in ConfigStep \cup ResetStep \cup Ended, WorkerMove(w, at)
        PROVE  ApplyInv'
    <2>1. w.pf \in PF
      BY <1>0 DEF TypeOK, Worker
    <2>2. \A p \in PF : Claims(store'[p]) => Claims(store[p])
      BY <1>0, <1>3, <2>1, NothingClaimed DEF WorkerMove, TypeOK
    <2> QED  BY <1>1, <1>3, <2>2 DEF WorkerMove
  <1>4. CASE ApplyAborts
    BY <1>2, <1>4 DEF ApplyAborts, ApplyFails
  <1>5. CASE OnNodeStateChange
    <2>1. /\ seen' = dev /\ want' = spec /\ stage' = "scan"
          /\ drain' = NeedToUpdateVFs(spec, dev, store)
          /\ UNCHANGED <<toConfig, toReset, saving, store>> /\ stage = "idle"
      BY <1>5 DEF OnNodeStateChange
    <2>2. toConfig = {} /\ saving = NoPF /\ toReset = {}
      BY <1>0, <2>1 DEF ApplyInv
    <2>3. \A p \in PF : seen'[p].num > 0 /\ Changes(p)' => drain'
      BY <2>1 DEF Changes, NeedToUpdateVFs, Claims
    <2> QED  BY <2>1, <2>2, <2>3 DEF ApplyInv
  <1>6. CASE GetConfigureAndReset
    <2>1. \A p \in PF : want[p] = NoInterface /\ Claims(store'[p]) => Claims(store[p])
      BY <1>0, <1>6, SaveFacts, SkippedAreNamed DEF GetConfigureAndReset
    <2>2. /\ toConfig' = {p \in PF : want[p] # NoInterface} \ ToSkip
          /\ toReset' = {p \in PF : want[p] = NoInterface}
          /\ stage = "scan" /\ stage' = "config" /\ UNCHANGED <<want, seen, drain, saving>>
      BY <1>6 DEF GetConfigureAndReset
    <2>3. \A p \in toConfig' : want[p] # NoInterface /\ NeedToUpdateSriov(want[p], seen[p])
      BY <2>2 DEF ToSkip
    <2> QED  BY <1>0, <2>1, <2>2, <2>3 DEF ApplyInv, Changes
  <1>7. CASE SavePf
    <2>1. {saving} \subseteq Named
      BY <1>0, <1>7 DEF ApplyInv, SavePf, TypeOK, Named
    <2>2. \A p \in PF : want[p] = NoInterface /\ Claims(store'[p]) => Claims(store[p])
      BY <1>0, <1>7, <2>1, SaveFacts, SMT DEF SavePf
    <2> QED  BY <1>0, <1>7, <2>2 DEF SavePf, ApplyInv, Changes
  <1>8. ASSUME NEW p \in PF, StartConfig(p) \/ StartReset(p) PROVE ApplyInv'
    BY <1>0, <1>8, SMT DEF StartConfig, StartReset, ApplyInv, Changes
  <1>9. ASSUME NEW w \in workers, Finishes(w) PROVE ApplyInv'
    <2>1. /\ UNCHANGED <<stage, want, seen, drain, toConfig, toReset, store>>
          /\ saving' = w.pf /\ stage = "config" /\ w.live
      BY <1>9 DEF Finishes, ConfigReturns, LiveWorkers
    <2>2. want[w.pf] # NoInterface
      BY <2>1 DEF HostInv, WorkersInv, ConfigurerInv, ResetterInv, Resets
    <2> QED  BY <1>0, <2>1, <2>2 DEF ApplyInv, Changes
  <1>10. CASE ConfigDone /\ ~SomeFailed
    BY <1>0, <1>10 DEF ConfigDone, SomeFailed, ApplyInv, Changes
  <1>11. CASE ResetDone /\ ~SomeFailed
    BY <1>0, <1>11 DEF ResetDone, SomeFailed, ApplyInv
  <1>12. CASE \E reboot \in BOOLEAN : Restart(reboot)
    BY <1>2, <1>12 DEF Restart
  <1>13. ASSUME NEW p \in PF, Asks(p) \/ Outside(p) PROVE ApplyInv'
    BY <1>1, <1>13 DEF Asks, NewSpec, Outside, OutsideSets
  <1>14. CASE UNCHANGED vars
    BY <1>1, <1>14 DEF vars
  <1> QED  BY <1>3, <1>4, <1>5, <1>6, <1>7, <1>8, <1>9, <1>10, <1>11, <1>12, <1>13, <1>14 DEF HostStep

(* The workers keep to the apply that started them.                        *)
LEMMA WorkersStep ==
    ASSUME HostInv, HostStep
    PROVE  WorkersInv'
  <1> USE DEF hostVars, applyVars
  <1> DEFINE Keeps(v) == IF Resets(v) THEN ResetterInv(v) ELSE ConfigurerInv(v)
  <1>0. /\ TypeOK /\ ApplyInv
        /\ \A v \in workers : Keeps(v) /\ v.pf \in PF
        /\ \A v, w \in workers : Resets(v) /\ Resets(w) /\ v.pf = w.pf => v = w
    BY DEF HostInv, WorkersInv, TypeOK, Worker
  <1>1. ASSUME NEW w \in workers, NEW at \in ConfigStep \cup ResetStep \cup Ended, WorkerMove(w, at)
        PROVE  WorkersInv'
    <2>1. /\ \A v \in workers' :
                \/ v \in workers /\ v # w
                \/ /\ v = [w EXCEPT !.at = at]
                   /\ v.pf = w.pf /\ v.iface = w.iface /\ v.live = w.live /\ v.at = at
      BY <1>0, <1>1, StepToMembers, SMT DEF WorkerMove, TypeOK
    <2>2. ASSUME NEW v \in workers', v \in workers, v # w PROVE Keeps(v)'
      <3>1. CASE Resets(v)
        <4>1. store'[v.pf] = store[v.pf]
          <5>1. CASE store' = store
            BY <5>1
          <5>2. CASE w.at = "remove" /\ store' = [store EXCEPT ![w.pf] = Absent]
            <6>1. Resets(w)
              BY <1>0, <5>2 DEF ConfigurerInv
            <6>2. v.pf # w.pf
              BY <1>0, <2>2, <3>1, <6>1
            <6> QED  BY <1>0, <5>2, <6>2, SMT DEF TypeOK
          <5> QED  BY <1>1, <5>1, <5>2 DEF WorkerMove
        <4> QED  BY <1>0, <1>1, <2>2, <3>1, <4>1 DEF WorkerMove, Resets, ResetterInv
      <3>2. CASE ~Resets(v)
        BY <1>0, <1>1, <2>2, <3>2 DEF WorkerMove, Resets, ConfigurerInv
      <3> QED  BY <3>1, <3>2
    <2>3. ASSUME NEW v \in workers', v.pf = w.pf, v.iface = w.iface, v.live = w.live, v.at = at
          PROVE  Keeps(v)'
      <3>1. CASE Resets(w)
        <4>1. ResetterInv(w) /\ Resets(v)
          BY <1>0, <2>3, <3>1 DEF Resets
        <4>2. at \in {"rLegacy", "rZero"} => Claims(store'[w.pf])
          BY <1>1, <3>1 DEF WorkerMove
        <4> QED  BY <1>1, <2>3, <3>1, <4>1, <4>2 DEF WorkerMove, ResetterInv, Resets
      <3>2. CASE ~Resets(w)
        <4>1. ConfigurerInv(w) /\ ~Resets(v)
          BY <1>0, <2>3, <3>2 DEF Resets
        <4> QED  BY <1>1, <2>3, <3>2, <4>1 DEF WorkerMove, ConfigurerInv, Resets
      <3> QED  BY <3>1, <3>2
    <2>4. \A v \in workers' : Keeps(v)'
      BY <2>1, <2>2, <2>3
    <2>5. ASSUME NEW u \in workers', NEW v \in workers', Resets(u), Resets(v), u.pf = v.pf
          PROVE  u = v
      BY <1>0, <2>1, <2>5 DEF Resets
    <2>6. \A u, v \in workers' : Resets(u)' /\ Resets(v)' /\ u.pf = v.pf => u = v
      BY <2>5 DEF Resets
    <2> QED  BY <2>4, <2>6 DEF WorkersInv
  <1>2. CASE ApplyAborts
    <2>1. \A v \in workers' : ~v.live /\ ~Resets(v) /\ v.at \notin {"load", "remove"}
      <3> SUFFICES ASSUME NEW v \in workers'
                   PROVE  ~v.live /\ ~Resets(v) /\ v.at \notin {"load", "remove"}
        OBVIOUS
      <3>1. PICK w \in workers : w.at \notin Ended /\ v.iface = w.iface /\ v.at = w.at /\ ~v.live
        BY <1>0, <1>2, LeftBehind DEF ApplyAborts, TypeOK
      <3>2. ~Resets(w)
        BY <1>2, <3>1 DEF ApplyAborts
      <3> QED  BY <1>0, <3>1, <3>2 DEF ConfigurerInv, Resets
    <2> QED  BY <2>1 DEF WorkersInv, ConfigurerInv, Resets
  <1>3. ASSUME workers' \subseteq workers, \A v \in workers' : ~v.live
        PROVE  WorkersInv'
    BY <1>0, <1>3 DEF WorkersInv, ResetterInv, ConfigurerInv, Resets
  <1>4. ASSUME workers' \subseteq workers, UNCHANGED <<stage, want, seen, toReset, store>>
        PROVE  WorkersInv'
    BY <1>0, <1>4 DEF WorkersInv, ResetterInv, ConfigurerInv, Resets
  <1>5. stage \notin {"config", "reset"} => \A v \in workers : ~v.live
    BY <1>0 DEF ResetterInv, ConfigurerInv
  <1>6. CASE OnNodeStateChange
    BY <1>3, <1>5, <1>6 DEF OnNodeStateChange
  <1>7. CASE GetConfigureAndReset
    BY <1>3, <1>5, <1>7 DEF GetConfigureAndReset
  <1>8. CASE SavePf
    <2>1. stage = "config" /\ UNCHANGED <<stage, want, seen, toReset, workers>>
      BY <1>0, <1>8 DEF SavePf, ApplyInv
    <2>2. \A v \in workers : ~Resets(v)
      BY <1>0, <2>1 DEF ResetterInv
    <2> QED  BY <1>0, <2>1, <2>2 DEF WorkersInv, ConfigurerInv, Resets
  <1>9. ASSUME NEW p \in PF, StartConfig(p) PROVE WorkersInv'
    <2> DEFINE new == [pf |-> p, iface |-> want[p], at |-> "start", live |-> TRUE]
    <2>1. /\ workers' = workers \cup {new} /\ stage = "config"
          /\ UNCHANGED <<stage, want, seen, toReset, store>> /\ p \in toConfig
      BY <1>9 DEF StartConfig
    <2>2. new.pf = p /\ new.iface = want[p] /\ new.at = "start" /\ new.live
      OBVIOUS
    <2>3. want[p] # NoInterface /\ NeedToUpdateSriov(want[p], seen[p])
      BY <1>0, <2>1 DEF ApplyInv
    <2>4. ~Resets(new) /\ \A v \in workers : ~Resets(v)
      BY <1>0, <2>1, <2>2, <2>3 DEF ResetterInv, Resets
    <2> HIDE DEF new
    <2> QED  BY <1>0, <2>1, <2>2, <2>3, <2>4 DEF WorkersInv, ConfigurerInv, Resets
  <1>10. ASSUME NEW p \in PF, StartReset(p) PROVE WorkersInv'
    <2> DEFINE new == [pf |-> p, iface |-> NoInterface, at |-> "load", live |-> TRUE]
    <2>1. /\ workers' = workers \cup {new} /\ stage = "reset" /\ p \in toReset
          /\ toReset' = toReset \ {p} /\ UNCHANGED <<stage, want, seen, store>>
      BY <1>10 DEF StartReset
    <2>2. new.pf = p /\ new.iface = NoInterface /\ new.at = "load" /\ new.live
      OBVIOUS
    <2>3. want[p] = NoInterface
      BY <1>0, <2>1 DEF ApplyInv
    <2>4. \A v \in workers : Resets(v) => v.pf # p
      BY <1>0, <2>1 DEF ResetterInv
    <2> HIDE DEF new
    <2>5. \A v \in workers' : Keeps(v)'
      BY <1>0, <2>1, <2>2, <2>3 DEF ResetterInv, ConfigurerInv, Resets, ResetStep
    <2>6. \A u, v \in workers' : Resets(u)' /\ Resets(v)' /\ u.pf = v.pf => u = v
      BY <1>0, <2>1, <2>2, <2>4, SMT DEF Resets
    <2> QED  BY <2>5, <2>6 DEF WorkersInv
  <1>11. ASSUME NEW w \in workers, Finishes(w) PROVE WorkersInv'
    BY <1>4, <1>11 DEF Finishes, ConfigReturns
  <1>12. CASE (ConfigDone \/ ResetDone) /\ ~SomeFailed
    BY <1>3, <1>12 DEF ConfigDone, ResetDone, SomeFailed, LiveWorkers
  <1>13. CASE \E reboot \in BOOLEAN : Restart(reboot)
    BY <1>3, <1>13 DEF Restart
  <1>14. ASSUME NEW p \in PF, Asks(p) \/ Outside(p) PROVE WorkersInv'
    BY <1>4, <1>14 DEF Asks, NewSpec, Outside, OutsideSets
  <1>15. CASE UNCHANGED vars
    BY <1>4, <1>15 DEF vars
  <1> QED  BY <1>1, <1>2, <1>6, <1>7, <1>8, <1>9, <1>10, <1>11, <1>12, <1>13, <1>14, <1>15 DEF HostStep

LEMMA HostInit == Init => HostInv
  <1> SUFFICES ASSUME Init PROVE HostInv
    OBVIOUS
  <1>1. TypeOK
    <2>1. Bare \in Device
      BY DEF Bare, Device, Mode
    <2>2. [faults |-> 0, specs |-> 0, outside |-> 0] \in Budget
      BY HostAssumption, SMT DEF Budget
    <2> QED  BY <2>1, <2>2, NothingClaimed DEF Init, TypeOK
  <1>2. ClaimInv
    BY NothingClaimed DEF Init, ClaimInv
  <1> QED  BY <1>1, <1>2 DEF Init, HostInv, ApplyInv, WorkersInv

LEMMA HostNext == HostInv /\ [Next]_vars => HostInv'
  BY HostCases, TypeStep, ClaimStep, JudgedStep, WorkersStep DEF HostInv

(* HostInv holds in every state.                                           *)
THEOREM HostSafety == Spec => []HostInv
  BY HostInit, HostNext, PTL DEF Spec

(* Whatever fails or restarts, and whatever workers a failed apply leaves  *)
(* behind: a PF without an interface is reset only when its VFs are the    *)
(* operator's, or it has none (checkForConfigAndReset).                    *)
THEOREM OthersKeepVfs == Spec => []ResetOnlyOwnVfs
  <1>1. HostInv => ResetOnlyOwnVfs
    <2> SUFFICES ASSUME HostInv, NEW w \in workers, Resets(w), w.at \in {"rLegacy", "rZero"}
                 PROVE  owner[w.pf] = "operator"
      BY DEF ResetOnlyOwnVfs, HostInv, Resets
    <2>1. w.pf \in PF
      BY DEF HostInv, TypeOK, Worker
    <2> QED  BY <2>1 DEF HostInv, WorkersInv, ResetterInv, ClaimInv
  <1> QED  BY <1>1, HostSafety, PTL

(* needToUpdateVFs asked for a drain whenever the workers of the apply     *)
(* touch VFs that existed when it started.                                 *)
THEOREM DrainAskedFirst == Spec => []DrainBeforeTouch
  <1>1. HostInv => DrainBeforeTouch
    <2> SUFFICES ASSUME HostInv, NEW w \in LiveWorkers, w.at \in TouchesVfs, seen[w.pf].num > 0
                 PROVE  drain
      BY DEF DrainBeforeTouch
    <2>1. w \in workers /\ w.live /\ w.pf \in PF
      BY DEF HostInv, TypeOK, Worker, LiveWorkers
    <2>2. stage # "idle"
      BY <2>1 DEF HostInv, WorkersInv, ResetterInv, ConfigurerInv
    <2>3. Changes(w.pf)
      <3>1. CASE Resets(w)
        BY <2>1, <3>1 DEF HostInv, WorkersInv, ResetterInv, Changes, TouchesVfs, ResetStep, Ended
      <3>2. CASE ~Resets(w)
        BY <2>1, <3>2 DEF HostInv, WorkersInv, ConfigurerInv, Changes, Resets
      <3> QED  BY <3>1, <3>2
    <2> QED  BY <2>1, <2>2, <2>3 DEF HostInv, ApplyInv
  <1> QED  BY <1>1, HostSafety, PTL

-----------------------------------------------------------------------------
(* What a step of a worker does to its own PF while nothing failed.        *)
QuietMove(w, at) ==
    /\ StepTo(w, at)
    /\ UNCHANGED <<applyVars, spec, pending, stage, parallel>>
    /\ \A p \in PF \ {w.pf} : UNCHANGED <<dev[p], owner[p], store[p]>>
    /\ store'[w.pf] # Torn
    /\ w.iface.em => at \in {"start", "vfs", "ok", "failed"}
    /\ Claims(store'[w.pf]) \/ Unclaimed(w.pf)' \/ BeingConfigured(w.pf)'
    /\ IF Resets(w)
       THEN /\ dev'[w.pf].num \in {dev[w.pf].num, 0} /\ store'[w.pf] \in {store[w.pf], Absent}
            /\ at = "remove" => Unclaimed(w.pf)'
            /\ at = "ok" => store'[w.pf] = Absent
            /\ at = "rLegacy" /\ w.pf \in Ice => dev'[w.pf].num = 0
       ELSE store' = store

(* While nothing failed, every worker is waited for.                       *)
Moved(w, at) == [w EXCEPT !.at = at]

LEMMA QuietMembers ==
    ASSUME HostInv, LeakInv, NEW w \in workers,
           NEW at \in ConfigStep \cup ResetStep \cup Ended, StepTo(w, at)
    PROVE  /\ workers' = (workers \ {w}) \cup {Moved(w, at)}
           /\ Moved(w, at).pf = w.pf /\ Moved(w, at).iface = w.iface
           /\ Moved(w, at).live /\ Moved(w, at).at = at
  <1>1. w.live /\ w \in Worker
    BY DEF HostInv, TypeOK, LeakInv, TidyInv
  <1> QED  BY <1>1 DEF StepTo, Worker, Moved

(* VFs of the operator stay accounted for when their number and owner do.  *)
LEMMA StillAccounted ==
    ASSUME HostInv, LeakInv, NEW w \in workers,
           NEW at \in ConfigStep \cup ResetStep \cup Ended, StepTo(w, at),
           UNCHANGED <<want, saving, stage, parallel>>,
           owner'[w.pf] = owner[w.pf], dev'[w.pf].num = dev[w.pf].num, store'[w.pf] = store[w.pf],
           \/ w.at \notin {"mode", "vfs", "ok"}
           \/ w.at = "mode" /\ w.pf \in Ice
           \/ at \in {"vfs", "ok"}
    PROVE  Claims(store'[w.pf]) \/ Unclaimed(w.pf)' \/ BeingConfigured(w.pf)'
  <1>1. w.pf \in PF /\ TidyInv(w) /\ VfsInv
    BY DEF HostInv, TypeOK, Worker, LeakInv
  <1>2. CASE Claims(store[w.pf]) \/ Unclaimed(w.pf)
    BY <1>2 DEF Unclaimed
  <1>3. CASE BeingConfigured(w.pf)
    <2>1. stage = "config" /\ want[w.pf] # NoInterface /\ ~want[w.pf].em
      BY <1>3 DEF BeingConfigured
    <2>2. CASE saving = w.pf
      BY <2>1, <2>2 DEF BeingConfigured
    <2>3. CASE saving # w.pf
      <3>1. ~Resets(w)
        BY <2>1 DEF HostInv, WorkersInv, ResetterInv
      <3>2. ~parallel /\ workers = {w}
        BY <1>1, <1>3, <2>3, <3>1 DEF BeingConfigured, TidyInv
      <3>3. w.at \in {"vfs", "ok"} \/ (w.at = "mode" /\ w.pf \notin Ice)
        BY <1>3, <2>3, <3>2 DEF BeingConfigured
      <3>4. at \in {"vfs", "ok"}
        BY <3>3
      <3>5. Moved(w, at) \in workers' /\ Moved(w, at).pf = w.pf /\ Moved(w, at).at = at
        BY QuietMembers, SMT
      <3> QED  BY <2>1, <3>2, <3>4, <3>5 DEF BeingConfigured
    <2> QED  BY <2>2, <2>3
  <1> QED  BY <1>1, <1>2, <1>3 DEF VfsInv

LEMMA QuietMoves ==
    ASSUME HostInv, LeakInv, NEW w \in workers, WorkerStep(w)
    PROVE  \E at \in ConfigStep \cup ResetStep \cup Ended : QuietMove(w, at)
  <1> USE DEF applyVars
  <1> DEFINE Steps == ConfigStep \cup ResetStep \cup Ended
  <1>1. /\ dev \in [PF -> Device] /\ store \in [PF -> Record] /\ owner \in [PF -> {"operator", "outside"}]
        /\ w.pf \in PF /\ w.iface \in Interface \cup {NoInterface} /\ TidyInv(w)
        /\ store[w.pf] # Torn
    BY DEF HostInv, TypeOK, Worker, LeakInv
  <1>2. /\ Resets(w) => w.at \in ResetStep \cup Ended /\ ~w.iface.em /\ stage = "reset"
        /\ ~Resets(w) => /\ w.at \notin {"load", "remove"} /\ stage = "config"
                         /\ want[w.pf] = w.iface /\ w.iface \in Interface
    <2>1. ~NoInterface.em
      BY DEF NoInterface
    <2>2. Resets(w) => w.iface = NoInterface
      BY DEF Resets
    <2>3. ~Resets(w) => w.iface \in Interface
      BY <1>1 DEF Resets
    <2> QED  BY <1>1, <2>1, <2>2, <2>3 DEF HostInv, WorkersInv, ResetterInv, ConfigurerInv, TidyInv
  <1>3. /\ ResetFrom(w.pf) \in {"rLegacy", "rZero"}
        /\ ResetFrom(w.pf) = "rLegacy" => w.pf \notin Ice
        /\ NumSet(w) = IF w.pf \notin Ice /\ w.iface.mode = "switchdev" THEN "mode" ELSE "vfs"
        /\ ResetEnd(w) = IF Resets(w) THEN "remove" ELSE "failed"
        /\ CreateVFs(w.pf, w.iface) \in {"vfs", "preZero", "legacy", "zero"}
    BY DEF ResetFrom, NumSet, ResetEnd, CreateVFs, Resets
  <1>4. CASE ConfigSriovPFDevice(w)
    <2>1. w.at = "start" /\ ~Resets(w) /\ UNCHANGED dev /\ KeepApply
      BY <1>2, <1>4 DEF ConfigSriovPFDevice, ResetStep, Ended
    <2>2. PICK at \in Steps : StepTo(w, at) /\ (w.iface.em => at \in {"vfs", "failed"})
      <3>1. /\ w.iface.em => FailTo(w) = "failed"
            /\ FailTo(w) \in Steps /\ CreateVFs(w.pf, w.iface) \in Steps /\ "vfs" \in Steps
        BY <1>3 DEF FailTo, ConfigStep, ResetStep, Ended
      <3> QED  BY <1>4, <3>1 DEF ConfigSriovPFDevice
    <2>3. Claims(store'[w.pf]) \/ Unclaimed(w.pf)' \/ BeingConfigured(w.pf)'
      BY <2>1, <2>2, StillAccounted DEF KeepApply
    <2> QED  BY <1>1, <2>1, <2>2, <2>3 DEF KeepApply, QuietMove
  <1>5. CASE ConfigureHWOptionsForSwitchdev(w)
    <2>1. /\ w.at = "start" /\ ~Resets(w) /\ ~w.iface.em /\ KeepApply
          /\ dev' = [dev EXCEPT ![w.pf] = Bare]
      BY <1>2, <1>5 DEF ConfigureHWOptionsForSwitchdev, ResetStep, Ended
    <2>2. PICK at \in Steps : StepTo(w, at)
      BY <1>5 DEF ConfigureHWOptionsForSwitchdev, ConfigStep
    <2>3. dev'[w.pf].num = 0
      BY <1>1, <2>1 DEF Bare
    <2> QED  BY <1>1, <2>1, <2>2, <2>3 DEF KeepApply, QuietMove, Unclaimed
  <1>6. CASE SetLegacy(w)
    <2>1. /\ KeepApply /\ w.at \in {"legacy", "rLegacy"} /\ ~w.iface.em
          /\ dev' = [dev EXCEPT ![w.pf].mode = "legacy", ![w.pf].drv = "none"]
      BY <1>1, <1>6 DEF SetLegacy, TidyInv
    <2>2. dev'[w.pf].num = dev[w.pf].num /\ \A p \in PF \ {w.pf} : dev'[p] = dev[p]
      BY <1>1, <2>1, SMT DEF Device
    <2>3. PICK at \in Steps : StepTo(w, at) /\ at \in {"zero", "rZero", "failed", "remove"}
                              /\ (Resets(w) /\ at = "remove" => w.pf \in Ice /\ w.at = "rLegacy")
      BY <1>3, <1>6 DEF SetLegacy, ConfigStep, ResetStep, Ended
    <2>4. Claims(store'[w.pf]) \/ Unclaimed(w.pf)' \/ BeingConfigured(w.pf)'
      BY <2>1, <2>2, <2>3, StillAccounted DEF KeepApply
    <2>5. Resets(w) /\ at = "remove" => Unclaimed(w.pf)'
      BY <1>1, <2>2, <2>3 DEF TidyInv, Unclaimed
    <2> QED  BY <1>1, <2>1, <2>2, <2>3, <2>4, <2>5 DEF KeepApply, QuietMove
  <1>7. CASE SetNumVfsZero(w)
    <2>1. /\ KeepApply /\ w.at \in {"preZero", "zero", "rZero"} /\ ~w.iface.em
          /\ dev' = [dev EXCEPT ![w.pf].num = 0, ![w.pf].drv = "none"]
      BY <1>1, <1>7 DEF SetNumVfsZero, TidyInv
    <2>2. dev'[w.pf].num = 0 /\ \A p \in PF \ {w.pf} : dev'[p] = dev[p]
      BY <1>1, <2>1 DEF Device
    <2>3. PICK at \in Steps : StepTo(w, at) /\ at # "ok"
      BY <1>3, <1>7 DEF SetNumVfsZero, ConfigStep, ResetStep, Ended
    <2>4. Unclaimed(w.pf)'
      BY <2>2 DEF Unclaimed
    <2> QED  BY <1>1, <2>1, <2>2, <2>3, <2>4 DEF KeepApply, QuietMove
  <1>8. CASE SetSriovNumVfs(w)
    <2>1. /\ w.at = "num" /\ ~Resets(w) /\ ~w.iface.em /\ StepTo(w, NumSet(w))
          /\ dev' = [dev EXCEPT ![w.pf].num = w.iface.num, ![w.pf].drv = "netdevice"]
          /\ owner' = [owner EXCEPT ![w.pf] = "operator"]
          /\ UNCHANGED <<applyVars, store, spec, pending, stage, parallel>>
      BY <1>1, <1>2, <1>8 DEF SetSriovNumVfs, TidyInv, ResetStep, Ended
    <2>2. /\ \A p \in PF \ {w.pf} : dev'[p] = dev[p] /\ owner'[p] = owner[p]
          /\ NumSet(w) \in Steps
      BY <1>1, <1>3, <2>1 DEF Device, ConfigStep
    <2>3. want[w.pf] # NoInterface /\ ~want[w.pf].em /\ stage = "config"
      BY <1>2, <2>1 DEF Resets
    <2>4. CASE parallel
      <3>1. saving = w.pf \/ Claims(store[w.pf])
        BY <1>1, <1>2, <2>1, <2>4, InterfaceFacts DEF TidyInv, Claims
      <3> QED  BY <1>1, <2>1, <2>2, <2>3, <2>4, <3>1 DEF BeingConfigured, QuietMove
    <2>5. CASE ~parallel
      <3>1. Moved(w, NumSet(w)) \in workers' /\ Moved(w, NumSet(w)).pf = w.pf
            /\ Moved(w, NumSet(w)).at = NumSet(w)
        BY <2>1, <2>2, QuietMembers, SMT
      <3>2. NumSet(w) = "vfs" \/ (NumSet(w) = "mode" /\ w.pf \notin Ice)
        BY <1>3
      <3>3. BeingConfigured(w.pf)'
        BY <2>1, <2>3, <2>5, <3>1, <3>2 DEF BeingConfigured
      <3> QED  BY <1>1, <2>1, <2>2, <3>3 DEF QuietMove
    <2> QED  BY <2>4, <2>5
  <1>9. CASE SetNicSriovMode(w)
    <2>1. /\ KeepApply /\ w.at = "mode" /\ ~w.iface.em /\ ~Resets(w)
          /\ dev' = [dev EXCEPT ![w.pf].mode = w.iface.mode, ![w.pf].drv = "none"]
      BY <1>1, <1>2, <1>9 DEF SetNicSriovMode, TidyInv, ResetStep, Ended
    <2>2. dev'[w.pf].num = dev[w.pf].num /\ \A p \in PF \ {w.pf} : dev'[p] = dev[p]
      BY <1>1, <2>1, SMT DEF Device
    <2>3. PICK at \in Steps : StepTo(w, at) /\ (w.pf \in Ice \/ at = "vfs")
      BY <1>9 DEF SetNicSriovMode, ConfigStep
    <2>4. Claims(store'[w.pf]) \/ Unclaimed(w.pf)' \/ BeingConfigured(w.pf)'
      BY <2>1, <2>2, <2>3, StillAccounted DEF KeepApply
    <2> QED  BY <1>1, <2>1, <2>2, <2>3, <2>4 DEF KeepApply, QuietMove
  <1>10. CASE ConfigSriovVFDevices(w)
    <2>1. /\ KeepApply /\ w.at = "vfs" /\ ~Resets(w) /\ StepTo(w, "ok") /\ "ok" \in Steps
          /\ \E r : dev' = [dev EXCEPT ![w.pf].drv = r]
      BY <1>2, <1>10 DEF ConfigSriovVFDevices, ResetStep, Ended
    <2>2. dev'[w.pf].num = dev[w.pf].num /\ \A p \in PF \ {w.pf} : dev'[p] = dev[p]
      BY <1>1, <2>1, SMT DEF Device
    <2>4. Claims(store'[w.pf]) \/ Unclaimed(w.pf)' \/ BeingConfigured(w.pf)'
      BY <2>1, <2>2, StillAccounted DEF KeepApply
    <2> QED  BY <1>1, <2>1, <2>2, <2>4 DEF KeepApply, QuietMove
  <1>11. CASE LoadPfsStatus(w)
    <2>1. w.at = "load" /\ Resets(w) /\ UNCHANGED dev /\ KeepApply
      BY <1>2, <1>11 DEF LoadPfsStatus
    <2>2. ~BeingConfigured(w.pf) /\ (Claims(store[w.pf]) \/ Unclaimed(w.pf))
      BY <1>1, <1>2, <2>1 DEF BeingConfigured, LeakInv, VfsInv
    <2>3. want[w.pf] = NoInterface /\ stage = "reset"
      BY <2>1 DEF HostInv, WorkersInv, ResetterInv
    <2>4. Claims(store[w.pf]) /\ seen[w.pf].num = 0 => dev[w.pf].num = 0
      BY <1>1, <2>3 DEF LeakInv, SeenInv
    <2>5. PICK at \in Steps :
             /\ StepTo(w, at)
             /\ at = "remove" => Recorded(store[w.pf]) /\ (store[w.pf].em \/ seen[w.pf].num = 0)
             /\ at = "ok" => store[w.pf] = Absent
             /\ at = "rLegacy" => w.pf \notin Ice
      BY <1>1, <1>3, <1>11 DEF LoadPfsStatus, ResetStep, Ended
    <2>6. at = "remove" => Unclaimed(w.pf)
      BY <2>2, <2>4, <2>5 DEF Claims, Unclaimed
    <2>7. /\ at = "remove" => Unclaimed(w.pf)'
          /\ Claims(store'[w.pf]) \/ Unclaimed(w.pf)'
      BY <2>1, <2>2, <2>6 DEF KeepApply, Unclaimed
    <2> QED  BY <1>1, <1>2, <2>1, <2>5, <2>7 DEF KeepApply, QuietMove
  <1>12. CASE RemovePfAppliedStatus(w)
    <2>1. /\ w.at = "remove" /\ Resets(w) /\ StepTo(w, "ok") /\ "ok" \in Steps
          /\ store' = [store EXCEPT ![w.pf] = Absent]
          /\ UNCHANGED <<dev, owner, applyVars, spec, pending, stage, parallel>>
      BY <1>2, <1>12 DEF RemovePfAppliedStatus, Ended
    <2>2. Unclaimed(w.pf)' /\ store'[w.pf] = Absent /\ Absent # Torn
      BY <1>1, <2>1 DEF TidyInv, Unclaimed, Absent, Torn, NoInterface
    <2> QED  BY <1>1, <1>2, <2>1, <2>2 DEF QuietMove
  <1> QED  BY <1>4, <1>5, <1>6, <1>7, <1>8, <1>9, <1>10, <1>11, <1>12 DEF WorkerStep

LEMMA QuietWorkers ==
    ASSUME HostInv, LeakInv, NEW w \in workers,
           NEW at \in ConfigStep \cup ResetStep \cup Ended, QuietMove(w, at)
    PROVE  LeakInv'
  <1> USE DEF applyVars
  <1>1. /\ w.pf \in PF /\ \A v \in workers : v.pf \in PF /\ TidyInv(v)
        /\ workers' = (workers \ {w}) \cup {Moved(w, at)}
        /\ Moved(w, at).pf = w.pf /\ Moved(w, at).iface = w.iface
        /\ Moved(w, at).live /\ Moved(w, at).at = at
        /\ UNCHANGED <<applyVars, spec, pending, stage, parallel>>
    BY QuietMembers, SMT DEF HostInv, TypeOK, Worker, LeakInv, QuietMove
  <1>2. \A p \in PF \ {w.pf} : UNCHANGED <<dev[p], owner[p], store[p]>>
    BY DEF QuietMove
  <1>3. ASSUME NEW v \in workers, v # w
        PROVE  IF Resets(v) THEN v.pf # w.pf
                            ELSE parallel /\ store'[v.pf] = store[v.pf]
    <2>1. CASE Resets(v)
      BY <1>1, <1>3, <2>1 DEF HostInv, WorkersInv, ResetterInv, ConfigurerInv, TidyInv
    <2>2. CASE ~Resets(v)
      <3>1. parallel
        BY <1>1, <1>3, <2>2, SMT DEF TidyInv
      <3>2. ~Resets(w)
        BY <1>1, <2>2 DEF HostInv, WorkersInv, ResetterInv, ConfigurerInv, TidyInv
      <3> QED  BY <2>2, <3>1, <3>2 DEF QuietMove
    <2> QED  BY <2>1, <2>2
  <1>4. \A p \in PF : store'[p] # Torn
    BY <1>2 DEF LeakInv, QuietMove
  <1>5. VfsInv'
    <2> SUFFICES ASSUME NEW p \in PF
                 PROVE  Claims(store'[p]) \/ Unclaimed(p)' \/ BeingConfigured(p)'
      BY DEF VfsInv
    <2>1. CASE p = w.pf
      BY <2>1 DEF QuietMove
    <2>2. CASE p # w.pf
      <3>1. Claims(store[p]) \/ Unclaimed(p) => Claims(store'[p]) \/ Unclaimed(p)'
        BY <1>2, <2>2 DEF Unclaimed
      <3>2. BeingConfigured(p) => BeingConfigured(p)'
        BY <1>1, <2>2 DEF BeingConfigured
      <3> QED  BY <3>1, <3>2 DEF LeakInv, VfsInv
    <2> QED  BY <2>1, <2>2
  <1>6. SeenInv'
    <2> SUFFICES ASSUME stage # "idle", NEW p \in PF, want[p] = NoInterface, Claims(store'[p])
                 PROVE  dev'[p].num \in {seen[p].num, 0}
      BY <1>1 DEF SeenInv
    <2>1. CASE p = w.pf
      <3>1. Resets(w)
        BY <1>1, <2>1 DEF HostInv, WorkersInv, ConfigurerInv, Resets, TidyInv
      <3>2. Claims(store[p]) /\ dev'[p].num \in {dev[p].num, 0}
        BY <2>1, <3>1, NothingClaimed DEF QuietMove
      <3> QED  BY <3>2 DEF LeakInv, SeenInv
    <2>2. CASE p # w.pf
      BY <1>2, <2>2 DEF LeakInv, SeenInv
    <2> QED  BY <2>1, <2>2
  <1>7. ResetInv'
    <2>1. \A p \in PF : (\E v \in workers : Resets(v) /\ v.pf = p)
                        => \E v \in workers' : Resets(v)' /\ v.pf = p
      BY <1>1 DEF Resets
    <2> QED  BY <1>1, <2>1 DEF LeakInv, ResetInv
  <1>8. DoneInv'
    <2>1. stage # "idle"
      BY <1>1 DEF HostInv, WorkersInv, ResetterInv, ConfigurerInv, TidyInv
    <2> QED  BY <1>1, <2>1 DEF LeakInv, DoneInv
  <1>9. ASSUME NEW v \in workers, v # w PROVE TidyInv(v)'
    <2>1. CASE Resets(v)
      BY <1>1, <1>2, <1>3, <1>9, <2>1, ZenonT(60) DEF TidyInv, Resets, Unclaimed
    <2>2. CASE ~Resets(v)
      BY <1>1, <1>3, <1>9, <2>2 DEF TidyInv, Resets
    <2> QED  BY <2>1, <2>2
  <1>10. TidyInv(Moved(w, at))'
    <2>1. CASE Resets(w)
      BY <1>1, <2>1, ZenonT(60) DEF TidyInv, Resets, QuietMove, Unclaimed
    <2>2. CASE ~Resets(w)
      BY <1>1, <2>2, SMT DEF TidyInv, Resets, QuietMove
    <2> QED  BY <2>1, <2>2
  <1>11. \A v \in workers' : TidyInv(v)'
    BY <1>1, <1>9, <1>10
  <1> QED  BY <1>4, <1>5, <1>6, <1>7, <1>8, <1>11 DEF LeakInv

(* An apply that ends with an error while nothing failed ends because the  *)
(* spec cannot be met; no worker is left behind.                           *)
LEMMA QuietFailure ==
    ASSUME HostInv, LeakInv, ApplyFails, UNCHANGED <<hostVars, spec, pending, parallel>>,
           Running = {}, \A p \in PF : ~BeingConfigured(p), stage # "idle"
    PROVE  LeakInv'
  <1>1. workers' = {} /\ stage' = "idle"
    BY DEF ApplyFails, Running, LiveWorkers, LeakInv, TidyInv
  <1>2. VfsInv'
    BY DEF LeakInv, VfsInv, Unclaimed, hostVars
  <1>3. SeenInv' /\ ResetInv' /\ DoneInv'
    BY <1>1 DEF LeakInv, SeenInv, ResetInv, DoneInv
  <1> QED  BY <1>1, <1>2, <1>3 DEF LeakInv, hostVars

LEMMA QuietConfigFails ==
    ASSUME HostInv, LeakInv,
           \/ SomeFailed /\ (ConfigDone \/ ResetDone)
           \/ \E w \in workers : w.at = "failed" /\ ConfigReturns(w)
    PROVE  LeakInv'
  <1>1. \A w \in workers : w.live /\ (stage # "reset" => ~Resets(w))
    BY DEF HostInv, WorkersInv, ResetterInv, LeakInv, TidyInv
  <1>2. CASE SomeFailed /\ ConfigDone
    <2>1. /\ ApplyFails /\ UNCHANGED <<hostVars, spec, pending, parallel>>
          /\ Running = {} /\ parallel /\ saving = NoPF /\ stage = "config"
      BY <1>2 DEF ConfigDone, SomeFailed
    <2>2. \A p \in PF : ~BeingConfigured(p)
      BY <2>1, HostAssumption DEF BeingConfigured
    <2> QED  BY <2>1, <2>2, QuietFailure
  <1>3. CASE SomeFailed /\ ResetDone
    <2>1. /\ ApplyFails /\ UNCHANGED <<hostVars, spec, pending, parallel>>
          /\ Running = {} /\ stage = "reset"
      BY <1>3 DEF ResetDone, SomeFailed
    <2>2. \A p \in PF : ~BeingConfigured(p)
      BY <2>1 DEF BeingConfigured
    <2> QED  BY <2>1, <2>2, QuietFailure
  <1>4. ASSUME NEW w \in workers, w.at = "failed", ConfigReturns(w) PROVE LeakInv'
    <2>1. /\ ApplyFails /\ UNCHANGED <<hostVars, spec, pending, parallel>>
          /\ ~parallel /\ stage = "config"
      BY <1>4 DEF ConfigReturns
    <2>2. workers = {w} /\ saving = NoPF
      BY <1>1, <1>4, <2>1 DEF LeakInv, TidyInv
    <2>3. Running = {} /\ \A p \in PF : ~BeingConfigured(p)
      BY <1>4, <2>2, HostAssumption DEF Running, LiveWorkers, Ended, BeingConfigured
    <2> QED  BY <2>1, <2>3, QuietFailure
  <1> QED  BY <1>2, <1>3, <1>4

(* The steps of the apply itself.                                          *)
LEMMA QuietApply ==
    ASSUME HostInv, LeakInv, ApplyStep
    PROVE  LeakInv'
  <1> USE DEF hostVars, applyVars
  <1>0. /\ TypeOK /\ ApplyInv
        /\ \A w \in workers : w \in LiveWorkers /\ TidyInv(w) /\ w.pf \in PF
        /\ \A w \in workers : IF Resets(w) THEN stage = "reset" ELSE stage = "config" /\ want[w.pf] = w.iface
    BY DEF HostInv, TypeOK, Worker, WorkersInv, ResetterInv, ConfigurerInv, LiveWorkers, LeakInv, TidyInv
  <1>1. CASE OnNodeStateChange
    <2>1. /\ stage = "idle" /\ stage' = "scan" /\ seen' = dev /\ want' = spec /\ pending' = "taken"
          /\ UNCHANGED <<dev, owner, store, spec, workers>>
      BY <1>1 DEF OnNodeStateChange
    <2>2. workers' = {}
      BY <1>0, <2>1
    <2>3. VfsInv'
      BY <2>1 DEF LeakInv, VfsInv, Unclaimed, BeingConfigured
    <2>4. SeenInv' /\ ResetInv' /\ DoneInv'
      BY <2>1 DEF SeenInv, ResetInv, DoneInv
    <2> QED  BY <2>1, <2>2, <2>3, <2>4 DEF LeakInv
  <1>2. CASE GetConfigureAndReset
    <2>1. /\ Save(ToSkip, {}) /\ toReset' = {p \in PF : want[p] = NoInterface}
          /\ stage = "scan" /\ stage' = "config" /\ UNCHANGED <<dev, spec, pending, want, seen, workers>>
      BY <1>2 DEF GetConfigureAndReset
    <2>2. workers' = {}
      BY <1>0, <2>1
    <2>3. /\ \A p \in ToSkip : store'[p] = want[p] /\ owner'[p] = OwnerBy(want[p]) /\ want[p] \in Interface
          /\ \A p \in PF \ ToSkip : store'[p] = store[p] /\ owner'[p] = owner[p]
      BY <1>0, <2>1 DEF Save, ToSkip, TypeOK
    <2>4. \A p \in PF : store'[p] # Torn
      BY <2>3, InterfaceFacts DEF LeakInv, Recorded
    <2>5. VfsInv'
      <3> SUFFICES ASSUME NEW p \in PF PROVE Claims(store'[p]) \/ Unclaimed(p)'
        BY DEF VfsInv
      <3>1. CASE p \in ToSkip
        BY <2>3, <3>1, InterfaceFacts DEF OwnerBy, Claims, Unclaimed
      <3>2. CASE p \notin ToSkip
        BY <2>1, <2>3, <3>2 DEF LeakInv, VfsInv, Unclaimed, BeingConfigured
      <3> QED  BY <3>1, <3>2
    <2>6. SeenInv'
      BY <2>1, <2>3 DEF LeakInv, SeenInv, ToSkip
    <2>7. ResetInv' /\ DoneInv'
      BY <2>1 DEF LeakInv, ResetInv, DoneInv
    <2> QED  BY <2>2, <2>4, <2>5, <2>6, <2>7 DEF LeakInv
  <1>3. CASE SavePf
    <2>1. /\ Save({saving}, {}) /\ saving # NoPF /\ saving' = NoPF /\ saving \in PF
          /\ stage = "config" /\ want[saving] \in Interface
          /\ UNCHANGED <<dev, spec, pending, want, seen, toReset, stage, workers, parallel>>
      BY <1>0, <1>3 DEF SavePf, ApplyInv, TypeOK
    <2>2. /\ store'[saving] = want[saving] /\ owner'[saving] = OwnerBy(want[saving])
          /\ \A p \in PF \ {saving} : store'[p] = store[p] /\ owner'[p] = owner[p]
      BY <2>1 DEF Save
    <2>3. \A w \in workers : ~Resets(w) /\ parallel
      BY <1>0, <2>1 DEF TidyInv
    <2>4. \A p \in PF : store'[p] # Torn
      BY <2>2, <2>1, InterfaceFacts DEF LeakInv, Recorded
    <2>5. VfsInv'
      <3> SUFFICES ASSUME NEW p \in PF PROVE Claims(store'[p]) \/ Unclaimed(p)'
        BY DEF VfsInv
      <3>1. CASE p = saving
        BY <2>1, <2>2, <3>1, InterfaceFacts DEF OwnerBy, Claims, Unclaimed
      <3>2. CASE p # saving
        <4>1. ~BeingConfigured(p)
          BY <2>3, <3>2 DEF BeingConfigured
        <4> QED  BY <2>1, <2>2, <3>2, <4>1 DEF LeakInv, VfsInv, Unclaimed
      <3> QED  BY <3>1, <3>2
    <2>6. SeenInv'
      BY <2>1, <2>2, InterfaceFacts DEF LeakInv, SeenInv
    <2>7. ResetInv' /\ DoneInv'
      BY <2>1 DEF LeakInv, ResetInv, DoneInv
    <2>8. ASSUME NEW w \in workers PROVE TidyInv(w)'
      <3>1. ~Resets(w) /\ parallel /\ TidyInv(w) /\ want[w.pf] = w.iface /\ w.pf \in PF
        BY <1>0, <2>3
      <3>2. store'[w.pf] = w.iface
        BY <2>2, <3>1 DEF TidyInv
      <3> QED  BY <2>1, <3>1, <3>2 DEF TidyInv, Resets
    <2> QED  BY <2>1, <2>4, <2>5, <2>6, <2>7, <2>8 DEF LeakInv
  <1>4. ASSUME NEW p \in PF, StartConfig(p) PROVE LeakInv'
    <2>1. /\ stage = "config" /\ saving = NoPF
          /\ saving' = (IF parallel THEN p ELSE NoPF) /\ p \in toConfig
          /\ parallel \/ workers = {}
          /\ UNCHANGED <<dev, owner, store, spec, pending, want, seen, toReset, stage, parallel>>
      BY <1>0, <1>4 DEF StartConfig
    <2>2. PICK new : /\ workers' = workers \cup {new}
                     /\ new.pf = p /\ new.iface = want[p] /\ new.at = "start" /\ new.live
      <3> DEFINE started == [pf |-> p, iface |-> want[p], at |-> "start", live |-> TRUE]
      <3>1. workers' = workers \cup {started}
        BY <1>4 DEF StartConfig
      <3>2. started.pf = p /\ started.iface = want[p] /\ started.at = "start" /\ started.live
        OBVIOUS
      <3> HIDE DEF started
      <3> QED  BY <3>1, <3>2
    <2>3. ~Resets(new)
      BY <1>0, <2>1, <2>2 DEF Resets, ApplyInv
    <2>4. VfsInv'
      BY <2>1, HostAssumption DEF LeakInv, VfsInv, Unclaimed, BeingConfigured
    <2>5. SeenInv' /\ ResetInv' /\ DoneInv'
      BY <2>1 DEF LeakInv, SeenInv, ResetInv, DoneInv
    <2>6. TidyInv(new)'
      BY <2>1, <2>2, <2>3 DEF TidyInv, Resets
    <2>7. ASSUME NEW w \in workers PROVE TidyInv(w)'
      <3>1. ~Resets(w) /\ parallel /\ TidyInv(w) /\ w.pf # NoPF
        BY <1>0, <2>1, HostAssumption
      <3>2. store[w.pf] = w.iface
        BY <2>1, <3>1 DEF TidyInv
      <3> QED  BY <2>1, <3>1, <3>2 DEF TidyInv, Resets
    <2> QED  BY <2>1, <2>2, <2>4, <2>5, <2>6, <2>7 DEF LeakInv
  <1>5. ASSUME NEW p \in PF, StartReset(p) PROVE LeakInv'
    <2> DEFINE new == [pf |-> p, iface |-> NoInterface, at |-> "load", live |-> TRUE]
    <2>1. /\ workers' = workers \cup {new} /\ stage = "reset" /\ toReset' = toReset \ {p}
          /\ UNCHANGED <<dev, owner, store, spec, pending, want, seen, stage, parallel>>
      BY <1>5 DEF StartReset
    <2>2. new.pf = p /\ new.iface = NoInterface /\ new.at = "load" /\ new.live
      OBVIOUS
    <2>3. Resets(new) /\ ~NoInterface.em
      BY <2>2 DEF Resets, NoInterface
    <2> HIDE DEF new
    <2>4. VfsInv'
      BY <2>1 DEF LeakInv, VfsInv, Unclaimed, BeingConfigured
    <2>5. SeenInv' /\ DoneInv'
      BY <2>1 DEF LeakInv, SeenInv, DoneInv
    <2>6. ResetInv'
      BY <2>1, <2>2, <2>3 DEF LeakInv, ResetInv, Resets
    <2>7. TidyInv(new)'
      BY <2>2, <2>3 DEF TidyInv, Resets
    <2>8. ASSUME NEW w \in workers PROVE TidyInv(w)'
      <3>1. Resets(w) /\ TidyInv(w)
        BY <1>0, <2>1
      <3> QED  BY <2>1, <3>1 DEF TidyInv, Resets, Unclaimed
    <2> QED  BY <2>1, <2>4, <2>5, <2>6, <2>7, <2>8 DEF LeakInv
  <1>6. ASSUME NEW w \in workers, Finishes(w) PROVE LeakInv'
    <2>1. /\ workers' = workers \ {w} /\ saving' = w.pf /\ stage = "config" /\ ~parallel
          /\ UNCHANGED <<dev, owner, store, spec, pending, want, seen, toReset, stage, parallel>>
      BY <1>6 DEF Finishes, ConfigReturns
    <2>2. workers = {w}
      BY <1>0, <2>1 DEF TidyInv
    <2>3. VfsInv'
      <3>1. saving = NoPF
        BY <1>0, <2>1 DEF TidyInv
      <3>2. \A p \in PF : BeingConfigured(p) => BeingConfigured(p)'
        BY <2>1, <2>2, <3>1, HostAssumption DEF BeingConfigured
      <3> QED  BY <2>1, <3>2 DEF LeakInv, VfsInv, Unclaimed
    <2>4. SeenInv' /\ ResetInv' /\ DoneInv'
      BY <2>1 DEF LeakInv, SeenInv, ResetInv, DoneInv
    <2> QED  BY <2>1, <2>2, <2>3, <2>4 DEF LeakInv
  <1>7. CASE ConfigDone /\ ~SomeFailed
    <2>1. /\ stage = "config" /\ stage' = "reset" /\ saving = NoPF /\ workers' = workers \ LiveWorkers
          /\ LiveWorkers # {} => parallel
          /\ UNCHANGED <<dev, owner, store, spec, pending, want, seen, toReset, parallel>>
      BY <1>7 DEF ConfigDone, SomeFailed
    <2>2. workers' = {} /\ (workers # {} => parallel)
      BY <1>0, <2>1
    <2>3. VfsInv'
      BY <2>1, <2>2, HostAssumption DEF LeakInv, VfsInv, Unclaimed, BeingConfigured
    <2>4. SeenInv' /\ ResetInv' /\ DoneInv'
      BY <2>1 DEF LeakInv, SeenInv, ResetInv, DoneInv
    <2> QED  BY <2>1, <2>2, <2>3, <2>4 DEF LeakInv
  <1>8. CASE ResetDone /\ ~SomeFailed
    <2>1. /\ stage = "reset" /\ stage' = "idle" /\ workers' = workers \ LiveWorkers
          /\ Running = {} /\ toReset = {} /\ pending' = (IF pending = "taken" THEN "no" ELSE pending)
          /\ UNCHANGED <<dev, owner, store, spec, want, parallel>>
      BY <1>8 DEF ResetDone, SomeFailed
    <2>2. workers' = {}
      BY <1>0, <2>1
    <2>3. VfsInv'
      BY <2>1 DEF LeakInv, VfsInv, Unclaimed, BeingConfigured
    <2>4. \A w \in workers : w.at = "ok"
      BY <1>0, <1>8, <2>1 DEF Running, SomeFailed, Ended
    <2>5. \A p \in PF : want[p] = NoInterface => store[p] = Absent
      BY <1>0, <2>1, <2>4, SMT DEF LeakInv, ResetInv, TidyInv
    <2>6. SeenInv' /\ ResetInv' /\ DoneInv'
      BY <2>1, <2>5 DEF LeakInv, SeenInv, ResetInv, DoneInv
    <2> QED  BY <2>1, <2>2, <2>3, <2>6 DEF LeakInv
  <1>9. CASE (ConfigDone \/ ResetDone) /\ SomeFailed
    BY <1>9, QuietConfigFails
  <1>10. ASSUME NEW w \in workers, ConfigReturns(w) PROVE LeakInv'
    BY <1>6, <1>10, QuietConfigFails DEF ConfigReturns, Finishes
  <1> QED  BY <1>1, <1>2, <1>3, <1>4, <1>5, <1>7, <1>8, <1>9, <1>10 DEF ApplyStep

(* A new spec, or somebody else's VFs on a PF left to them.                *)
LEMMA QuietOutside ==
    ASSUME HostInv, LeakInv, NEW p \in PF, Asks(p) \/ Outside(p)
    PROVE  LeakInv'
  <1> USE DEF hostVars, applyVars
  <1>1. CASE Asks(p)
    <2>1. /\ pending' = "yes"
          /\ UNCHANGED <<dev, owner, store, saving, want, seen, toReset, stage, workers, parallel>>
      BY <1>1 DEF Asks, NewSpec
    <2>2. VfsInv'
      BY <2>1 DEF LeakInv, VfsInv, Unclaimed, BeingConfigured
    <2>3. SeenInv' /\ ResetInv' /\ DoneInv'
      BY <2>1 DEF LeakInv, SeenInv, ResetInv, DoneInv, Resets
    <2>4. \A w \in workers' : TidyInv(w)'
      BY <2>1 DEF LeakInv, TidyInv, Resets, Unclaimed
    <2> QED  BY <2>1, <2>2, <2>3, <2>4 DEF LeakInv
  <1>2. CASE Outside(p)
    <2>1. /\ owner' = [owner EXCEPT ![p] = "outside"] /\ ~Claims(store[p])
          /\ \E n : dev' = [dev EXCEPT ![p].num = n, ![p].drv = "netdevice"]
          /\ UNCHANGED <<store, saving, want, seen, toReset, spec, pending, stage, workers, parallel>>
      BY <1>2 DEF Outside, OutsideSets, LeftAlone, Claims
    <2>2. /\ \A q \in PF \ {p} : dev'[q] = dev[q] /\ owner'[q] = owner[q]
          /\ owner'[p] = "outside"
      BY <2>1 DEF HostInv, TypeOK
    <2>3. VfsInv'
      BY <2>1, <2>2, ZenonT(60) DEF LeakInv, VfsInv, Unclaimed, BeingConfigured
    <2>4. SeenInv'
      BY <2>1, <2>2 DEF LeakInv, SeenInv
    <2>5. ResetInv' /\ DoneInv'
      BY <2>1 DEF LeakInv, ResetInv, DoneInv, Resets
    <2>6. ASSUME NEW w \in workers PROVE TidyInv(w)'
      <3>1. /\ TidyInv(w) /\ w.pf \in PF
            /\ Resets(w) /\ w.at = "rLegacy" => w.pf # p
        BY <2>1 DEF LeakInv, HostInv, TypeOK, Worker, WorkersInv, ResetterInv
      <3> QED  BY <2>1, <2>2, <3>1 DEF TidyInv, Resets, Unclaimed
    <2> QED  BY <2>1, <2>3, <2>4, <2>5, <2>6 DEF LeakInv
  <1> QED  BY <1>1, <1>2

LEMMA FaultsCounted ==
    ASSUME TypeOK, [Next]_vars, used'.faults = 0
    PROVE  /\ used.faults = 0
           /\ \/ ApplyStep \/ \E w \in workers : WorkerStep(w)
              \/ \E p \in PF : Asks(p) \/ Outside(p)
              \/ UNCHANGED vars
  <1>0. used \in Budget
    BY DEF TypeOK
  <1>1. CASE ApplyStep
    BY <1>1 DEF ApplyStep, OnNodeStateChange, GetConfigureAndReset, SavePf, ConfigDone, ResetDone,
                StartConfig, StartReset, ConfigReturns
  <1>2. ASSUME NEW w \in workers, WorkerStep(w) PROVE UNCHANGED used
    BY <1>2 DEF WorkerStep, ConfigSriovPFDevice, ConfigureHWOptionsForSwitchdev, SetLegacy,
                SetNumVfsZero, SetSriovNumVfs, SetNicSriovMode, ConfigSriovVFDevices,
                LoadPfsStatus, RemovePfAppliedStatus, KeepApply
  <1>3. ~Fault
    BY <1>0, FaultType
  <1>4. ~((\E w \in workers : WorkerFails(w)) \/ SkipSaveFails \/ SavePfFails
          \/ LoadUdevRulesFails \/ \E reboot \in BOOLEAN : Restart(reboot))
    BY <1>3 DEF WorkerFails, SkipSaveFails, SavePfFails, LoadUdevRulesFails, Restart
  <1>5. ASSUME NEW p \in PF, NEW i \in Interface \cup {NoInterface}, NewSpec(p, i)
        PROVE  used.faults = 0 /\ Asks(p)
    BY <1>0, <1>5, SpecType DEF NewSpec, Asks
  <1>6. ASSUME NEW p \in PF, NEW n \in {i.num : i \in Interface}, OutsideSets(p, n)
        PROVE  used.faults = 0 /\ Outside(p)
    BY <1>0, <1>6, SpecType DEF OutsideSets, Outside
  <1>7. CASE UNCHANGED vars
    BY <1>7 DEF vars
  <1> QED  BY <1>1, <1>2, <1>4, <1>5, <1>6, <1>7 DEF Next

LEMMA LeakStep == HostInv /\ NoFaultInv /\ [Next]_vars => NoFaultInv'
  <1> SUFFICES ASSUME HostInv, NoFaultInv, [Next]_vars, used'.faults = 0
               PROVE  LeakInv'
    BY DEF NoFaultInv
  <1>1. LeakInv /\ TypeOK
    BY FaultsCounted DEF HostInv, NoFaultInv
  <1>2. ASSUME NEW w \in workers, WorkerStep(w) PROVE LeakInv'
    BY <1>1, <1>2, QuietMoves, QuietWorkers
  <1>3. CASE UNCHANGED vars
    BY <1>1, <1>3 DEF vars, hostVars, applyVars, LeakInv, VfsInv, Unclaimed, BeingConfigured, SeenInv,
                      ResetInv, DoneInv, TidyInv, Resets
  <1> QED  BY <1>1, <1>2, <1>3, FaultsCounted, QuietApply, QuietOutside

(* While no call failed and nothing restarted, an apply that succeeded     *)
(* leaves no VFs of the operator on a PF that the NodeState does not name, *)
(* in sequence and in parallel, through specs that cannot be met and PFs   *)
(* managed outside.                                                        *)
THEOREM NothingLeaks == Spec => []NoLeakWithoutFaults
  <1>1. Init => NoFaultInv
    BY NothingClaimed, SMT DEF Init, NoFaultInv, LeakInv, VfsInv, Unclaimed, SeenInv, ResetInv, DoneInv,
                          Absent, Torn, NoInterface
  <1>2. HostInv /\ NoFaultInv => NoLeakWithoutFaults
    <2> SUFFICES ASSUME HostInv, LeakInv, Quiet, NEW p \in PF, spec[p] = NoInterface, owner[p] = "operator"
                 PROVE  dev[p].num = 0
      BY DEF NoFaultInv, NoLeakWithoutFaults, NoLeakedVfs
    <2>1. store[p] = Absent /\ stage = "idle"
      BY DEF LeakInv, DoneInv, Quiet
    <2> QED  BY <2>1, NothingClaimed DEF LeakInv, VfsInv, Unclaimed, BeingConfigured
  <1> QED  BY <1>1, <1>2, LeakStep, HostSafety, PTL DEF Spec
=============================================================================
