------------------------------ MODULE NodeProof -------------------------------
(* What a node keeps through failures, kills, power losses and changes of   *)
(* its spec, for any bridges, NICs, specs and bounds: the configuration the *)
(* systemd mode reports, the OVS bridges, the arguments of the kernel, the  *)
(* firmware of the Mellanox NICs, and a device plugin that waits.           *)
EXTENDS NodeParts, FiniteSetTheorems, TLAPS

(* Most leaves are first-order: Zenon proves them, SMT those that cite it.  *)
USE Zenon

-----------------------------------------------------------------------------
(* The systemd mode: what the daemon reports as succeeded is configured.    *)
SpecOf == [gen : Nat, val : Value]
Results == {"none", "", "InProgress", "Succeeded", "Failed"}
Steps == {"init", "idle", "progress", "create", "write", "remove", "nics", "drain",
          "plugins", "main", "publish"}

SystemdTypes ==
    /\ spec \in SpecOf /\ dSpec \in SpecOf
    /\ systemd \in BOOLEAN /\ stale \in BOOLEAN
    /\ dDrain \in BOOLEAN /\ dReboot \in BOOLEAN /\ newFile \in BOOLEAN
    /\ units \in [Unit -> {"absent", "old", "current"}]
    /\ conf \in Value \cup {NoFile, EmptyFile}
    /\ result \in Results /\ dResult \in Results
    /\ boot \in {"pre", "post", "up"} /\ spc \in {"start", "apply"} /\ dpc \in Steps

(* A boot: the daemon waits for it, the post service is not installed       *)
(* without the pre service, and one that configures has read its file and   *)
(* follows a pre service that succeeded.                                    *)
BootInv ==
    /\ boot # "up" => dpc = "init" /\ ~newFile
    /\ Enabled("post") => Enabled("pre")
    /\ boot # "up" /\ spc = "apply" => conf # EmptyFile
    /\ boot = "post" /\ spc = "apply" => Enabled("post") /\ result = "InProgress"
    /\ boot = "pre" /\ spc = "apply" => result = "none"

(* The result file: a verdict of success, unless a fault kept it from being *)
(* removed, stems from units that are installed, does not outlive the pre   *)
(* service of the next boot and is about the config file, but for the       *)
(* moment between the write of the file and the removal of the result.      *)
ResultInv ==
    result = "Succeeded" /\ ~stale =>
        /\ Enabled("pre") /\ boot # "post"
        /\ boot = "up" =>
              /\ systemd \/ dpc = "init"
              /\ conf \in Value /\ dpc # "remove" => host = conf
              /\ conf = NoFile \/ newFile => host = 0

(* The daemon's copy of the verdict is the one in the file, and its spec    *)
(* the one the services configured, unless it is going to reboot.           *)
CopyInv ==
    /\ dResult = "Succeeded" /\ dpc \in {"progress", "create", "write"} => result = "Succeeded"
    /\ dResult = "Succeeded" /\ dpc = "nics" =>
          dDrain \/ (result = "Succeeded" /\ conf = dSpec.val)
    /\ dResult = "Succeeded" /\ systemd /\ dpc \in {"drain", "plugins", "main", "publish"} =>
          dReboot \/ (result = "Succeeded" /\ conf = dSpec.val)
    /\ dpc = "publish" => ~dReboot /\ (~systemd => host = dSpec.val)

SystemdInv == SystemdTypes /\ BootInv /\ ResultInv /\ CopyInv
-----------------------------------------------------------------------------
(* A missing or an empty config file is no value, no spec is a spec.       *)
LEMMA Markers ==
    /\ 0 \in Value /\ NoFile \notin Value /\ EmptyFile \notin Value /\ NoFile # EmptyFile
    /\ NoSpec \in SpecOf
  BY SystemdAssumption, SMT DEF NoFile, EmptyFile, NoSpec, SpecOf

(* A new node: no units, no files, no VFs.                                  *)
LEMMA InitSystemd == SystemdInit => SystemdInv
<1> SUFFICES ASSUME SystemdInit PROVE SystemdInv
  OBVIOUS
<1> USE Markers DEF SystemdInit
<1>1. SystemdTypes
  BY DEF SystemdTypes, SpecOf, Results, Steps, Unit, NoSpec
<1>2. BootInv
  BY DEF BootInv, Enabled, Unit
<1>3. ResultInv
  BY DEF ResultInv
<1>4. CopyInv
  BY DEF CopyInv
<1> QED
  BY <1>1, <1>2, <1>3, <1>4 DEF SystemdInv

(* The steps of the services keep the invariant.                            *)
LEMMA ServiceKeeps ==
    ASSUME SystemdInv,
           \/ NoUnit
           \/ NewServiceConfig
           \/ InitSupportedNics
           \/ PhasePre
           \/ PhasePost
           \/ CallPlugin
           \/ ServiceFails
    PROVE  SystemdInv'
<1> USE Markers DEF SystemdInv, files, local, daemon
<1>1. CASE NoUnit
  <2>1. SystemdTypes'
    BY <1>1 DEF NoUnit, NextPhase, ServiceRest, SystemdTypes
  <2>2. BootInv'
    BY <1>1 DEF NoUnit, NextPhase, ServiceRest, SystemdTypes, BootInv, ResultInv, Results, Unit,
       Enabled
  <2>3. ResultInv'
    BY <1>1 DEF NoUnit, NextPhase, ServiceRest, SystemdTypes, BootInv, ResultInv, CopyInv,
       Results, Unit, Enabled, SpecOf
  <2>4. CopyInv'
    BY <1>1 DEF NoUnit, NextPhase, ServiceRest, SystemdTypes, BootInv, ResultInv, CopyInv,
       Results, SpecOf
  <2> QED
    BY <2>1, <2>2, <2>3, <2>4
<1>2. CASE NewServiceConfig
  <2>1. SystemdTypes'
    BY <1>2 DEF NewServiceConfig, ServiceStarts, NextPhase, ServiceRest, SystemdTypes
  <2>2. BootInv'
    BY <1>2 DEF NewServiceConfig, ServiceStarts, NextPhase, ServiceRest, SystemdTypes, BootInv,
       ResultInv, Results, Unit, Enabled
  <2>3. ResultInv'
    BY <1>2 DEF NewServiceConfig, ServiceStarts, NextPhase, ServiceRest, SystemdTypes, BootInv,
       ResultInv, CopyInv, Results, Unit, Enabled, SpecOf
  <2>4. CopyInv'
    BY <1>2 DEF NewServiceConfig, ServiceStarts, NextPhase, ServiceRest, SystemdTypes, BootInv,
       ResultInv, CopyInv, Results, SpecOf
  <2> QED
    BY <2>1, <2>2, <2>3, <2>4
<1>3. CASE InitSupportedNics
  <2>1. SystemdTypes'
    BY <1>3, ZenonT(60) DEF InitSupportedNics, ServiceStarts, NextPhase, ServiceRest, SystemdTypes, Results
  <2>2. BootInv'
    BY <1>3 DEF InitSupportedNics, ServiceStarts, NextPhase, ServiceRest, SystemdTypes, BootInv,
       ResultInv, Results, Unit, Enabled
  <2>3. ResultInv'
    BY <1>3 DEF InitSupportedNics, ServiceStarts, NextPhase, ServiceRest, SystemdTypes, BootInv,
       ResultInv, CopyInv, Results, Unit, Enabled, SpecOf
  <2>4. CopyInv'
    BY <1>3 DEF InitSupportedNics, ServiceStarts, NextPhase, ServiceRest, SystemdTypes, BootInv,
       ResultInv, CopyInv, Results, SpecOf
  <2> QED
    BY <2>1, <2>2, <2>3, <2>4
<1>4. CASE PhasePre
  <2>1. SystemdTypes'
    BY <1>4 DEF PhasePre, ServiceStarts, NextPhase, ServiceRest, SystemdTypes, Results
  <2>2. BootInv'
    BY <1>4 DEF PhasePre, ServiceStarts, NextPhase, ServiceRest, SystemdTypes, BootInv,
       ResultInv, Results, Unit, Enabled
  <2>3. ResultInv'
    BY <1>4 DEF PhasePre, ServiceStarts, NextPhase, ServiceRest, SystemdTypes, BootInv,
       ResultInv, CopyInv, Results, Unit, Enabled, SpecOf
  <2>4. CopyInv'
    BY <1>4 DEF PhasePre, ServiceStarts, NextPhase, ServiceRest, SystemdTypes, BootInv,
       ResultInv, CopyInv, Results, SpecOf
  <2> QED
    BY <2>1, <2>2, <2>3, <2>4
<1>5. CASE PhasePost
  <2>1. SystemdTypes'
    BY <1>5, ZenonT(60) DEF PhasePost, PrePhaseOk, ServiceStarts, NextPhase, ServiceRest,
       SystemdTypes, Results
  <2>2. BootInv'
    BY <1>5 DEF PhasePost, PrePhaseOk, ServiceStarts, NextPhase, ServiceRest,
       SystemdTypes, BootInv, ResultInv, Results, Unit, Enabled
  <2>3. ResultInv'
    BY <1>5 DEF PhasePost, PrePhaseOk, ServiceStarts, NextPhase, ServiceRest,
       SystemdTypes, BootInv, ResultInv, CopyInv, Results, Unit, Enabled, SpecOf
  <2>4. CopyInv'
    BY <1>5 DEF PhasePost, PrePhaseOk, ServiceStarts, NextPhase, ServiceRest,
       SystemdTypes, BootInv, ResultInv, CopyInv, Results, SpecOf
  <2> QED
    BY <2>1, <2>2, <2>3, <2>4
<1>6. CASE CallPlugin
  <2>1. SystemdTypes'
    BY <1>6, ZenonT(60) DEF CallPlugin, NextPhase, ServiceRest, SystemdTypes, Results
  <2>2. BootInv'
    BY <1>6 DEF CallPlugin, NextPhase, ServiceRest, SystemdTypes, BootInv, ResultInv, Results,
       Unit, Enabled
  <2>3. ResultInv'
    BY <1>6 DEF CallPlugin, NextPhase, ServiceRest, SystemdTypes, BootInv, ResultInv, CopyInv,
       Results, Unit, Enabled, SpecOf
  <2>4. CopyInv'
    BY <1>6 DEF CallPlugin, NextPhase, ServiceRest, SystemdTypes, BootInv, ResultInv, CopyInv,
       Results, SpecOf
  <2> QED
    BY <2>1, <2>2, <2>3, <2>4
<1>7. CASE ServiceFails
  <2>1. SystemdTypes'
    <3>1. result' \in Results
      BY <1>7 DEF ServiceFails, SystemdTypes, Results
    <3>2. stale' \in BOOLEAN /\ spc' = "start" /\ boot' \in {"pre", "post", "up"}
      BY <1>7 DEF ServiceFails, NextPhase, SystemdTypes
    <3> QED
      BY <1>7, <3>1, <3>2 DEF ServiceFails, ServiceRest, SystemdTypes
  <2>2. BootInv'
    BY <1>7 DEF ServiceFails, Fault, ServiceStarts, NextPhase, ServiceRest, SystemdTypes,
       BootInv, ResultInv, Results, Unit, Enabled
  <2>3. ResultInv'
    BY <1>7 DEF ServiceFails, Fault, ServiceStarts, NextPhase, ServiceRest, SystemdTypes,
       BootInv, ResultInv, CopyInv, Results, Unit, Enabled, SpecOf
  <2>4. CopyInv'
    BY <1>7 DEF ServiceFails, Fault, ServiceStarts, NextPhase, ServiceRest, SystemdTypes,
       BootInv, ResultInv, CopyInv, Results, SpecOf
  <2> QED
    BY <2>1, <2>2, <2>3, <2>4
<1> QED
  BY <1>1, <1>2, <1>3, <1>4, <1>5, <1>6, <1>7

(* So do the steps of the daemon up to the drain.                           *)
LEMMA ReconcileKeeps ==
    ASSUME SystemdInv,
           \/ CleanSriovFilesFromHost
           \/ CleanFails
           \/ Reconcile
           \/ StatusCheckFails
           \/ CheckOnNodeStateChange
           \/ CreateConfFile
           \/ WriteConfFile
           \/ RemoveSriovResult
           \/ WriteSriovSupportedNics
    PROVE  SystemdInv'
<1> USE Markers DEF SystemdInv, files, local, daemon
<1>1. CASE CleanSriovFilesFromHost
  <2>1. SystemdTypes'
    BY <1>1, ZenonT(60) DEF CleanSriovFilesFromHost, At, DaemonRest, SystemdTypes, Results, Steps
  <2>2. BootInv'
    BY <1>1 DEF CleanSriovFilesFromHost, At, DaemonRest, SystemdTypes, BootInv, ResultInv,
       Results, Unit, Enabled
  <2>3. ResultInv'
    BY <1>1 DEF CleanSriovFilesFromHost, At, DaemonRest, SystemdTypes, BootInv, ResultInv,
       CopyInv, Results, Unit, Enabled, SpecOf
  <2>4. CopyInv'
    BY <1>1 DEF CleanSriovFilesFromHost, At, DaemonRest, SystemdTypes, BootInv, ResultInv,
       CopyInv, Results, SpecOf
  <2> QED
    BY <2>1, <2>2, <2>3, <2>4
<1>2. CASE CleanFails
  <2>1. SystemdTypes'
    BY <1>2, ZenonT(60) DEF CleanFails, Fault, At, DaemonRest, SystemdTypes, Results, Steps
  <2>2. BootInv'
    BY <1>2 DEF CleanFails, Fault, At, DaemonRest, SystemdTypes, BootInv, ResultInv, Results,
       Unit, Enabled
  <2>3. ResultInv'
    BY <1>2 DEF CleanFails, Fault, At, DaemonRest, SystemdTypes, BootInv, ResultInv, CopyInv,
       Results, Unit, Enabled, SpecOf
  <2>4. CopyInv'
    BY <1>2 DEF CleanFails, Fault, At, DaemonRest, SystemdTypes, BootInv, ResultInv, CopyInv,
       Results, SpecOf
  <2> QED
    BY <2>1, <2>2, <2>3, <2>4
<1>3. CASE Reconcile
  <2>1. SystemdTypes'
    <3>1. dSpec' \in SpecOf /\ dpc' \in Steps
      BY <1>3 DEF Reconcile, SystemdTypes, Steps
    <3>2. dResult' \in Results
      BY <1>3 DEF Reconcile, CheckSystemdStatus, SystemdTypes, Results
    <3> QED
      BY <1>3, <3>1, <3>2 DEF Reconcile, DaemonRest, SystemdTypes
  <2>2. BootInv'
    BY <1>3 DEF Reconcile, CheckSystemdStatus, At, DaemonRest, SystemdTypes, BootInv, ResultInv,
       Results, Unit, Enabled
  <2>3. ResultInv'
    BY <1>3 DEF Reconcile, CheckSystemdStatus, At, DaemonRest, SystemdTypes, BootInv, ResultInv,
       CopyInv, Results, Unit, Enabled, SpecOf
  <2>4. CopyInv'
    BY <1>3, ZenonT(60) DEF Reconcile, CheckSystemdStatus, At, DaemonRest, SystemdTypes, BootInv, ResultInv,
       CopyInv, Results, SpecOf
  <2> QED
    BY <2>1, <2>2, <2>3, <2>4
<1>4. CASE StatusCheckFails
  <2>1. SystemdTypes'
    BY <1>4 DEF StatusCheckFails, Fault, At, DaemonRest, SystemdTypes
  <2>2. BootInv'
    BY <1>4 DEF StatusCheckFails, Fault, At, DaemonRest, SystemdTypes, BootInv, ResultInv,
       Results, Unit, Enabled
  <2>3. ResultInv'
    BY <1>4 DEF StatusCheckFails, Fault, At, DaemonRest, SystemdTypes, BootInv, ResultInv,
       CopyInv, Results, Unit, Enabled, SpecOf
  <2>4. CopyInv'
    BY <1>4 DEF StatusCheckFails, Fault, At, DaemonRest, SystemdTypes, BootInv, ResultInv,
       CopyInv, Results, SpecOf
  <2> QED
    BY <2>1, <2>2, <2>3, <2>4
<1>5. CASE CheckOnNodeStateChange
  <2>1. SystemdTypes'
    <3>1. dSpec' \in SpecOf /\ dpc' \in Steps /\ dResult' \in Results
      BY <1>5 DEF CheckOnNodeStateChange, Forget, SystemdTypes, Steps, Results
    <3>2. dReboot' \in BOOLEAN /\ dDrain' \in BOOLEAN /\ newFile' \in BOOLEAN
      BY <1>5 DEF CheckOnNodeStateChange, Forget, SystemdTypes
    <3> QED
      BY <1>5, <3>1, <3>2 DEF CheckOnNodeStateChange, DaemonRest, SystemdTypes
  <2>2. BootInv'
    BY <1>5 DEF CheckOnNodeStateChange, Forget, SriovServicesStateUpdate, OvsServiceStateUpdate,
       At, DaemonRest, SystemdTypes, BootInv, ResultInv, Results, Unit, Enabled
  <2>3. ResultInv'
    BY <1>5 DEF CheckOnNodeStateChange, Forget, SriovServicesStateUpdate, OvsServiceStateUpdate,
       At, DaemonRest, SystemdTypes, BootInv, ResultInv, CopyInv, Results, Unit, Enabled, SpecOf
  <2>4. CopyInv'
    BY <1>5 DEF CheckOnNodeStateChange, Forget, SriovServicesStateUpdate, OvsServiceStateUpdate,
       At, DaemonRest, SystemdTypes, BootInv, ResultInv, CopyInv, Results, SpecOf
  <2> QED
    BY <2>1, <2>2, <2>3, <2>4
<1>6. CASE CreateConfFile
  <2>1. SystemdTypes'
    BY <1>6, ZenonT(60) DEF CreateConfFile, At, DaemonRest, SystemdTypes, Results, Steps
  <2>2. BootInv'
    BY <1>6 DEF CreateConfFile, At, DaemonRest, SystemdTypes, BootInv, ResultInv, Results, Unit,
       Enabled
  <2>3. ResultInv'
    BY <1>6 DEF CreateConfFile, At, DaemonRest, SystemdTypes, BootInv, ResultInv, CopyInv,
       Results, Unit, Enabled, SpecOf
  <2>4. CopyInv'
    BY <1>6 DEF CreateConfFile, At, DaemonRest, SystemdTypes, BootInv, ResultInv, CopyInv,
       Results, SpecOf
  <2> QED
    BY <2>1, <2>2, <2>3, <2>4
<1>7. CASE WriteConfFile
  <2>1. SystemdTypes'
    BY <1>7 DEF WriteConfFile, At, DaemonRest, SystemdTypes, Steps, SpecOf
  <2>2. BootInv'
    BY <1>7 DEF WriteConfFile, At, DaemonRest, SystemdTypes, BootInv, ResultInv, Results, Unit,
       Enabled
  <2>3. ResultInv'
    <3>1. CASE conf = dSpec.val
      BY <1>7, <3>1 DEF WriteConfFile, At, DaemonRest, ResultInv, SystemdTypes, SpecOf, Enabled
    <3>2. CASE conf # dSpec.val /\ newFile /\ dSpec.val = 0
      BY <1>7, <3>2 DEF WriteConfFile, At, DaemonRest, ResultInv, Enabled
    <3>3. CASE conf # dSpec.val /\ ~(newFile /\ dSpec.val = 0)
      BY <1>7, <3>3 DEF WriteConfFile, At, DaemonRest, ResultInv, SystemdTypes, SpecOf, Enabled
    <3> QED
      BY <3>1, <3>2, <3>3
  <2>4. CopyInv'
    BY <1>7 DEF WriteConfFile, At, DaemonRest, SystemdTypes, BootInv, ResultInv, CopyInv,
       Results, SpecOf
  <2> QED
    BY <2>1, <2>2, <2>3, <2>4
<1>8. CASE RemoveSriovResult
  <2>1. SystemdTypes'
    BY <1>8 DEF RemoveSriovResult, At, DaemonRest, SystemdTypes, Results, Steps
  <2>2. BootInv'
    BY <1>8 DEF RemoveSriovResult, At, DaemonRest, SystemdTypes, BootInv, ResultInv, Results,
       Unit, Enabled
  <2>3. ResultInv'
    BY <1>8 DEF RemoveSriovResult, At, DaemonRest, SystemdTypes, BootInv, ResultInv, CopyInv,
       Results, Unit, Enabled, SpecOf
  <2>4. CopyInv'
    BY <1>8 DEF RemoveSriovResult, At, DaemonRest, SystemdTypes, BootInv, ResultInv, CopyInv,
       Results, SpecOf
  <2> QED
    BY <2>1, <2>2, <2>3, <2>4
<1>9. CASE WriteSriovSupportedNics
  <2>1. SystemdTypes'
    BY <1>9, ZenonT(60) DEF WriteSriovSupportedNics, At, DaemonRest, SystemdTypes, Results, Steps
  <2>2. BootInv'
    BY <1>9 DEF WriteSriovSupportedNics, At, DaemonRest, SystemdTypes, BootInv, ResultInv,
       Results, Unit, Enabled
  <2>3. ResultInv'
    BY <1>9 DEF WriteSriovSupportedNics, At, DaemonRest, SystemdTypes, BootInv, ResultInv,
       CopyInv, Results, Unit, Enabled, SpecOf
  <2>4. CopyInv'
    BY <1>9 DEF WriteSriovSupportedNics, At, DaemonRest, SystemdTypes, BootInv, ResultInv,
       CopyInv, Results, SpecOf
  <2> QED
    BY <2>1, <2>2, <2>3, <2>4
<1> QED
  BY <1>1, <1>2, <1>3, <1>4, <1>5, <1>6, <1>7, <1>8, <1>9

(* So do the drain and apply.                                               *)
LEMMA ApplyKeeps ==
    ASSUME SystemdInv,
           \/ HandleDrain
           \/ DrainCompletes
           \/ K8sApply
           \/ ApplyMain
           \/ RebootLimitReached
           \/ RebootNode
           \/ Publish
    PROVE  SystemdInv'
<1> USE Markers DEF SystemdInv, files, local, daemon
<1>1. CASE HandleDrain
  <2>1. SystemdTypes'
    <3>1. dSpec' \in SpecOf /\ dpc' \in Steps /\ dResult' \in Results
      BY <1>1 DEF HandleDrain, Forget, SystemdTypes, Steps, Results
    <3>2. dReboot' \in BOOLEAN /\ dDrain' \in BOOLEAN /\ newFile' \in BOOLEAN
      BY <1>1 DEF HandleDrain, Forget, SystemdTypes
    <3> QED
      BY <1>1, <3>1, <3>2 DEF HandleDrain, DaemonRest, SystemdTypes
  <2>2. BootInv'
    BY <1>1 DEF HandleDrain, Forget, At, DaemonRest, SystemdTypes, BootInv, ResultInv, Results,
       Unit, Enabled
  <2>3. ResultInv'
    BY <1>1 DEF HandleDrain, Forget, At, DaemonRest, SystemdTypes, BootInv, ResultInv, CopyInv,
       Results, Unit, Enabled, SpecOf
  <2>4. CopyInv'
    BY <1>1, ZenonT(60) DEF HandleDrain, Forget, At, DaemonRest, SystemdTypes, BootInv, ResultInv, CopyInv,
       Results, SpecOf
  <2> QED
    BY <2>1, <2>2, <2>3, <2>4
<1>2. CASE DrainCompletes
  <2>1. SystemdTypes'
    BY <1>2 DEF DrainCompletes, SystemdTypes
  <2>2. BootInv'
    BY <1>2 DEF DrainCompletes, SystemdTypes, BootInv, ResultInv, Results, Unit, Enabled
  <2>3. ResultInv'
    BY <1>2 DEF DrainCompletes, SystemdTypes, BootInv, ResultInv, CopyInv, Results, Unit,
       Enabled, SpecOf
  <2>4. CopyInv'
    BY <1>2 DEF DrainCompletes, SystemdTypes, BootInv, ResultInv, CopyInv, Results, SpecOf
  <2> QED
    BY <2>1, <2>2, <2>3, <2>4
<1>3. CASE K8sApply
  <2>1. SystemdTypes'
    BY <1>3 DEF K8sApply, At, DaemonRest, SystemdTypes, Steps
  <2>2. BootInv'
    BY <1>3 DEF K8sApply, At, DaemonRest, SystemdTypes, BootInv, ResultInv, Results, Unit,
       Enabled
  <2>3. ResultInv'
    BY <1>3 DEF K8sApply, At, DaemonRest, SystemdTypes, BootInv, ResultInv, CopyInv, Results,
       Unit, Enabled, SpecOf
  <2>4. CopyInv'
    BY <1>3, ZenonT(60) DEF K8sApply, At, DaemonRest, SystemdTypes, BootInv, ResultInv, CopyInv, Results,
       SpecOf
  <2> QED
    BY <2>1, <2>2, <2>3, <2>4
<1>4. CASE ApplyMain
  <2>1. SystemdTypes'
    BY <1>4, ZenonT(60) DEF ApplyMain, At, DaemonRest, SystemdTypes, Steps
  <2>2. BootInv'
    BY <1>4 DEF ApplyMain, At, DaemonRest, SystemdTypes, BootInv, ResultInv, Results, Unit,
       Enabled
  <2>3. ResultInv'
    BY <1>4 DEF ApplyMain, At, DaemonRest, SystemdTypes, BootInv, ResultInv, CopyInv, Results,
       Unit, Enabled, SpecOf
  <2>4. CopyInv'
    BY <1>4 DEF ApplyMain, At, DaemonRest, SystemdTypes, BootInv, ResultInv, CopyInv, Results,
       SpecOf
  <2> QED
    BY <2>1, <2>2, <2>3, <2>4
<1>5. CASE RebootLimitReached
  <2>1. SystemdTypes'
    BY <1>5 DEF RebootLimitReached, Forget, At, DaemonRest, SystemdTypes, Results, Steps
  <2>2. BootInv'
    BY <1>5 DEF RebootLimitReached, Forget, At, DaemonRest, SystemdTypes, BootInv, ResultInv,
       Results, Unit, Enabled
  <2>3. ResultInv'
    BY <1>5, ZenonT(60) DEF RebootLimitReached, Forget, At, DaemonRest, SystemdTypes, BootInv, ResultInv,
       CopyInv, Results, Unit, Enabled, SpecOf
  <2>4. CopyInv'
    BY <1>5, ZenonT(60) DEF RebootLimitReached, Forget, At, DaemonRest, SystemdTypes, BootInv, ResultInv,
       CopyInv, Results, SpecOf
  <2> QED
    BY <2>1, <2>2, <2>3, <2>4
<1>6. CASE RebootNode
  <2>1. SystemdTypes'
    BY <1>6 DEF RebootNode, RebootIf, Reboot, Restart, At, DaemonRest, SystemdTypes, Results,
       Steps
  <2>2. BootInv'
    BY <1>6, ZenonT(60) DEF RebootNode, RebootIf, Reboot, Restart, At, DaemonRest, SystemdTypes, BootInv,
       ResultInv, Results, Unit, Enabled
  <2>3. ResultInv'
    BY <1>6, ZenonT(60) DEF RebootNode, RebootIf, Reboot, Restart, At, DaemonRest, SystemdTypes, BootInv,
       ResultInv, CopyInv, Results, Unit, Enabled, SpecOf
  <2>4. CopyInv'
    BY <1>6, ZenonT(60) DEF RebootNode, RebootIf, Reboot, Restart, At, DaemonRest, SystemdTypes, BootInv,
       ResultInv, CopyInv, Results, SpecOf
  <2> QED
    BY <2>1, <2>2, <2>3, <2>4
<1>7. CASE Publish
  <2>1. SystemdTypes'
    BY <1>7, ZenonT(60) DEF Publish, Forget, At, DaemonRest, SystemdTypes, Results, Steps
  <2>2. BootInv'
    BY <1>7, ZenonT(60) DEF Publish, Forget, At, DaemonRest, SystemdTypes, BootInv, ResultInv, Results,
       Unit, Enabled
  <2>3. ResultInv'
    BY <1>7, ZenonT(60) DEF Publish, Forget, At, DaemonRest, SystemdTypes, BootInv, ResultInv, CopyInv,
       Results, Unit, Enabled, SpecOf
  <2>4. CopyInv'
    BY <1>7 DEF Publish, Forget, At, DaemonRest, SystemdTypes, BootInv, ResultInv, CopyInv,
       Results, SpecOf
  <2> QED
    BY <2>1, <2>2, <2>3, <2>4
<1> QED
  BY <1>1, <1>2, <1>3, <1>4, <1>5, <1>6, <1>7

(* So do faults, also half done, and changes of spec, version and mode.     *)
LEMMA FaultKeeps ==
    ASSUME SystemdInv,
           \/ DaemonFails
           \/ PowerLoss
           \/ ChangeSpec
           \/ Upgrade
           \/ SwitchMode
    PROVE  SystemdInv'
<1> USE Markers DEF SystemdInv, files, local, daemon
<1>1. CASE DaemonFails
  <2>1. SystemdTypes'
    <3>1. dSpec' \in SpecOf /\ dpc' \in Steps /\ dResult' \in Results
      BY <1>1 DEF DaemonFails, Restart, Forget, Steps, Results
    <3>2. UNCHANGED <<spec, systemd, result, boot, spc>>
      BY <1>1 DEF DaemonFails, Restart, Forget
    <3>3. conf' \in Value \cup {NoFile, EmptyFile} /\ stale' \in BOOLEAN
      BY <1>1 DEF DaemonFails, HalfDone, Spared, SystemdTypes
    <3>4. units' \in [Unit -> {"absent", "old", "current"}]
      BY <1>1 DEF DaemonFails, HalfDone, SystemdTypes
    <3>5. dReboot' = FALSE /\ dDrain' = FALSE /\ newFile' = FALSE
      BY <1>1 DEF DaemonFails, Restart, Forget
    <3> QED
      BY <3>1, <3>2, <3>3, <3>4, <3>5, ZenonT(60) DEF SystemdTypes
  <2>2. BootInv'
    BY <1>1, ZenonT(60) DEF DaemonFails, Fault, HalfDone, Spared, At, Restart, Forget, SystemdTypes,
       BootInv, ResultInv, Results, Unit, Enabled
  <2>3. ResultInv'
    BY <1>1, ZenonT(60) DEF DaemonFails, Fault, HalfDone, Spared, At, Restart, Forget, SystemdTypes,
       BootInv, ResultInv, CopyInv, Results, Unit, Enabled, SpecOf
  <2>4. CopyInv'
    BY <1>1, ZenonT(60) DEF DaemonFails, Fault, HalfDone, Spared, At, Restart, Forget, SystemdTypes,
       BootInv, ResultInv, CopyInv, Results, SpecOf
  <2> QED
    BY <2>1, <2>2, <2>3, <2>4
<1>2. CASE PowerLoss
  <2>1. SystemdTypes'
    BY <1>2, ZenonT(60) DEF PowerLoss, Fault, HalfDone, Spared, At, Reboot, Restart, SystemdTypes, Results,
       Steps
  <2>2. BootInv'
    BY <1>2, ZenonT(60) DEF PowerLoss, Fault, HalfDone, Spared, At, Reboot, Restart, SystemdTypes, BootInv,
       ResultInv, Results, Unit, Enabled
  <2>3. ResultInv'
    BY <1>2, ZenonT(60) DEF PowerLoss, Fault, HalfDone, Spared, At, Reboot, Restart, SystemdTypes, BootInv,
       ResultInv, CopyInv, Results, Unit, Enabled, SpecOf
  <2>4. CopyInv'
    BY <1>2, ZenonT(60) DEF PowerLoss, Fault, HalfDone, Spared, At, Reboot, Restart, SystemdTypes, BootInv,
       ResultInv, CopyInv, Results, SpecOf
  <2> QED
    BY <2>1, <2>2, <2>3, <2>4
<1>3. CASE ChangeSpec
  <2>1. SystemdTypes'
    <3>1. PICK v \in Value : spec' = [gen |-> spec.gen + 1, val |-> v]
      BY <1>3 DEF ChangeSpec
    <3>2. spec.gen + 1 \in Nat
      BY SMT DEF SystemdTypes, SpecOf
    <3>3. spec' \in SpecOf
      BY <3>1, <3>2 DEF SpecOf
    <3> QED  BY <1>3, <3>3 DEF ChangeSpec, SystemdTypes, files, local
  <2>2. BootInv'
    BY <1>3, ZenonT(60) DEF ChangeSpec, Change, SystemdTypes, BootInv, ResultInv, Results, Unit, Enabled
  <2>3. ResultInv'
    BY <1>3, ZenonT(60) DEF ChangeSpec, Change, SystemdTypes, BootInv, ResultInv, CopyInv, Results, Unit,
       Enabled, SpecOf
  <2>4. CopyInv'
    BY <1>3, ZenonT(60) DEF ChangeSpec, Change, SystemdTypes, BootInv, ResultInv, CopyInv, Results, SpecOf
  <2> QED
    BY <2>1, <2>2, <2>3, <2>4
<1>4. CASE Upgrade
  <2>1. SystemdTypes'
    BY <1>4, ZenonT(60) DEF Upgrade, Change, Restart, Spared, At, SystemdTypes, Results, Steps, Unit,
       Enabled
  <2>2. BootInv'
    BY <1>4, ZenonT(60) DEF Upgrade, Change, Restart, Spared, At, SystemdTypes, BootInv, ResultInv, Results,
       Unit, Enabled
  <2>3. ResultInv'
    BY <1>4, ZenonT(60) DEF Upgrade, Change, Restart, Spared, At, SystemdTypes, BootInv, ResultInv, CopyInv,
       Results, Unit, Enabled, SpecOf
  <2>4. CopyInv'
    BY <1>4, ZenonT(60) DEF Upgrade, Change, Restart, Spared, At, SystemdTypes, BootInv, ResultInv, CopyInv,
       Results, SpecOf
  <2> QED
    BY <2>1, <2>2, <2>3, <2>4
<1>5. CASE SwitchMode
  <2>1. SystemdTypes'
    BY <1>5, ZenonT(60) DEF SwitchMode, Change, Restart, Spared, At, SystemdTypes, Results, Steps
  <2>2. BootInv'
    BY <1>5, ZenonT(60) DEF SwitchMode, Change, Restart, Spared, At, SystemdTypes, BootInv, ResultInv,
       Results, Unit, Enabled
  <2>3. ResultInv'
    BY <1>5, ZenonT(60) DEF SwitchMode, Change, Restart, Spared, At, SystemdTypes, BootInv, ResultInv,
       CopyInv, Results, Unit, Enabled, SpecOf
  <2>4. CopyInv'
    BY <1>5 DEF SwitchMode, Change, Restart, Spared, At, SystemdTypes, BootInv, ResultInv,
       CopyInv, Results, SpecOf
  <2> QED
    BY <2>1, <2>2, <2>3, <2>4
<1> QED
  BY <1>1, <1>2, <1>3, <1>4, <1>5

(* Every step does.                                                         *)
LEMMA NextSystemd == SystemdInv /\ [SystemdNext]_sVars => SystemdInv'
<1> SUFFICES ASSUME SystemdInv, [SystemdNext]_sVars PROVE SystemdInv'
  OBVIOUS
<1>1. CASE SystemdNext
  BY <1>1, ServiceKeeps, ReconcileKeeps, ApplyKeeps, FaultKeeps DEF SystemdNext, ServiceStep, DaemonStep
<1>2. CASE UNCHANGED sVars
  <2>1. UNCHANGED sVars
    BY <1>2
  <2>2. SystemdTypes'
    BY <2>1, ZenonT(60) DEF sVars, files, local, daemon, SystemdInv, SystemdTypes
  <2>3. BootInv'
    BY <2>1 DEF sVars, files, local, daemon, SystemdInv, BootInv, Enabled
  <2>4. ResultInv'
    BY <2>1 DEF sVars, files, local, daemon, SystemdInv, ResultInv, Enabled
  <2>5. CopyInv'
    BY <2>1 DEF sVars, files, local, daemon, SystemdInv, CopyInv
  <2> QED  BY <2>2, <2>3, <2>4, <2>5 DEF SystemdInv
<1> QED
  BY <1>1, <1>2

(* The daemon publishes "Succeeded" for a generation only when the host has *)
(* its configuration, unless a fault kept an old result from being removed. *)
THEOREM SuccessIsReal == SystemdSpec => SucceededMeansConfigured
<1>1. SystemdInv => (Publish /\ status'.st = "Succeeded" => stale \/ host = dSpec.val)
  <2> SUFFICES ASSUME SystemdInv, Publish, status'.st = "Succeeded", ~stale PROVE host = dSpec.val
    BY DEF SystemdInv, SystemdTypes
  <2>1. dpc = "publish" /\ boot = "up" /\ ~dReboot /\ dSpec.val \in Value
    BY DEF Publish, At, SystemdInv, CopyInv, SystemdTypes, SpecOf
  <2>2. CASE systemd
    <3>1. dResult = "Succeeded"
      BY <2>2 DEF Publish
    <3> QED
      BY <2>1, <2>2, <3>1 DEF SystemdInv, CopyInv, ResultInv, SystemdTypes
  <2>3. CASE ~systemd
    BY <2>1, <2>3 DEF SystemdInv, CopyInv
  <2> QED
    BY <2>2, <2>3
<1> QED
  BY <1>1, InitSystemd, NextSystemd, PTL DEF SystemdSpec, SucceededMeansConfigured

-----------------------------------------------------------------------------
(* OVS bridges: those the operator made are never forgotten, and no PF is   *)
(* reconfigured under a bridge.                                             *)
(* Steps of CreateOVSBridge after the configuration is in the store.        *)
Creating == {"query", "uplink", "delete", "row", "internal", "attach"}

BridgeTypes ==
    /\ want \in [Bridge -> Config] /\ wanted \in [Bridge -> Config]
    /\ file \in [Bridge -> Config] /\ cache \in [Bridge -> Config]
    /\ row \in [Bridge -> [by : {"none", "op", "user"}, key : BOOLEAN, internal : BOOLEAN]]
    /\ up \in [Bridge -> {"none", "own", "other"}]
    /\ todo \subseteq Bridge /\ cur \subseteq Bridge

(* The store in memory is the one on disk while a reconcile works with it.  *)
StoreRead ==
    /\ loaded \in BOOLEAN /\ (pc # "idle" => loaded)
    /\ loaded => cache = file

(* What the locals of a reconcile say about store and OVSDB: the loops only *)
(* name bridges they are to name, a bridge under creation is stored, one    *)
(* whose entry is about to go is gone, and a PF that is reconfigured is on  *)
(* no bridge of the operator.                                               *)
LoopInv ==
    /\ pc \in {"idle", "detach", "create"} => cur = {}
    /\ pc = "remove" => cur \subseteq todo
    /\ pc = "create" \/ pc \in Creating => \A b \in todo : wanted[b] # "none"
    /\ pc \in Creating => \A b \in cur : file[b] # "none"
    /\ pc = "remove" => \A b \in cur : row[b].by # "op"
    /\ pc = "device" => \A b \in cur : row[b].by = "op" => up[b] # "own" /\ b \notin reps

BridgeInv == BridgeTypes /\ StoreRead /\ LoopInv /\ ManagedIsStored
-----------------------------------------------------------------------------
(* The daemon starts with an empty store and no bridges.                    *)
LEMMA InitBridges == OvsInit => BridgeInv
<1> SUFFICES ASSUME OvsInit PROVE BridgeInv
  OBVIOUS
<1>1. want \in [Bridge -> Config] /\ file = want /\ cache = want /\ wanted = want
  BY DEF OvsInit, Config
<1>2. /\ row \in [Bridge -> [by : {"none", "op", "user"}, key : BOOLEAN, internal : BOOLEAN]]
      /\ \A b \in Bridge : row[b].by = "none"
  BY DEF OvsInit, NoRow
<1>3. up \in [Bridge -> {"none", "own", "other"}] /\ todo = {} /\ cur = {} /\ pc = "idle" /\ loaded = FALSE
  BY DEF OvsInit
<1> QED
  BY <1>1, <1>2, <1>3 DEF BridgeInv, BridgeTypes, StoreRead, LoopInv, ManagedIsStored, Creating

(* The steps between the loops keep the invariant.                          *)
LEMMA LoopStep ==
    ASSUME BridgeInv,
           \/ Discover
           \/ ReconfigureDevice
           \/ ConfigureBridges
           \/ RemovedAll
           \/ CreatedAll
    PROVE  BridgeInv'
<1> USE DEF BridgeInv, BridgeTypes, StoreRead, LoopInv, ManagedIsStored, Config, Creating,
            locals, store, ovsdb
<1>1. CASE Discover
  BY <1>1 DEF Discover, Stored, Rest
<1>2. CASE ReconfigureDevice
  BY <1>2 DEF ReconfigureDevice, Rest
<1>3. CASE ConfigureBridges
  BY <1>3 DEF ConfigureBridges, Rest
<1>4. CASE RemovedAll
  BY <1>4 DEF RemovedAll, Rest
<1>5. CASE CreatedAll
  BY <1>5 DEF CreatedAll, Rest
<1> QED
  BY <1>1, <1>2, <1>3, <1>4, <1>5

(* So do the steps of the daemon at one bridge.                             *)
LEMMA BridgeStep ==
    ASSUME BridgeInv, NEW b \in Bridge,
           \/ DetachUplink(b)
           \/ NothingToDetach(b)
           \/ DeleteBridge(b)
           \/ RemoveManagedOVSBridge(b)
           \/ NotManaged(b)
           \/ AddManagedOVSBridge(b)
           \/ QueryBridge(b)
           \/ DeleteUplink(b)
           \/ DeleteOldBridge(b)
           \/ CreateBridge(b)
           \/ EnsureInternalInterface(b)
           \/ AddInterface(b)
           \/ Conflict(b)
    PROVE  BridgeInv'
<1> USE DEF BridgeInv, BridgeTypes, StoreRead, LoopInv, ManagedIsStored, Config, Creating,
            locals, store, ovsdb
<1>1. CASE DetachUplink(b)
  BY <1>1, SMTT(30) DEF DetachUplink, Exists, Rest
<1>2. CASE NothingToDetach(b)
  BY <1>2, SMTT(30) DEF NothingToDetach, Exists, WriteStoreFile, Rest
<1>3. CASE DeleteBridge(b)
  BY <1>3, SMTT(30) DEF DeleteBridge, DeleteRow, NoRow, Rest
<1>4. CASE RemoveManagedOVSBridge(b)
  BY <1>4, ZenonT(60) DEF RemoveManagedOVSBridge, WriteStoreFile, Rest
<1>5. CASE NotManaged(b)
  BY <1>5 DEF NotManaged, Rest
<1>6. CASE AddManagedOVSBridge(b)
  BY <1>6, SMT DEF AddManagedOVSBridge, WriteStoreFile, Rest
<1>7. CASE QueryBridge(b)
  BY <1>7 DEF QueryBridge, Created, Rest
<1>8. CASE DeleteUplink(b)
  BY <1>8 DEF DeleteUplink, Rest
<1>9. CASE DeleteOldBridge(b)
  BY <1>9 DEF DeleteOldBridge, DeleteRow, NoRow, Rest
<1>10. CASE CreateBridge(b)
  BY <1>10 DEF CreateBridge, Keyed, Rest
<1>11. CASE EnsureInternalInterface(b)
  BY <1>11, ZenonT(60) DEF EnsureInternalInterface, Rest
<1>12. CASE AddInterface(b)
  BY <1>12 DEF AddInterface, Created, Rest
<1>13. CASE Conflict(b)
  BY <1>13 DEF Conflict, Abort, Rest
<1> QED
  BY <1>1, <1>2, <1>3, <1>4, <1>5, <1>6, <1>7, <1>8, <1>9, <1>10, <1>11, <1>12, <1>13, ZenonT(30)

(* So do failed calls and the end of the process.                          *)
LEMMA FailureStep ==
    ASSUME BridgeInv,
           \/ CallFails
           \/ Crash
    PROVE  BridgeInv'
<1> USE DEF BridgeInv, BridgeTypes, StoreRead, LoopInv, ManagedIsStored, Config, Creating,
            locals, store, ovsdb
<1>1. CASE CallFails
  BY <1>1 DEF CallFails, Abort, Failure
<1>2. CASE Crash
  BY <1>2 DEF Crash, Abort, Failure
<1> QED
  BY <1>1, <1>2

(* So do failed writes, uplinks in error, and what users, the CNI and       *)
(* policies change.                                                         *)
LEMMA EnvironmentStep ==
    ASSUME BridgeInv, NEW b \in Bridge,
           \/ WriteFails(b)
           \/ UplinkInError(b)
           \/ ChangeSpecOf(b)
           \/ ChangeVfs(b)
           \/ UserWritesRow(b)
           \/ UserMovesUplink(b)
           \/ AttachRepresentor(b)
           \/ UplinkBreaks(b)
    PROVE  BridgeInv'
<1> USE DEF BridgeInv, BridgeTypes, StoreRead, LoopInv, ManagedIsStored, Config, Creating,
            locals, store, ovsdb
<1>1. CASE WriteFails(b)
  BY <1>1 DEF WriteFails, Abort, Failure
<1>2. CASE UplinkInError(b)
  BY <1>2, ZenonT(60) DEF UplinkInError, Abort, Failure
<1>3. CASE ChangeSpecOf(b)
  BY <1>3, SMTT(30) DEF ChangeSpecOf
<1>4. CASE ChangeVfs(b)
  BY <1>4 DEF ChangeVfs
<1>5. CASE UserWritesRow(b)
  <2>1. CASE DeleteRow(b)
    BY <1>5, <2>1, ZenonT(30) DEF UserWritesRow, DeleteRow, NoRow
  <2>2. CASE ~DeleteRow(b)
    <3>1. PICK k \in BOOLEAN : row' = [row EXCEPT ![b] = [by |-> "user", key |-> k, internal |-> TRUE]]
      BY <1>5, <2>2 DEF UserWritesRow
    <3>2. UNCHANGED <<want, wanted, file, cache, loaded, up, reps, todo, cur, pc>>
      BY <1>5, <2>2 DEF UserWritesRow
    <3>3. /\ row' \in [Bridge -> [by : {"none", "op", "user"}, key : BOOLEAN, internal : BOOLEAN]]
          /\ \A c \in Bridge : row'[c].by = "op" => row[c].by = "op"
      BY <3>1, ZenonT(60)
    <3> QED
      BY <3>2, <3>3
  <2> QED
    BY <2>1, <2>2
<1>6. CASE UserMovesUplink(b)
  BY <1>6, SMTT(30) DEF UserMovesUplink
<1>7. CASE AttachRepresentor(b)
  BY <1>7 DEF AttachRepresentor
<1>8. CASE UplinkBreaks(b)
  BY <1>8 DEF UplinkBreaks
<1> QED
  BY <1>1, <1>2, <1>3, <1>4, <1>5, <1>6, <1>7, <1>8

(* Every step does.                                                         *)
LEMMA NextBridges == BridgeInv /\ [OvsNext]_oVars => BridgeInv'
<1> SUFFICES ASSUME BridgeInv, [OvsNext]_oVars PROVE BridgeInv'
  OBVIOUS
<1>1. CASE OvsStep
  BY <1>1, LoopStep, BridgeStep DEF OvsStep
<1>2. CASE OvsNext /\ ~OvsStep
  BY <1>2, FailureStep, EnvironmentStep DEF OvsNext
<1>3. CASE UNCHANGED oVars
  BY <1>3 DEF oVars, BridgeInv, BridgeTypes, StoreRead, LoopInv, ManagedIsStored, Creating,
              locals, store, ovsdb
<1> QED
  BY <1>1, <1>2, <1>3

(* A bridge the operator made is in the store as long as it exists, so that *)
(* RemoveOVSBridge will find it, whatever crashed between the two.          *)
THEOREM BridgesRemembered == OvsSpec => []ManagedIsStored
<1>1. BridgeInv => ManagedIsStored
  BY DEF BridgeInv
<1> QED
  BY <1>1, InitBridges, NextBridges, PTL DEF OvsSpec

(* The VFs of a PF are only changed while neither its uplink nor its        *)
(* representors are on a bridge the operator made.                          *)
THEOREM DetachedFirst == OvsSpec => DetachedBeforeReconfigure
<1>1. BridgeInv => (ReconfigureDevice =>
          \A b \in cur : row[b].by = "op" => up[b] # "own" /\ b \notin reps)
  BY DEF BridgeInv, LoopInv, ReconfigureDevice
<1> QED
  BY <1>1, InitBridges, NextBridges, PTL DEF OvsSpec, DetachedBeforeReconfigure

-----------------------------------------------------------------------------
(* Kernel arguments. The arguments of the kind that stays are wanted by the *)
(* daemon while the kernel runs with them, so that they stay in the boot    *)
(* loader; and a round that asks for no reboot has compared all of them.    *)
KargsInv ==
    /\ krun \cap Kept \subseteq desired /\ krun \cap Kept \subseteq kboot
    /\ vfioLoaded => VfioArgs \subseteq krun
    /\ kpc # "idle" /\ kcur.spec.vfio => vfioLoaded \/ VfioArgs \subseteq desired
    /\ kpc \in {"sync", "apply"} /\ ~kreboot =>
          \A k \in Karg \ ktodo : k \in desired <=> k \in krun
    /\ kpc = "apply" => ktodo = {}

LEMMA VfioArgsKept == VfioArgs \subseteq Kept /\ Kept \subseteq Karg /\ Kept \cap RdmaArgs = {}
  BY DEF VfioArgs, Kept, Karg, RdmaArgs

LEMMA KargsRestart ==
    ASSUME KargsInv, NEW running, running \in {krun, kboot}, NewGenericPlugin(running),
           krun' = running, UNCHANGED <<kboot, cpu>>
    PROVE  KargsInv' /\ krun \cap Kept \subseteq krun'
  <1>1. /\ desired' = running \cap Kept /\ ~vfioLoaded' /\ kpc' = "idle"
    BY DEF NewGenericPlugin, InitialKargs
  <1>2. krun' \cap Kept \subseteq kboot' /\ krun \cap Kept \subseteq krun'
    BY DEF KargsInv
  <1> QED  BY <1>1, <1>2 DEF KargsInv

(* A round of syncDesiredKernelArgs.                                        *)
LEMMA KargsRound ==
    ASSUME KargsInv, NEW k \in Karg, SyncRound(k), kboot' \in {kboot, Edited(k)}
    PROVE  KargsInv' /\ krun' = krun
  <1>1. /\ kpc = "sync" /\ (kreboot' <=> kreboot \/ NeedReboot(k)) /\ ktodo' = ktodo \ {k}
        /\ kpc' \in {"sync", "apply"} /\ (kpc' = "apply" => ktodo' = {})
        /\ UNCHANGED <<krun, desired, vfioLoaded, kcur, cpu>>
    BY DEF SyncRound
  <1>2. VfioArgs' = VfioArgs
    BY <1>1 DEF VfioArgs
  <1>3. krun \cap Kept \subseteq kboot'
    BY DEF KargsInv, Edited
  <1>4. ~kreboot' => \A j \in Karg \ ktodo' : j \in desired <=> j \in krun
    BY <1>1 DEF KargsInv, NeedReboot
  <1> QED  BY <1>1, <1>2, <1>3, <1>4 DEF KargsInv

LEMMA KargsKeeps ==
    ASSUME KargsInv, KargsNext
    PROVE  KargsInv' /\ krun \cap Kept \subseteq krun'
  <1>1. CASE OnNodeStateChange
    <2>1. /\ desired' = ((desired \cup AddVfioDesiredKernelArg(kspec)) \ RdmaArgs) \cup RdmaArg(kspec)
          /\ kcur' = [spec |-> kspec, gen |-> kgen] /\ kpc' = "rdma"
          /\ UNCHANGED <<krun, kboot, vfioLoaded, cpu>>
      BY <1>1 DEF OnNodeStateChange, kNode
    <2>2. VfioArgs' = VfioArgs
      BY <2>1 DEF VfioArgs
    <2>3. krun \cap Kept \subseteq desired'
      BY <2>1, VfioArgsKept DEF KargsInv
    <2>4. kcur'.spec.vfio => vfioLoaded' \/ VfioArgs \subseteq desired'
      BY <2>1, VfioArgsKept DEF AddVfioDesiredKernelArg
    <2> QED  BY <2>1, <2>2, <2>3, <2>4 DEF KargsInv
  <1>2. CASE SetRDMASubsystem
    <2>1. /\ kpc = "rdma" /\ kpc' = "sync" /\ ktodo' = Karg
          /\ UNCHANGED <<krun, kboot, desired, vfioLoaded, kcur, cpu>>
      BY <1>2 DEF SetRDMASubsystem
    <2> QED  BY <2>1 DEF KargsInv, VfioArgs
  <1>3. ASSUME NEW k \in Karg, SyncDesiredKernelArg(k) \/ EditFails(k)
        PROVE  KargsInv' /\ krun' = krun
    <2>1. SyncRound(k) /\ kboot' \in {kboot, Edited(k)}
      BY <1>3 DEF SyncDesiredKernelArg, EditFails
    <2> QED  BY <2>1, KargsRound
  <1>4. CASE ApplyReboot \/ KPowerLoss
    <2>1. NewGenericPlugin(kboot) /\ krun' = kboot /\ UNCHANGED <<kboot, cpu>>
      BY <1>4 DEF ApplyReboot, KPowerLoss, Boot
    <2> QED  BY <2>1, KargsRestart
  <1>5. CASE KDaemonEnds
    <2>1. NewGenericPlugin(krun) /\ krun' = krun /\ UNCHANGED <<kboot, cpu>>
      BY <1>5 DEF KDaemonEnds
    <2> QED  BY <2>1, KargsRestart
  <1>6. CASE RebootsUsedUp \/ KCallFails
    <2>1. kpc' = "idle" /\ UNCHANGED <<krun, kboot, desired, vfioLoaded, cpu>>
      BY <1>6 DEF RebootsUsedUp, KCallFails, kNode
    <2> QED  BY <2>1 DEF KargsInv, VfioArgs
  <1>7. CASE ApplyNow
    <2>1. /\ kpc = "apply" /\ ~kreboot /\ kpc' = "idle" /\ desired \subseteq desired'
          /\ (vfioLoaded' <=> vfioLoaded \/ kcur.spec.vfio) /\ UNCHANGED <<krun, kboot, cpu>>
      BY <1>7 DEF ApplyNow
    <2>2. VfioArgs' = VfioArgs
      BY <2>1 DEF VfioArgs
    <2>3. vfioLoaded' => VfioArgs \subseteq krun
      BY <2>1, VfioArgsKept DEF KargsInv
    <2> QED  BY <2>1, <2>2, <2>3 DEF KargsInv
  <1>8. CASE KNewSpec
    <2>1. UNCHANGED <<krun, kboot, cpu, desired, vfioLoaded, kpc, kcur, ktodo, kreboot>>
      BY <1>8 DEF KNewSpec, kNode
    <2> QED  BY <2>1 DEF KargsInv, VfioArgs
  <1> QED  BY <1>1, <1>2, <1>3, <1>4, <1>5, <1>6, <1>7, <1>8 DEF KargsNext, KargsStep

(* An argument of the kind that stays, once the kernel runs with it, is     *)
(* there after every boot, whoever set it; and vfio-pci is loaded only into *)
(* a kernel that runs with its arguments, as the plugin applies a spec only *)
(* when syncDesiredKernelArgs asked for no reboot.                          *)
THEOREM ArgumentsKept == KargsSpec => ConfiguredArgsKept
  <1>1. KargsInit => KargsInv
    BY DEF KargsInit, KargsInv, InitialKargs
  <1>2. KargsInv /\ [KargsNext]_kVars => KargsInv'
    <2> SUFFICES ASSUME KargsInv, [KargsNext]_kVars PROVE KargsInv'
      OBVIOUS
    <2>1. CASE UNCHANGED kVars
      BY <2>1 DEF kVars, kNode, kDaemon, KargsInv, VfioArgs
    <2> QED  BY <2>1, KargsKeeps
  <1>3. KargsInv /\ KargsInv' /\ [KargsNext]_kVars =>
           [/\ krun \cap Kept \subseteq krun'
            /\ vfioLoaded' => VfioArgs \subseteq krun']_kVars
    <2> SUFFICES ASSUME KargsInv, KargsInv', KargsNext
                 PROVE  krun \cap Kept \subseteq krun' /\ (vfioLoaded' => VfioArgs \subseteq krun')
      OBVIOUS
    <2>1. krun \cap Kept \subseteq krun'
      BY KargsKeeps
    <2>2. cpu' = cpu
      BY DEF KargsNext, KargsStep, OnNodeStateChange, SetRDMASubsystem, SyncDesiredKernelArg, SyncRound,
             ApplyReboot, RebootsUsedUp, ApplyNow, KCallFails, EditFails, KDaemonEnds, KPowerLoss, KNewSpec, kNode
    <2>3. VfioArgs' = VfioArgs
      BY <2>2 DEF VfioArgs
    <2> QED  BY <2>1, <2>3 DEF KargsInv
  <1> QED  BY <1>1, <1>2, <1>3, PTL DEF KargsSpec, ConfiguredArgsKept

-----------------------------------------------------------------------------
(* The gate of the device plugin. A pod is closed as long as its plugin     *)
(* cannot start: it has not marked itself yet or waits for the mark to go.  *)
(* What is not closed was let in after a configuration that came to its     *)
(* end, and is gone before the next one begins.                             *)
PodOf == [uid : Nat, ph : Phase, mark : BOOLEAN, gone : BOOLEAN, saw : Nat]
Closed(p) == p.ph \in {"none", "init"} \/ (p.ph = "wait" /\ p.mark)
GateTypes ==
    /\ pod \in PodOf /\ gver \in Nat
    /\ ggen \in Nat /\ 0 < ggen /\ gdone \in Nat /\ gcur.gen \in Nat
    /\ gdone <= ggen /\ gcur.gen <= ggen
GateInv ==
    /\ GateTypes
    /\ gate => /\ gpc \in {"delete", "exit"} /\ pod.uid # gtarget => Closed(pod)
               /\ gpc \in {"host", "unblock"} => Closed(pod)
               /\ gpc \in {"unblock", "finish"} => complete
               /\ pod.ph = "wait" /\ ~pod.mark => complete \/ unseen
               /\ gdone = ggen => drifted \/ complete \/ unseen

(* Steps of the pod that keep it closed if it was, and let nothing new in.  *)
LEMMA PodMoves ==
    ASSUME GateInv, PodRest, pod' \in PodOf,
           pod'.uid = pod.uid \/ Closed(pod'),
           Closed(pod) => Closed(pod'),
           pod'.ph = "wait" /\ ~pod'.mark => pod.ph = "wait" /\ ~pod.mark
    PROVE  GateInv'
  <1>1. UNCHANGED <<gate, ggen, gifs, gver, complete, drifted, gpc, gcur, gtarget, gdone, unseen>>
    BY DEF PodRest, gHost, gLocal
  <1>2. GateTypes'
    BY <1>1 DEF GateInv, GateTypes
  <1> QED  BY <1>1, <1>2 DEF GateInv

LEMMA NewPod ==
    ASSUME NEW uid \in Nat
    PROVE  /\ NoPod(uid) \in PodOf /\ NoPod(uid).ph = "none" /\ NoPod(uid).uid = uid
           /\ [NoPod(uid) EXCEPT !.ph = "init"] \in PodOf
           /\ [NoPod(uid) EXCEPT !.ph = "init"].ph = "init"
  BY DEF NoPod, PodOf, Phase

LEMMA PodSteps ==
    ASSUME GateInv, PodStep \/ ReplacePod
    PROVE  GateInv'
  <1>0. pod \in PodOf /\ pod.uid \in Nat /\ pod.uid + 1 \in Nat /\ gver \in Nat /\ pod.ph \in Phase
    BY SMT DEF GateInv, GateTypes, PodOf
  <1>1. CASE CreatePod
    <2>1. PodRest /\ pod' \in PodOf /\ pod'.ph = "init"
      BY <1>0, <1>1, NewPod DEF CreatePod
    <2> QED  BY <2>1, PodMoves DEF Closed
  <1>2. CASE PodStops
    <2>1. PodRest /\ pod' \in PodOf /\ pod'.ph = "none"
      BY <1>0, <1>2, NewPod DEF PodStops
    <2> QED  BY <2>1, PodMoves DEF Closed
  <1>3. CASE DeletePod \/ ReplacePod
    <2>1. PodRest /\ pod' = [pod EXCEPT !.gone = TRUE]
      BY <1>3 DEF DeletePod, ReplacePod
    <2>2. pod' \in PodOf /\ pod'.ph = pod.ph /\ (pod'.mark <=> pod.mark) /\ pod'.uid = pod.uid
      BY <1>0, <2>1 DEF PodOf
    <2> QED  BY <2>1, <2>2, PodMoves DEF Closed
  <1>4. CASE SetAnnotationOnPod
    <2>1. PodRest /\ pod.ph = "init" /\ pod' = [pod EXCEPT !.ph = "wait", !.mark = TRUE]
      BY <1>4 DEF SetAnnotationOnPod
    <2>2. pod' \in PodOf /\ pod'.ph = "wait" /\ pod'.mark /\ pod'.uid = pod.uid
      BY <1>0, <2>1 DEF PodOf, Phase
    <2> QED  BY <2>1, <2>2, PodMoves DEF Closed
  <1>5. CASE StartPlugin
    <2>1. PodRest /\ ~pod.mark /\ pod' = [pod EXCEPT !.ph = "run", !.saw = gver]
          /\ (gate => pod.ph = "wait")
      BY <1>5 DEF StartPlugin
    <2>2. pod' \in PodOf /\ pod'.ph = "run" /\ pod'.uid = pod.uid
      BY <1>0, <2>1 DEF PodOf, Phase
    <2>3. UNCHANGED <<gate, ggen, gifs, gver, complete, drifted, gpc, gcur, gtarget, gdone, unseen>>
      BY <2>1 DEF PodRest, gHost, gLocal
    <2>4. GateTypes'
      BY <2>2, <2>3 DEF GateInv, GateTypes
    <2>5. gate => ~Closed(pod)
      BY <2>1 DEF Closed
    <2> QED  BY <2>2, <2>3, <2>4, <2>5 DEF GateInv
  <1> QED  BY <1>1, <1>2, <1>3, <1>4, <1>5, ZenonT(60) DEF PodStep

(* The daemon moves on and the pod does not.                                *)
LEMMA DaemonMoves ==
    ASSUME GateInv, UNCHANGED <<gate, ggen, pod, gdone, unseen>>, gcur'.gen \in Nat, gcur'.gen <= ggen,
           gver' \in Nat,
           \/ gpc' \in {"idle", "list"} /\ UNCHANGED <<complete, drifted>>
           \/ gate /\ Closed(pod) /\ gpc' = "host" /\ UNCHANGED <<complete, drifted>>
           \/ ~gate
    PROVE  GateInv'
  <1>1. GateTypes'
    BY DEF GateInv, GateTypes
  <1> QED  BY <1>1 DEF GateInv

LEMMA GateDaemonSteps ==
    ASSUME GateInv, GDaemonStep
    PROVE  GateInv'
  <1>0. /\ pod \in PodOf /\ pod.ph \in Phase /\ gver \in Nat /\ gver + 1 \in Nat /\ gcur.gen \in Nat /\ gcur.gen <= ggen
        /\ ggen \in Nat /\ ggen <= ggen
    BY SMT DEF GateInv, GateTypes, PodOf
  <1>1. CASE StartReconcile
    <2>1. /\ gcur' = [gen |-> ggen, ifs |-> gifs] /\ gpc' = (IF gate THEN "list" ELSE "host")
          /\ UNCHANGED <<gate, ggen, pod, gdone, unseen, gver, complete, drifted>>
      BY <1>1 DEF StartReconcile, GRest, gHost
    <2> QED  BY <1>0, <2>1, DaemonMoves
  <1>2. CASE PeriodicUnblock
    <2>1. /\ gpc = "idle" /\ gdone = ggen /\ ~drifted /\ pod' = [pod EXCEPT !.mark = FALSE]
          /\ UNCHANGED <<gate, ggen, gpc, gcur, gtarget, gdone, unseen, gver, complete, drifted>>
      BY <1>2 DEF PeriodicUnblock, Unmarked, GRest, gHost, gLocal
    <2>2. pod' \in PodOf
      BY <1>0, <2>1 DEF PodOf
    <2>3. GateTypes'
      BY <2>1, <2>2 DEF GateInv, GateTypes
    <2> QED  BY <2>1, <2>3 DEF GateInv
  <1>3. CASE ListPods
    <2>1. /\ gpc = "list"
          /\ UNCHANGED <<gate, ggen, pod, gcur, gdone, unseen, gver, complete, drifted>>
          /\ \/ pod.ph = "none" /\ gpc' = Restarted
             \/ gpc' = "delete" /\ gtarget' = pod.uid
      BY <1>3 DEF ListPods, GRest, gHost
    <2>2. CASE pod.ph = "none" /\ gpc' = Restarted
      BY <1>0, <2>1, <2>2, DaemonMoves DEF Closed, Restarted
    <2>3. CASE gpc' = "delete" /\ gtarget' = pod.uid
      <3>1. GateTypes'
        BY <2>1 DEF GateInv, GateTypes
      <3> QED  BY <2>1, <2>3, <3>1 DEF GateInv
    <2> QED  BY <2>1, <2>2, <2>3
  <1>4. CASE DeleteListedPod
    <2>1. /\ gpc = "delete"
          /\ UNCHANGED <<gate, ggen, gcur, gdone, unseen, gver, complete, drifted>>
          /\ \/ /\ pod.uid = gtarget /\ pod' = [pod EXCEPT !.gone = TRUE]
                /\ gpc' = "exit" /\ gtarget' = gtarget
             \/ /\ pod.uid # gtarget \/ pod.ph = "none"
                /\ gpc' = Restarted /\ pod' = pod
      BY <1>4 DEF DeleteListedPod, GRest, gHost
    <2>2. CASE pod.uid = gtarget /\ pod' = [pod EXCEPT !.gone = TRUE] /\ gpc' = "exit" /\ gtarget' = gtarget
      <3>1. pod' \in PodOf /\ pod'.uid = pod.uid /\ pod'.ph = pod.ph /\ (pod'.mark <=> pod.mark)
        BY <1>0, <2>2 DEF PodOf
      <3>2. GateTypes'
        BY <2>1, <3>1 DEF GateInv, GateTypes
      <3> QED  BY <2>1, <2>2, <3>1, <3>2 DEF GateInv
    <2>3. CASE (pod.uid # gtarget \/ pod.ph = "none") /\ gpc' = Restarted /\ pod' = pod
      <3>1. gate => Closed(pod)
        BY <2>1, <2>3 DEF GateInv, Closed
      <3> QED  BY <1>0, <2>1, <2>3, <3>1, DaemonMoves DEF Restarted
    <2> QED  BY <2>1, <2>2, <2>3
  <1>5. CASE WaitForExit
    <2>1. /\ gpc = "exit" /\ (pod.uid # gtarget \/ pod.ph = "none") /\ gpc' = Restarted
          /\ UNCHANGED <<gate, ggen, pod, gcur, gdone, unseen, gver, complete, drifted>>
      BY <1>5 DEF WaitForExit, Exited, GRest, gHost
    <2>2. gate => Closed(pod)
      BY <2>1 DEF GateInv, Closed
    <2> QED  BY <1>0, <2>1, <2>2, DaemonMoves DEF Restarted
  <1>6. CASE ConfigureHost
    <2>1. /\ gpc = "host" /\ gpc' = (IF gate THEN "unblock" ELSE "list")
          /\ gver' = gver + 1 /\ complete' /\ UNCHANGED <<gate, ggen, pod, gcur, gdone, unseen>>
      BY <1>6 DEF ConfigureHost, GRest
    <2>2. GateTypes'
      BY <1>0, <2>1 DEF GateInv, GateTypes
    <2> QED  BY <2>1, <2>2 DEF GateInv
  <1>7. CASE WaitAndUnblock
    <2>1. /\ gpc = "unblock" /\ gpc' = "finish" /\ pod' \in {pod, [pod EXCEPT !.mark = FALSE]}
          /\ UNCHANGED <<gate, ggen, gcur, gtarget, gdone, unseen, gver, complete, drifted>>
      BY <1>7 DEF WaitAndUnblock, Unmarked, GRest, gHost
    <2>2. pod' \in PodOf
      BY <1>0, <2>1 DEF PodOf
    <2>3. GateTypes'
      BY <2>1, <2>2 DEF GateInv, GateTypes
    <2> QED  BY <2>1, <2>3 DEF GateInv
  <1>8. CASE Finish
    <2>1. /\ gpc = "finish" /\ gdone' = gcur.gen /\ gpc' = "idle" /\ gcur' = [gen |-> 0, ifs |-> FALSE]
          /\ UNCHANGED <<gate, ggen, pod, unseen, gver, complete, drifted>>
      BY <1>8 DEF Finish, GIdle, GRest, gHost
    <2>2. gcur'.gen = 0
      BY <2>1
    <2>3. GateTypes'
      BY <1>0, <2>1, <2>2, SMTT(30) DEF GateInv, GateTypes
    <2> QED  BY <2>1, <2>3 DEF GateInv
  <1> QED  BY <1>1, <1>2, <1>3, <1>4, <1>5, <1>6, <1>7, <1>8 DEF GDaemonStep

(* Failures, restarts, reboots, and what others do.                         *)
LEMMA GateOtherSteps ==
    ASSUME GateInv, GCallFails \/ GDaemonEnds \/ NodeReboots \/ GNewSpec \/ HostDrifts
    PROVE  GateInv'
  <1>0. /\ pod \in PodOf /\ pod.uid \in Nat /\ gver \in Nat /\ gver + 1 \in Nat /\ gcur.gen \in Nat
        /\ ggen \in Nat /\ ggen + 1 \in Nat /\ gdone \in Nat /\ 0 < ggen
    BY SMT DEF GateInv, GateTypes, PodOf
  <1>1. CASE GCallFails
    <2>1. /\ gpc' = "idle" /\ gcur' = [gen |-> 0, ifs |-> FALSE] /\ UNCHANGED <<gate, ggen, pod, gdone>>
          /\ \/ gpc = "host" /\ gver' = gver + 1
             \/ UNCHANGED <<gver, complete, drifted>>
          /\ (unseen' <=> unseen \/ (gdone = ggen /\ ~drifted'))
      BY <1>1 DEF GCallFails, GIdle, gHost
    <2>2. gcur'.gen = 0
      BY <2>1
    <2>3. GateTypes'
      BY <1>0, <2>1, <2>2, SMTT(30) DEF GateInv, GateTypes
    <2>4. gate => (pod.ph = "wait" /\ ~pod.mark => complete' \/ unseen')
      BY <2>1, SMT DEF GateInv, Closed
    <2> QED  BY <2>1, <2>3, <2>4 DEF GateInv
  <1>2. CASE GDaemonEnds
    <2>1. /\ gpc' = "idle" /\ gcur' = [gen |-> 0, ifs |-> FALSE] /\ gdone' = 0
          /\ UNCHANGED <<gate, ggen, pod, unseen>>
          /\ \/ gpc = "host" /\ gver' = gver + 1
             \/ UNCHANGED <<gver, complete, drifted>>
      BY <1>2 DEF GDaemonEnds, GIdle, gHost
    <2>2. gcur'.gen = 0
      BY <2>1
    <2>3. GateTypes' /\ gdone' # ggen'
      BY <1>0, <2>1, <2>2, SMTT(30) DEF GateInv, GateTypes
    <2>4. gate => (pod.ph = "wait" /\ ~pod.mark => complete' \/ unseen')
      BY <2>1 DEF GateInv, Closed
    <2> QED  BY <2>1, <2>3, <2>4 DEF GateInv
  <1>3. CASE NodeReboots
    <2>1. /\ gpc' = "idle" /\ gcur' = [gen |-> 0, ifs |-> FALSE] /\ gdone' = 0 /\ gver' = gver + 1
          /\ UNCHANGED <<gate, ggen, unseen>>
          /\ pod' = NoPod(pod.uid) \/ pod' = [pod EXCEPT !.ph = "init"]
      BY <1>3 DEF NodeReboots, GIdle
    <2>2. gcur'.gen = 0
      BY <2>1
    <2>3. pod' \in PodOf /\ pod'.ph \in {"none", "init"}
      <3>1. CASE pod' = NoPod(pod.uid)
        BY <1>0, <3>1, NewPod
      <3>2. CASE pod' = [pod EXCEPT !.ph = "init"]
        BY <1>0, <3>2 DEF PodOf, Phase
      <3> QED  BY <2>1, <3>1, <3>2
    <2>4. GateTypes' /\ gdone' # ggen'
      BY <1>0, <2>1, <2>2, <2>3, SMTT(30) DEF GateInv, GateTypes
    <2> QED  BY <2>1, <2>3, <2>4 DEF GateInv
  <1>4. CASE GNewSpec
    <2>1. /\ ggen' = ggen + 1
          /\ UNCHANGED <<gate, pod, gver, complete, drifted, gpc, gcur, gtarget, gdone, unseen>>
      BY <1>4 DEF GNewSpec, gHost, gLocal
    <2>2. GateTypes' /\ gdone' # ggen'
      BY <1>0, <2>1, SMTT(30) DEF GateInv, GateTypes
    <2> QED  BY <2>1, <2>2 DEF GateInv
  <1>5. CASE HostDrifts
    <2>1. /\ drifted' /\ gver' = gver + 1
          /\ UNCHANGED <<gate, ggen, pod, complete, gpc, gcur, gtarget, gdone, unseen>>
      BY <1>5 DEF HostDrifts, gLocal
    <2>2. GateTypes'
      BY <1>0, <2>1 DEF GateInv, GateTypes
    <2> QED  BY <2>1, <2>2 DEF GateInv
  <1> QED  BY <1>1, <1>2, <1>3, <1>4, <1>5

LEMMA InitGate ==
    ASSUME GateInit
    PROVE  GateInv
  <1>1. /\ pod = NoPod(0) /\ ggen = 1 /\ gver = 0 /\ gpc = "idle" /\ gcur = [gen |-> 0, ifs |-> FALSE]
        /\ gdone = 0
    BY DEF GateInit
  <1>2. pod \in PodOf /\ pod.ph = "none" /\ gcur.gen = 0
    BY <1>1, NewPod
  <1>3. GateTypes
    BY <1>1, <1>2, SMTT(30) DEF GateTypes
  <1> QED  BY <1>1, <1>2, <1>3, SMTT(30) DEF GateInv

(* Every step keeps the invariant.                                          *)
LEMMA NextGate == GateInv /\ [GateNext]_gVars => GateInv'
  <1> SUFFICES ASSUME GateInv, [GateNext]_gVars PROVE GateInv'
    OBVIOUS
  <1>1. CASE UNCHANGED gVars
    BY <1>1 DEF gVars, gHost, gLocal, GateInv, GateTypes
  <1> QED  BY <1>1, PodSteps, GateDaemonSteps, GateOtherSteps DEF GateNext

(* With the gate the host is configured only while no plugin runs, and a    *)
(* plugin starts only on a host whose configuration came to its end: the    *)
(* pod that is deleted, or a new one under its name, marks itself and waits *)
(* before the daemon configures, whichever way calls fail and nodes reboot. *)
THEOREM PluginWaits == GateSpec => NoPluginMeanwhile
  <1>1. GateInv /\ [GateNext]_gVars =>
           [gate => /\ ConfigureHost => pod.ph # "run"
                    /\ StartPlugin => complete \/ unseen]_gVars
    <2> SUFFICES ASSUME GateInv, gate
                 PROVE  (ConfigureHost => pod.ph # "run") /\ (StartPlugin => complete \/ unseen)
      OBVIOUS
    <2>1. ConfigureHost => pod.ph # "run"
      BY DEF GateInv, ConfigureHost, Closed
    <2>2. StartPlugin => complete \/ unseen
      BY DEF GateInv, StartPlugin
    <2> QED  BY <2>1, <2>2
  <1> QED  BY <1>1, InitGate, NextGate, PTL DEF GateSpec, NoPluginMeanwhile

-----------------------------------------------------------------------------
(* Firmware of Mellanox NICs. Between the comparison and mstconfig the      *)
(* attributes to change stay within what the spec or the records allow.     *)
IsLinks(f) == f = [p \in DOMAIN f |-> f[p]]
Allowed(n, a) == Named(n) # {} /\ (Own(n) = {} => a.vfs = -1 /\ DOMAIN a.link = {})
FirmwareInv ==
    /\ DOMAIN fwNext = Nic /\ \A n \in Nic : IsLinks(fwNext[n].link)
    /\ record \in [Port -> {"none", "op", "ext"}]
    /\ DOMAIN attrs \subseteq Nic
    /\ mpc = "fw" => \A n \in DOMAIN attrs : Allowed(n, attrs[n])

LEMMA InitFirmware ==
    ASSUME MlxInit PROVE FirmwareInv
  <1>1. DOMAIN attrs = {} /\ mpc # "fw"
    BY DEF MlxInit, Nothing
  <1>2. DOMAIN fwNext = Nic /\ \A n \in Nic : IsLinks(fwNext[n].link)
    BY DEF MlxInit, IsLinks
  <1>3. record \in [Port -> {"none", "op", "ext"}]
    BY DEF MlxInit
  <1> QED  BY <1>1, <1>2, <1>3 DEF FirmwareInv

(* OnNodeStateChange of the plugin.                                         *)
LEMMA ComparisonAllowed ==
    ASSUME FirmwareInv, NEW via \in [SpecNics -> Port], \A n \in SpecNics : via[n] \in InSpec(n),
           Compare(via), mcur' = [spec |-> mspec, gen |-> mgen], record' = record
    PROVE  DOMAIN attrs' \subseteq Nic /\ \A n \in DOMAIN attrs' : Allowed(n, attrs[n])'
  <1>1. mcur'.spec = mspec
    OBVIOUS
  <1> DEFINE changed == {n \in SpecNics : NicChange(via[n])}
             cleared == {m \in Nic : Cleared(m)}
  <1>2. attrs' = [n \in changed \cup cleared |-> IF n \in changed THEN NicAttrs(via[n]) ELSE ClearAttrs]
    BY DEF Compare
  <1>3. DOMAIN attrs' = changed \cup cleared /\ changed \subseteq Nic
    BY <1>2 DEF SpecNics
  <1>4. ASSUME NEW n \in changed PROVE Allowed(n, attrs[n])'
    <2>1. PICK p : p = via[n] /\ p \in InSpec(n) /\ ~NicError(p)
      BY DEF Compare
    <2>2. p \in Ports(n) /\ p \in DOMAIN mspec
      BY <2>1 DEF InSpec
    <2>3. p \in Named(n)'
      BY <1>1, <2>2 DEF Named
    <2>4. attrs'[n] = NicAttrs(p)
      BY <1>2, <1>4, <2>1
    <2>5. Own(n)' = {} => mspec[p].ext
      BY <1>1, <2>2 DEF Own
    <2>6. mspec[p].ext => ~TotalVfsNeedReboot(p) /\ LinkChange(p[1]) = {}
      BY <2>1 DEF NicError
    <2>7. mspec[p].ext => NicAttrs(p).vfs = -1 /\ DOMAIN NicAttrs(p).link = {}
      BY <2>6 DEF NicAttrs, TotalVfsChange
    <2> QED  BY <2>3, <2>4, <2>5, <2>7 DEF Allowed
  <1>5. ASSUME NEW n \in cleared PROVE Named(n)' # {} /\ Own(n)' # {}
    <2>1. InSpec(n) = {} /\ NicToClear(n) /\ n \in Nic
      BY DEF Cleared
    <2>2. PICK p \in Ports(n) : record[p] # "none" /\ record[p] # "ext"
      BY <2>1 DEF NicToClear
    <2>3. record[p] = "op" /\ p \notin DOMAIN mspec
      BY <2>1, <2>2 DEF FirmwareInv, Ports, InSpec
    <2> QED  BY <1>1, <2>3 DEF Named, Own
  <1>6. \A n \in cleared : Allowed(n, attrs[n])'
    BY <1>5 DEF Allowed
  <1>7. \A n \in changed : Allowed(n, attrs[n])'
    BY <1>4
  <1>8. ASSUME NEW n \in DOMAIN attrs' PROVE Allowed(n, attrs[n])'
    <2>1. n \in changed \/ n \in cleared
      BY <1>3
    <2> HIDE DEF changed, cleared
    <2> QED  BY <1>6, <1>7, <2>1
  <1>9. cleared \subseteq Nic
    OBVIOUS
  <1>10. DOMAIN attrs' \subseteq Nic
    BY <1>3, <1>9
  <1> QED  BY <1>8, <1>10

LEMMA FirmwareSteps ==
    ASSUME FirmwareInv, MlxNext
    PROVE  FirmwareInv'
  <1>1. ASSUME NEW last \in Nic, OnNodeStateChangeLast(last) PROVE FirmwareInv'
    <2>1. /\ mcur' = [spec |-> mspec, gen |-> mgen] /\ mpc' = "fw" /\ UNCHANGED <<fwNext, record>>
      BY <1>1 DEF OnNodeStateChangeLast
    <2>2. CASE lockdown
      <3>1. attrs' = Nothing
        BY <1>1, <2>2 DEF OnNodeStateChangeLast
      <3>2. DOMAIN attrs' = {}
        BY <3>1 DEF Nothing
      <3> QED  BY <2>1, <3>2 DEF FirmwareInv
    <2>3. CASE ~lockdown
      <3>1. PICK via \in [SpecNics -> Port] : (\A n \in SpecNics : via[n] \in InSpec(n)) /\ Compare(via)
        BY <1>1, <2>3 DEF OnNodeStateChangeLast
      <3>2. DOMAIN attrs' \subseteq Nic /\ \A n \in DOMAIN attrs' : Allowed(n, attrs[n])'
        BY <2>1, <3>1, ComparisonAllowed
      <3> QED  BY <2>1, <3>2 DEF FirmwareInv
    <2> QED  BY <2>2, <2>3
  <1>2. ASSUME NEW n \in Nic, MlxConfigFW(n) PROVE FirmwareInv'
    <2>1. UNCHANGED <<record, mcur>> /\ mpc = "fw"
      BY <1>2 DEF MlxConfigFW
    <2>2. CASE mpc' = "idle" /\ UNCHANGED <<fwNext, attrs>>
      BY <2>1, <2>2 DEF FirmwareInv
    <2>3. CASE /\ fwNext' = [fwNext EXCEPT ![n] = Written(@, attrs[n])]
               /\ attrs' = Restrict(attrs, DOMAIN attrs \ {n}) /\ UNCHANGED mpc
      <3>1. IsLinks(Written(fwNext[n], attrs[n]).link)
        BY DEF Written, IsLinks
      <3>2. DOMAIN fwNext' = Nic /\ \A m \in Nic : IsLinks(fwNext'[m].link)
        BY <2>3, <3>1 DEF FirmwareInv
      <3>3. DOMAIN attrs' \subseteq DOMAIN attrs /\ \A m \in DOMAIN attrs' : attrs'[m] = attrs[m]
        BY <2>3 DEF Restrict
      <3>4. \A m \in DOMAIN attrs' : Allowed(m, attrs'[m])
        BY <2>1, <3>3 DEF FirmwareInv
      <3>5. \A m \in DOMAIN attrs' : Allowed(m, attrs[m])'
        BY <2>1, <3>4 DEF Allowed, Named, Own
      <3> QED  BY <2>1, <3>2, <3>3, <3>5 DEF FirmwareInv
    <2> QED  BY <1>2, <2>2, <2>3 DEF MlxConfigFW
  <1>3. CASE MlxResetFW
    BY <1>3 DEF MlxResetFW, FirmwareInv
  <1>4. CASE MReboot \/ MCallFails \/ MDaemonEnds \/ MPowerLoss
    <2>1. mpc' = "idle" /\ attrs' = Nothing /\ UNCHANGED <<fwNext, record>>
      BY <1>4 DEF MReboot, MBoot, MCallFails, MDaemonEnds, MPowerLoss, MForget
    <2>2. DOMAIN attrs' = {}
      BY <2>1 DEF Nothing
    <2> QED  BY <2>1, <2>2 DEF FirmwareInv
  <1>5. CASE GenericApply
    <2>1. mpc' = "idle" /\ attrs' = Nothing /\ fwNext' = fwNext
      BY <1>5 DEF GenericApply, MForget
    <2>2. DOMAIN attrs' = {}
      BY <2>1 DEF Nothing
    <2>3. record' \in [Port -> {"none", "op", "ext"}]
      BY <1>5, ZenonT(60) DEF GenericApply, RecordOf, FirmwareInv
    <2> QED  BY <2>1, <2>2, <2>3 DEF FirmwareInv
  <1>6. CASE MNewSpec
    <2>1. UNCHANGED <<fwNext, record, mpc, mcur, attrs>>
      BY <1>6 DEF MNewSpec, mLocal
    <2> QED  BY <2>1, SMTT(30) DEF FirmwareInv, Allowed, Named, Own
  <1> QED  BY <1>1, <1>2, <1>3, <1>4, <1>5, <1>6, ZenonT(60) DEF MlxNext, MlxStep

ForeignStep ==
    \A n \in Nic : fwNext'[n] # fwNext[n] =>
        /\ Named(n) # {}
        /\ Own(n) = {} => /\ fwNext'[n].vfs = fwNext[n].vfs
                          /\ fwNext'[n].link = fwNext[n].link

LEMMA WrittenKeeps ==
    ASSUME NEW fw, NEW a, IsLinks(fw.link), a.vfs = -1, DOMAIN a.link = {}
    PROVE  Written(fw, a).vfs = fw.vfs /\ Written(fw, a).link = fw.link
  <1>1. Written(fw, a).vfs = fw.vfs
    BY SMT DEF Written
  <1>2. Written(fw, a).link = [p \in DOMAIN fw.link |-> fw.link[p]]
    BY DEF Written
  <1> QED  BY <1>1, <1>2 DEF IsLinks

LEMMA ForeignSteps ==
    ASSUME FirmwareInv, MlxNext
    PROVE  ForeignStep
  <1>1. CASE fwNext' = fwNext
    BY <1>1 DEF ForeignStep
  <1>2. ASSUME NEW n \in Nic, MlxConfigFW(n) PROVE ForeignStep
    <2>1. CASE n \in dpu
      BY <1>1, <1>2, <2>1 DEF MlxConfigFW
    <2>2. CASE n \notin dpu
      <3>1. n \in DOMAIN attrs /\ mpc = "fw" /\ fwNext' = [fwNext EXCEPT ![n] = Written(fwNext[n], attrs[n])]
        BY <1>2, <2>2 DEF MlxConfigFW
      <3>2. DOMAIN fwNext = Nic /\ IsLinks(fwNext[n].link) /\ Allowed(n, attrs[n])
        BY <3>1 DEF FirmwareInv
      <3>3. \A m \in Nic : fwNext'[m] # fwNext[m] => m = n
        BY <3>1, <3>2
      <3>4. fwNext'[n] = Written(fwNext[n], attrs[n])
        BY <3>1, <3>2, ZenonT(60)
      <3>5. Own(n) = {} => fwNext'[n].vfs = fwNext[n].vfs /\ fwNext'[n].link = fwNext[n].link
        BY <3>2, <3>4, WrittenKeeps, SMTT(30) DEF Allowed
      <3>6. Named(n) # {}
        BY <3>2 DEF Allowed
      <3> QED  BY <3>3, <3>5, <3>6 DEF ForeignStep
    <2> QED  BY <2>1, <2>2
  <1>3. CASE MReboot \/ MCallFails \/ MDaemonEnds \/ MPowerLoss
    BY <1>1, <1>3 DEF MReboot, MBoot, MCallFails, MDaemonEnds, MPowerLoss, MForget
  <1>4. CASE MlxResetFW \/ GenericApply \/ MNewSpec \/ \E n \in Nic : OnNodeStateChangeLast(n)
    BY <1>1, <1>4 DEF MlxResetFW, GenericApply, MForget, MNewSpec, OnNodeStateChangeLast
  <1> QED  BY <1>2, <1>3, <1>4 DEF MlxNext, MlxStep

(* The firmware of a NIC which neither the spec names nor the operator      *)
(* configured is never written, whatever stands in the records of the other *)
(* NICs, and a NIC which is externally managed by every port keeps its      *)
(* number of VFs and its link types: what OnNodeStateChange compared still  *)
(* holds when MlxConfigFW writes, however reboots and failures fall between.*)
THEOREM FirmwareLeftAlone == MlxSpec => ForeignFirmwareKept
  <1>1. MlxInit => FirmwareInv
    BY InitFirmware
  <1>2. FirmwareInv /\ [MlxNext]_mVars => FirmwareInv'
    <2> SUFFICES ASSUME FirmwareInv, [MlxNext]_mVars PROVE FirmwareInv'
      OBVIOUS
    <2>1. CASE UNCHANGED mVars
      BY <2>1, ZenonT(60) DEF mVars, mLocal, FirmwareInv, Allowed, Named, Own
    <2> QED  BY <2>1, FirmwareSteps
  <1>3. FirmwareInv /\ [MlxNext]_mVars => [ForeignStep]_mVars
    BY ForeignSteps
  <1> QED  BY <1>1, <1>2, <1>3, PTL DEF MlxSpec, ForeignFirmwareKept, ForeignStep

-----------------------------------------------------------------------------
(* Reboots. What a boot brings fits the spec that was compared, so that the *)
(* next comparison asks for no other reboot.                                *)
Fits(fw, n) ==
    \A p \in InSpec(n) :
        /\ ~mspec[p].ext => fw.vfs = TotalVfs(p) /\ mspec[p].link \in {"", fw.link[p]}
        /\ fw.en = TRUE
Asked(p, l) == \E s \in MSpec : p \in DOMAIN s /\ s[p].link = l /\ l # ""

TrackTypes ==
    /\ mspec \in MSpec \cup {Nothing} /\ mgen \in Nat /\ mfaults \in Nat
    /\ mtracker.gen \in 0 .. mgen /\ mtracker.count \in 0 .. MaxMReboots
    /\ mdone \in 0 .. mgen /\ mcur.gen \in 0 .. mgen
    /\ mpc \in {"idle", "fw", "main"} /\ toReset \subseteq Nic
    /\ mpc # "idle" => mtracker.gen <= mcur.gen
    /\ DOMAIN fwCur = Nic /\ DOMAIN fwNext = Nic
    /\ \A n \in Nic : /\ fwCur[n].en \in BOOLEAN /\ fwNext[n].en \in BOOLEAN
                      /\ DOMAIN fwNext[n].link = Ports(n)
LinkInv ==
    /\ \A n \in Nic : \A p \in Ports(n) :
          fwNext[n].link[p] # fwCur[n].link[p] => Asked(p, fwNext[n].link[p])
    /\ mpc = "fw" => \A n \in DOMAIN attrs : \A p \in DOMAIN attrs[n].link : Asked(p, attrs[n].link[p])
WriteInv ==
    mcur.gen = mgen => \A n \in SpecNics :
        /\ mpc = "fw" => /\ n \in DOMAIN attrs => Fits(Written(fwNext[n], attrs[n]), n)
                         /\ n \notin DOMAIN attrs => Fits(fwNext[n], n) /\ (n \in dpu => Fits(fwCur[n], n))
        /\ mpc = "main" => Fits(fwNext[n], n) /\ (n \in dpu => Fits(fwCur[n], n))
TrackInv ==
    mfaults = 0 =>
        /\ mtracker.gen = mgen /\ mtracker.count # 0 => \A n \in SpecNics : Fits(fwCur[n], n)
        /\ mpc # "idle" /\ mtracker.gen = mcur.gen /\ mtracker.count # 0 => ~mreboot
        /\ mtracker.count <= 1
RebootInv == LinkInv /\ WriteInv /\ TrackInv

(* The larger number of VFs of a NIC's ports.                               *)
LEMMA LargerOfTwo ==
  ASSUME NEW S, NEW u \in Nat, NEW v \in Nat, u \in S, v \in S, \A x \in S : x = u \/ x = v
  PROVE  Max(S) \in S
  <1>1. \E x \in S : \A y \in S : x >= y
    <2>1. CASE u >= v
      BY <2>1, SMT
    <2>2. CASE ~(u >= v)
      <3>1. v >= u /\ v >= v
        BY <2>2, SMT
      <3> QED  BY <3>1
    <2> QED  BY <2>1, <2>2
  <1> QED  BY <1>1 DEF Max

LEMMA PortsOfNic ==
  ASSUME NEW n \in Nic
  PROVE  Ports(n) \subseteq {<<n, 0>>, <<n, 1>>} /\ \A p \in Ports(n) : p[1] = n /\ p \in Port
  <1>1. ASSUME NEW p \in Ports(n) PROVE p \in {<<n, 0>>, <<n, 1>>} /\ p[1] = n /\ p \in Port
    <2>1. p[1] = n /\ p \in Port
      BY DEF Ports
    <2>2. p \in Nic \X {0} \/ p \in Dual \X {1}
      BY <2>1 DEF Port
    <2>3. p = <<p[1], p[2]>> /\ p[2] \in {0, 1}
      BY <2>2, SMTT(30)
    <2> QED  BY <2>1, <2>3
  <1> QED  BY <1>1

LEMMA SpecOfPort ==
  ASSUME OrdinarySpecs, TrackTypes, NEW n \in Nic, NEW p \in InSpec(n)
  PROVE  /\ p[1] = n /\ p \in Ports(n) /\ p \in DOMAIN mspec /\ mspec \in MSpec
         /\ mspec[p].vfs \in Nat /\ mspec[p].vfs > 0
         /\ \A q \in InSpec(n) : mspec[q].ext = mspec[p].ext
  <1>1. p \in Ports(n) /\ p \in DOMAIN mspec /\ p[1] = n
    BY PortsOfNic DEF InSpec
  <1>2. mspec \in MSpec
    <2>1. mspec # Nothing
      BY <1>1 DEF Nothing
    <2> QED  BY <2>1 DEF TrackTypes
  <1>3. mspec[p] \in Interface
    BY <1>1, <1>2, MlxAssumption DEF Range
  <1>4. mspec[p].vfs \in Nat
    BY <1>3 DEF Interface
  <1>5. mspec[p].vfs > 0
    BY <1>1, <1>2 DEF OrdinarySpecs
  <1>6. ASSUME NEW q \in InSpec(n) PROVE mspec[q].ext = mspec[p].ext
    <2>1. q \in DOMAIN mspec /\ q[1] = n
      BY PortsOfNic DEF InSpec
    <2> QED  BY <1>1, <1>2, <2>1, ZenonT(60) DEF OrdinarySpecs
  <1> QED  BY <1>1, <1>2, <1>4, <1>5, <1>6, ZenonT(60)

LEMMA VfsOfNic ==
  ASSUME OrdinarySpecs, TrackTypes, NEW n \in Nic, NEW p \in InSpec(n)
  PROVE  /\ TotalVfs(p) \in Nat /\ TotalVfs(p) > 0
         /\ \A q \in InSpec(n) : TotalVfs(q) = TotalVfs(p)
  <1> DEFINE S == {mspec[q].vfs : q \in InSpec(n)}
  <1>1. \A q \in InSpec(n) : TotalVfs(q) = Max(S)
    BY SpecOfPort DEF TotalVfs
  <1>2. \A q \in InSpec(n) : mspec[q].vfs \in Nat /\ mspec[q].vfs > 0
    BY SpecOfPort
  <1>3. PICK q \in InSpec(n) : \A x \in InSpec(n) : x = p \/ x = q
    <2>1. InSpec(n) \subseteq {<<n, 0>>, <<n, 1>>}
      BY PortsOfNic DEF InSpec
    <2> QED  BY <2>1
  <1>4. mspec[p].vfs \in S /\ mspec[q].vfs \in S /\ \A x \in S : x = mspec[p].vfs \/ x = mspec[q].vfs
    BY <1>3
  <1>5. Max(S) \in S
    <2> HIDE DEF S
    <2> QED  BY <1>2, <1>4, LargerOfTwo
  <1>6. Max(S) \in Nat /\ Max(S) > 0
    BY <1>2, <1>5
  <1> HIDE DEF S
  <1> QED  BY <1>1, <1>6

(* HandleLinkType looks at the current link type only: it is still the next *)
(* one where it is the one the spec asks for.                               *)
LEMMA LinkStays ==
  ASSUME OrdinarySpecs, TrackTypes, LinkInv, NEW n \in Nic, NEW q \in InSpec(n),
         mspec[q].link \in {"", fwCur[n].link[q]}
  PROVE  mspec[q].link \in {"", fwNext[n].link[q]}
  <1> SUFFICES ASSUME mspec[q].link # "", fwNext[n].link[q] # fwCur[n].link[q] PROVE FALSE
    OBVIOUS
  <1>1. q \in Ports(n) /\ q \in DOMAIN mspec /\ mspec \in MSpec
    BY SpecOfPort
  <1>2. PICK s \in MSpec : q \in DOMAIN s /\ s[q].link = fwNext[n].link[q] /\ s[q].link # ""
    BY <1>1 DEF LinkInv, Asked
  <1>3. mspec[q].link = s[q].link
    BY <1>1, <1>2 DEF OrdinarySpecs
  <1> QED  BY <1>2, <1>3

(* What the comparison of one NIC finds.                                    *)
LEMMA Comparison ==
  ASSUME OrdinarySpecs, TrackTypes, LinkInv, NEW n \in Nic, NEW p \in InSpec(n), ~NicError(p)
  PROVE  /\ NicChange(p) => Fits(Written(fwNext[n], NicAttrs(p)), n)
         /\ ~NicChange(p) => Fits(fwNext[n], n) /\ Fits(fwCur[n], n)
         /\ Fits(fwCur[n], n) => ~NicNeedReboot(p)
         /\ \A q \in DOMAIN NicAttrs(p).link : Asked(q, NicAttrs(p).link[q])
  <1>1. p[1] = n /\ mspec \in MSpec /\ \A q \in InSpec(n) : mspec[q].ext = mspec[p].ext
    BY SpecOfPort
  <1>2. \A q \in InSpec(n) : q \in Ports(n) /\ q \in DOMAIN mspec
    BY DEF InSpec
  <1> DEFINE T == TotalVfs(p)
             W == Written(fwNext[n], NicAttrs(p))
  <1>3. T \in Nat /\ T > 0 /\ \A q \in InSpec(n) : TotalVfs(q) = T
    BY VfsOfNic
  <1>4. T > -1 /\ T # 0 /\ ~(-1 > -1) /\ -1 # 0
    BY <1>3, SMTT(30)
  <1>5. /\ fwCur[n].en \in BOOLEAN /\ fwNext[n].en \in BOOLEAN /\ DOMAIN fwNext[n].link = Ports(n)
    BY DEF TrackTypes
  <1>6. EnableSriov(p) <=> ~(fwCur[n].en = TRUE /\ fwNext[n].en = TRUE)
    BY <1>1, <1>3, <1>5 DEF EnableSriov
  <1>7. EnableNeedReboot(p) => fwCur[n].en # TRUE
    BY <1>1, <1>3 DEF EnableNeedReboot
  <1>8. LinkChange(n) = {q \in InSpec(n) : mspec[q].link \notin {"", fwCur[n].link[q]}}
    BY DEF LinkChange
  <1>9. mspec[p].ext => ~TotalVfsNeedReboot(p) /\ LinkChange(n) = {}
    BY <1>1 DEF NicError
  <1>10. ~mspec[p].ext => /\ TotalVfsNeedReboot(p) <=> T # fwCur[n].vfs
                          /\ TotalVfsChange(p) <=> (T # fwCur[n].vfs \/ T # fwNext[n].vfs)
    BY <1>1 DEF TotalVfsNeedReboot, TotalVfsChange
  <1>11. NicNeedReboot(p) <=> TotalVfsNeedReboot(p) \/ EnableNeedReboot(p) \/ LinkChange(n) # {}
    BY <1>1 DEF NicNeedReboot
  <1>12. /\ NicAttrs(p).vfs = IF TotalVfsChange(p) THEN T ELSE -1
         /\ NicAttrs(p).en = EnableSriov(p)
         /\ NicAttrs(p).link = [q \in LinkChange(n) |-> mspec[q].link]
    BY <1>1 DEF NicAttrs
  <1>13. ASSUME NEW q \in InSpec(n) PROVE W.en = TRUE
    <2>1. W.en = (NicAttrs(p).en \/ (NicAttrs(p).vfs # 0 /\ fwNext[n].en))
      BY DEF Written
    <2>2. NicAttrs(p).vfs # 0
      BY <1>4, <1>12
    <2>3. NicAttrs(p).en \/ fwNext[n].en = TRUE
      BY <1>6, <1>12
    <2> QED  BY <2>1, <2>2, <2>3
  <1>14. ASSUME NEW q \in InSpec(n), ~mspec[q].ext PROVE W.vfs = T
    <2>1. W.vfs = IF NicAttrs(p).vfs > -1 THEN NicAttrs(p).vfs ELSE fwNext[n].vfs
      BY DEF Written
    <2>2. CASE TotalVfsChange(p)
      BY <1>4, <1>12, <2>1, <2>2
    <2>3. CASE ~TotalVfsChange(p)
      <3>1. T = fwNext[n].vfs
        BY <1>1, <1>10, <1>14, <2>3
      <3> QED  BY <1>4, <1>12, <2>1, <2>3, <3>1
    <2> QED  BY <2>2, <2>3
  <1>15. ASSUME NEW q \in InSpec(n), ~mspec[q].ext PROVE mspec[q].link \in {"", W.link[q]}
    <2>1. W.link[q] = IF q \in DOMAIN NicAttrs(p).link THEN NicAttrs(p).link[q] ELSE fwNext[n].link[q]
      BY <1>2, <1>5 DEF Written
    <2>2. CASE q \in LinkChange(n)
      BY <1>12, <2>1, <2>2
    <2>3. CASE q \notin LinkChange(n)
      <3>1. mspec[q].link \in {"", fwCur[n].link[q]}
        BY <1>8, <2>3
      <3>2. mspec[q].link \in {"", fwNext[n].link[q]}
        BY <3>1, LinkStays
      <3> QED  BY <1>12, <2>1, <2>3, <3>2
    <2> QED  BY <2>2, <2>3
  <1>16. Fits(W, n)
    <2> HIDE DEF W
    <2> QED  BY <1>3, <1>13, <1>14, <1>15 DEF Fits
  <1>17. ASSUME ~NicChange(p) PROVE Fits(fwNext[n], n) /\ Fits(fwCur[n], n)
    <2>1. ~TotalVfsChange(p) /\ ~EnableSriov(p) /\ LinkChange(n) = {}
      BY <1>11, <1>17 DEF NicChange
    <2>2. fwCur[n].en = TRUE /\ fwNext[n].en = TRUE
      BY <1>6, <2>1
    <2>3. ~mspec[p].ext => T = fwCur[n].vfs /\ T = fwNext[n].vfs
      BY <1>10, <2>1
    <2>4. ASSUME NEW q \in InSpec(n)
          PROVE  mspec[q].link \in {"", fwCur[n].link[q]} /\ mspec[q].link \in {"", fwNext[n].link[q]}
      <3>1. mspec[q].link \in {"", fwCur[n].link[q]}
        BY <1>8, <2>1
      <3> QED  BY <3>1, LinkStays
    <2> QED  BY <1>1, <1>3, <2>2, <2>3, <2>4 DEF Fits
  <1>18. ASSUME Fits(fwCur[n], n) PROVE ~NicNeedReboot(p)
    <2>1. fwCur[n].en = TRUE /\ (~mspec[p].ext => fwCur[n].vfs = T)
      BY <1>18 DEF Fits
    <2>2. ~EnableNeedReboot(p) /\ ~TotalVfsNeedReboot(p)
      BY <1>7, <1>9, <1>10, <2>1
    <2>3. LinkChange(n) = {}
      BY <1>1, <1>8, <1>9, <1>18 DEF Fits
    <2> QED  BY <1>11, <2>2, <2>3
  <1>19. ASSUME NEW q \in DOMAIN NicAttrs(p).link PROVE Asked(q, NicAttrs(p).link[q])
    <2>1. q \in InSpec(n) /\ mspec[q].link # "" /\ NicAttrs(p).link[q] = mspec[q].link
      BY <1>8, <1>12
    <2> QED  BY <1>1, <1>2, <2>1 DEF Asked
  <1> QED  BY <1>16, <1>17, <1>18, <1>19

LEMMA InitTracking ==
  ASSUME MlxInit PROVE TrackTypes /\ RebootInv
  <1>1. /\ mspec = Nothing /\ mgen = 1 /\ mfaults = 0 /\ mtracker.gen = 0 /\ mtracker.count = 0
        /\ mdone = 0 /\ mcur.gen = 0 /\ mpc = "idle" /\ toReset = {} /\ fwNext = fwCur
        /\ fwCur = [n \in Nic |-> [vfs |-> 1, en |-> n \in Dual, link |-> [p \in Ports(n) |-> "ETH"]]]
    BY DEF MlxInit
  <1>2. ASSUME NEW n \in Nic PROVE fwCur[n].en \in BOOLEAN /\ DOMAIN fwCur[n].link = Ports(n)
    <2>1. fwCur[n] = [vfs |-> 1, en |-> n \in Dual, link |-> [p \in Ports(n) |-> "ETH"]]
      BY <1>1
    <2>2. DOMAIN fwCur[n].link = Ports(n)
      <3>1. fwCur[n].link = [p \in Ports(n) |-> "ETH"]
        BY <2>1, SMTT(30)
      <3> QED  BY <3>1
    <2>3. fwCur[n].en \in BOOLEAN
      BY <2>1, SMTT(30)
    <2> QED  BY <2>2, <2>3
  <1>3. 0 \in 0 .. mgen /\ 0 \in 0 .. MaxMReboots /\ mgen \in Nat /\ 0 \in Nat /\ 0 <= 1 /\ mcur.gen # mgen
    BY <1>1, MlxAssumption, SMTT(30)
  <1>4. DOMAIN fwCur = Nic
    BY <1>1
  <1>5. TrackTypes
    BY <1>1, <1>2, <1>3, <1>4 DEF TrackTypes
  <1> QED  BY <1>1, <1>3, <1>5 DEF RebootInv, LinkInv, WriteInv, TrackInv

LEMMA TypesKept ==
  ASSUME TrackTypes, MlxNext PROVE TrackTypes'
  <1> USE DEF TrackTypes
  <1>1. ASSUME NEW last \in Nic, OnNodeStateChangeLast(last) PROVE TrackTypes'
    <2>1. /\ mcur'.gen = mgen /\ mpc' = "fw"
          /\ UNCHANGED <<mspec, mgen, fwCur, fwNext, mtracker, mdone, mfaults>>
      BY <1>1 DEF OnNodeStateChangeLast, mEnv
    <2>2. toReset' \subseteq Nic
      BY <1>1 DEF OnNodeStateChangeLast, Compare, SpecNics
    <2>3. mgen \in 0 .. mgen /\ mtracker.gen <= mgen
      BY SMTT(30)
    <2> QED  BY <2>1, <2>2, <2>3
  <1>2. ASSUME NEW n \in Nic, MlxConfigFW(n) PROVE TrackTypes'
    <2>1. /\ UNCHANGED <<mspec, mgen, fwCur, mtracker, mcur, mdone, mfaults, toReset>>
          /\ mpc' \in {mpc, "idle"}
      BY <1>2 DEF MlxConfigFW, mEnv
    <2>2. fwNext' = fwNext \/ fwNext' = [fwNext EXCEPT ![n] = Written(fwNext[n], attrs[n])]
      BY <1>2 DEF MlxConfigFW
    <2>3. LET w == Written(fwNext[n], attrs[n]) IN w.en \in BOOLEAN /\ DOMAIN w.link = Ports(n)
      BY DEF Written
    <2>4. /\ DOMAIN fwNext' = Nic
          /\ \A m \in Nic : fwNext'[m].en \in BOOLEAN /\ DOMAIN fwNext'[m].link = Ports(m)
      BY <2>2, <2>3
    <2> QED  BY <2>1, <2>4
  <1>3. CASE MlxResetFW
    <2>1. /\ UNCHANGED <<mspec, mgen, fwNext, mtracker, mcur, mdone, mfaults>>
          /\ mpc' = "main" /\ toReset' = {} /\ mpc = "fw"
      BY <1>3 DEF MlxResetFW, mEnv
    <2>2. DOMAIN fwCur' = Nic /\ \A n \in Nic : fwCur'[n] = fwNext[n] \/ fwCur'[n] = fwCur[n]
      BY <1>3 DEF MlxResetFW
    <2> QED  BY <2>1, <2>2
  <1>4. ASSUME MBoot PROVE /\ DOMAIN fwCur' = Nic /\ \A n \in Nic : fwCur'[n].en \in BOOLEAN
                           /\ mcur'.gen = 0 /\ toReset' = {} /\ mpc' = "idle" /\ mdone' = 0
    BY <1>4 DEF MBoot, MForget
  <1>5. 0 \in 0 .. mgen /\ 0 \in 0 .. MaxMReboots
    BY MlxAssumption, SMTT(30)
  <1>6. CASE MReboot
    <2>1. UNCHANGED <<mspec, mgen, fwNext, mfaults>>
      BY <1>6 DEF MReboot, mEnv
    <2>2. CASE /\ MRebootCount < MaxMReboots /\ MBoot
               /\ mtracker' = [gen |-> mcur.gen, count |-> MRebootCount + 1]
      <3>1. MRebootCount \in Nat
        <4>1. mtracker.count \in Nat /\ 0 \in Nat
          BY SMTT(30)
        <4> QED  BY <4>1, ZenonT(60) DEF MRebootCount
      <3>2. MRebootCount + 1 \in 0 .. MaxMReboots
        BY <2>2, <3>1, MlxAssumption, SMTT(30)
      <3>3. mtracker'.gen = mcur.gen /\ mtracker'.count = MRebootCount + 1
        BY <2>2
      <3> QED  BY <1>4, <1>5, <2>1, <2>2, <3>2, <3>3, ZenonT(60)
    <2>3. CASE mpc' = "idle" /\ MForget /\ UNCHANGED <<fwCur, mtracker, mdone>>
      <3>1. mcur'.gen = 0 /\ toReset' = {}
        BY <2>3 DEF MForget
      <3> QED  BY <1>5, <2>1, <2>3, <3>1
    <2> QED  BY <1>6, <2>2, <2>3 DEF MReboot
  <1>7. CASE GenericApply
    <2>1. /\ UNCHANGED <<mspec, mgen, fwCur, fwNext, mfaults>>
          /\ mpc' = "idle" /\ mcur'.gen = 0 /\ toReset' = {}
      BY <1>7 DEF GenericApply, mEnv, MForget
    <2>2. \/ UNCHANGED <<mdone, mtracker>>
          \/ mdone' = mcur.gen /\ mtracker' = [gen |-> mcur.gen, count |-> 0]
      BY <1>7 DEF GenericApply
    <2>3. mdone' \in 0 .. mgen /\ mtracker'.gen \in 0 .. mgen /\ mtracker'.count \in 0 .. MaxMReboots
      <3>1. CASE mdone' = mcur.gen /\ mtracker' = [gen |-> mcur.gen, count |-> 0]
        <4>1. mtracker'.gen = mcur.gen /\ mtracker'.count = 0
          BY <3>1
        <4> QED  BY <1>5, <3>1, <4>1
      <3> QED  BY <2>2, <3>1
    <2> QED  BY <1>5, <2>1, <2>3
  <1>8. CASE MCallFails \/ MDaemonEnds \/ MPowerLoss
    <2>1. UNCHANGED <<mspec, mgen, fwNext, mtracker>> /\ mfaults' = mfaults + 1
      BY <1>8, ZenonT(60) DEF MCallFails, MDaemonEnds, MPowerLoss, mEnv, MFault
    <2>2. mfaults' \in Nat
      BY <2>1, SMTT(30)
    <2>3. /\ mpc' = "idle" /\ mcur'.gen = 0 /\ toReset' = {} /\ mdone' \in {mdone, 0}
          /\ DOMAIN fwCur' = Nic /\ \A n \in Nic : fwCur'[n].en \in BOOLEAN
      <3>1. CASE MPowerLoss
        BY <1>4, <3>1 DEF MPowerLoss
      <3>2. CASE MCallFails \/ MDaemonEnds
        <4>1. mpc' = "idle" /\ MForget /\ mdone' \in {mdone, 0} /\ fwCur' = fwCur
          BY <3>2 DEF MCallFails, MDaemonEnds
        <4>2. mcur'.gen = 0 /\ toReset' = {}
          BY <4>1 DEF MForget
        <4> QED  BY <4>1, <4>2
      <3> QED  BY <1>8, <3>1, <3>2
    <2> QED  BY <1>5, <2>1, <2>2, <2>3
  <1>9. CASE MNewSpec
    <2>1. /\ UNCHANGED <<fwCur, fwNext, mtracker, mpc, mcur, toReset, mdone, mfaults>>
          /\ mspec' \in MSpec /\ mgen' = mgen + 1
      BY <1>9, ZenonT(60) DEF MNewSpec, mLocal
    <2>2. mgen' \in Nat /\ \A k \in 0 .. mgen : k \in 0 .. mgen'
      BY <2>1, SMTT(30)
    <2> QED  BY <2>1, <2>2
  <1> QED  BY <1>1, <1>2, <1>3, <1>6, <1>7, <1>8, <1>9, ZenonT(60) DEF MlxNext, MlxStep

LEMMA SameFits ==
  ASSUME mspec' = mspec
  PROVE  SpecNics' = SpecNics /\ \A fw, n : Fits(fw, n)' <=> Fits(fw, n)
  <1>1. \A n : InSpec(n)' = InSpec(n)
    BY DEF InSpec
  <1>2. \A p : TotalVfs(p)' = TotalVfs(p)
    BY <1>1 DEF TotalVfs
  <1> QED  BY <1>1, <1>2 DEF SpecNics, Fits

LEMMA CompareKeeps ==
  ASSUME OrdinarySpecs, TrackTypes, RebootInv, NEW last \in Nic, OnNodeStateChangeLast(last)
  PROVE  RebootInv'
  <1>1. /\ mcur'.gen = mgen /\ mpc' = "fw"
        /\ UNCHANGED <<mspec, mgen, dpu, fwCur, fwNext, mtracker, mfaults>>
    BY DEF OnNodeStateChangeLast, mEnv, mHost
  <1>2. SpecNics' = SpecNics /\ \A fw, n : Fits(fw, n)' <=> Fits(fw, n)
    BY <1>1, SameFits
  <1>3. \A n \in Nic : \A p \in Ports(n) :
          fwNext'[n].link[p] # fwCur'[n].link[p] => Asked(p, fwNext'[n].link[p])
    BY <1>1 DEF RebootInv, LinkInv
  <1>4. CASE lockdown
    <2>1. SpecNics = {} /\ attrs' = Nothing /\ mreboot' = FALSE
      BY <1>4 DEF OnNodeStateChangeLast
    <2>2. DOMAIN attrs' = {}
      BY <2>1 DEF Nothing
    <2>3. LinkInv'
      BY <1>3, <2>2 DEF LinkInv, Asked
    <2>4. WriteInv'
      BY <1>2, <2>1 DEF WriteInv
    <2>5. TrackInv'
      BY <1>1, <1>2, <2>1 DEF TrackInv, RebootInv
    <2> QED  BY <2>3, <2>4, <2>5 DEF RebootInv
  <1>5. CASE ~lockdown
    <2>1. PICK via \in [SpecNics -> Port] :
            /\ \A n \in SpecNics : via[n] \in InSpec(n)
            /\ last \in SpecNics \/ SpecNics = {}
            /\ mreboot' = (SpecNics # {} /\ NicNeedReboot(via[last]))
            /\ Compare(via)
      BY <1>5 DEF OnNodeStateChangeLast
    <2> DEFINE changed == {n \in SpecNics : NicChange(via[n])}
               cleared == {m \in Nic : Cleared(m)}
    <2>2. attrs' = [n \in changed \cup cleared |-> IF n \in changed THEN NicAttrs(via[n]) ELSE ClearAttrs]
      BY <2>1 DEF Compare
    <2>3. ASSUME NEW n \in SpecNics
          PROVE  /\ n \in Nic /\ via[n] \in InSpec(n) /\ ~NicError(via[n]) /\ n \notin cleared
      BY <2>1 DEF SpecNics, Compare, Cleared
    <2>4. ASSUME NEW n \in SpecNics
          PROVE  /\ NicChange(via[n]) => Fits(Written(fwNext[n], NicAttrs(via[n])), n)
                 /\ ~NicChange(via[n]) => Fits(fwNext[n], n) /\ Fits(fwCur[n], n)
                 /\ Fits(fwCur[n], n) => ~NicNeedReboot(via[n])
                 /\ \A q \in DOMAIN NicAttrs(via[n]).link : Asked(q, NicAttrs(via[n]).link[q])
      BY <2>3, Comparison DEF RebootInv
    <2>5. ASSUME NEW n \in DOMAIN attrs', NEW q \in DOMAIN attrs'[n].link PROVE Asked(q, attrs'[n].link[q])
      <3>1. CASE n \in changed
        <4>1. attrs'[n] = NicAttrs(via[n]) /\ n \in SpecNics
          BY <2>2, <3>1
        <4> QED  BY <2>4, <2>5, <4>1
      <3>2. CASE n \notin changed
        <4>1. attrs'[n] = ClearAttrs
          BY <2>2, <2>5, <3>2
        <4>2. ClearAttrs.link = Nothing /\ DOMAIN Nothing = {}
          BY DEF ClearAttrs, Nothing
        <4> QED  BY <2>5, <4>1, <4>2
      <3> QED  BY <3>1, <3>2
    <2>6. LinkInv'
      BY <1>3, <2>5 DEF LinkInv, Asked
    <2>7. WriteInv'
      <3> SUFFICES ASSUME NEW n \in SpecNics
                   PROVE  /\ n \in DOMAIN attrs' => Fits(Written(fwNext[n], attrs'[n]), n)
                          /\ n \notin DOMAIN attrs' => Fits(fwNext[n], n) /\ Fits(fwCur[n], n)
        BY <1>1, <1>2 DEF WriteInv
      <3>1. n \in DOMAIN attrs' <=> NicChange(via[n])
        BY <2>2, <2>3
      <3>2. n \in DOMAIN attrs' => attrs'[n] = NicAttrs(via[n])
        BY <2>2, <3>1
      <3> QED  BY <2>4, <3>1, <3>2
    <2>8. TrackInv'
      <3> SUFFICES ASSUME mfaults = 0, mtracker.gen = mgen, mtracker.count # 0
                   PROVE  (\A n \in SpecNics : Fits(fwCur[n], n)) /\ ~mreboot'
        BY <1>1, <1>2 DEF TrackInv, RebootInv
      <3>1. \A n \in SpecNics : Fits(fwCur[n], n)
        BY DEF RebootInv, TrackInv
      <3> QED  BY <2>1, <2>4, <3>1
    <2> QED  BY <2>6, <2>7, <2>8 DEF RebootInv
  <1> QED  BY <1>4, <1>5

LEMMA WriteKeeps ==
  ASSUME TrackTypes, DOMAIN attrs \subseteq Nic, RebootInv, NEW n \in Nic, MlxConfigFW(n)
  PROVE  RebootInv'
  <1>1. UNCHANGED <<mspec, mgen, dpu, fwCur, mtracker, mcur, mreboot, mfaults>> /\ mpc = "fw" /\ n \in DOMAIN attrs
    BY DEF MlxConfigFW, mEnv, mHost
  <1>2. SpecNics' = SpecNics /\ \A fw, m : Fits(fw, m)' <=> Fits(fw, m)
    BY <1>1, SameFits
  <1>3. TrackInv'
    <2>1. mpc' # "idle" => mpc # "idle"
      BY <1>1
    <2> QED  BY <1>1, <1>2, <2>1 DEF TrackInv, RebootInv
  <1>4. CASE n \in dpu
    <2>1. mpc' = "idle" /\ UNCHANGED <<fwNext, attrs>>
      BY <1>4 DEF MlxConfigFW
    <2>2. LinkInv'
      BY <1>1, <2>1 DEF LinkInv, RebootInv, Asked
    <2>3. WriteInv'
      BY <2>1 DEF WriteInv
    <2> QED  BY <1>3, <2>2, <2>3 DEF RebootInv
  <1>5. CASE n \notin dpu
    <2>1. /\ fwNext' = [fwNext EXCEPT ![n] = Written(fwNext[n], attrs[n])] /\ mpc' = "fw"
          /\ attrs' = Restrict(attrs, DOMAIN attrs \ {n})
      BY <1>1, <1>5 DEF MlxConfigFW
    <2>2. DOMAIN attrs' = DOMAIN attrs \ {n} /\ \A m \in DOMAIN attrs' : attrs'[m] = attrs[m]
      BY <2>1 DEF Restrict
    <2>3. fwNext'[n] = Written(fwNext[n], attrs[n]) /\ \A m \in Nic \ {n} : fwNext'[m] = fwNext[m]
      BY <2>1 DEF TrackTypes
    <2>4. LinkInv'
      <3>1. ASSUME NEW m \in Nic, NEW p \in Ports(m), fwNext'[m].link[p] # fwCur[m].link[p]
            PROVE  Asked(p, fwNext'[m].link[p])
        <4>1. CASE m # n
          BY <2>3, <3>1, <4>1 DEF RebootInv, LinkInv
        <4>2. CASE m = n
          <5>1. DOMAIN fwNext[n].link = Ports(n)
            BY DEF TrackTypes
          <5>2. Written(fwNext[n], attrs[n]).link[p] =
                  IF p \in DOMAIN attrs[n].link THEN attrs[n].link[p] ELSE fwNext[n].link[p]
            BY <4>2, <5>1 DEF Written
          <5>3. fwNext'[m].link[p] = Written(fwNext[n], attrs[n]).link[p]
            BY <2>3, <4>2
          <5> QED  BY <1>1, <3>1, <4>2, <5>2, <5>3 DEF RebootInv, LinkInv
        <4> QED  BY <4>1, <4>2
      <3>2. \A m \in DOMAIN attrs' : \A p \in DOMAIN attrs'[m].link : Asked(p, attrs'[m].link[p])
        BY <1>1, <2>2 DEF RebootInv, LinkInv
      <3> QED  BY <1>1, <3>1, <3>2 DEF LinkInv, Asked
    <2>5. WriteInv'
      <3> SUFFICES ASSUME mcur.gen = mgen, NEW m \in SpecNics
                   PROVE  /\ m \in DOMAIN attrs' => Fits(Written(fwNext'[m], attrs'[m]), m)
                          /\ m \notin DOMAIN attrs' => Fits(fwNext'[m], m) /\ (m \in dpu => Fits(fwCur[m], m))
        BY <1>1, <1>2, <2>1 DEF WriteInv
      <3>1. /\ m \in DOMAIN attrs => Fits(Written(fwNext[m], attrs[m]), m)
            /\ m \notin DOMAIN attrs => Fits(fwNext[m], m) /\ (m \in dpu => Fits(fwCur[m], m))
        BY <1>1 DEF RebootInv, WriteInv
      <3>2. CASE m = n
        BY <1>1, <1>5, <2>2, <2>3, <3>1, <3>2, ZenonT(60)
      <3>3. CASE m # n
        <4>1. m \in Nic
          BY DEF SpecNics
        <4>2. fwNext'[m] = fwNext[m] /\ (m \in DOMAIN attrs' <=> m \in DOMAIN attrs)
          BY <2>2, <2>3, <3>3, <4>1
        <4> QED  BY <2>2, <3>1, <4>2
      <3> QED  BY <3>2, <3>3
    <2> QED  BY <1>3, <2>4, <2>5 DEF RebootInv
  <1> QED  BY <1>4, <1>5

(* A boot at the current generation brings what fits; a step that leaves    *)
(* the firmware alone and returns to idle keeps what is known of it.        *)
LEMMA ResetKeeps ==
  ASSUME TrackTypes, RebootInv, MlxResetFW
  PROVE  RebootInv'
  <1>1. /\ UNCHANGED <<mspec, mgen, dpu, fwNext, mtracker, mcur, mreboot, mfaults>> /\ mpc = "fw"
        /\ mpc' = "main" /\ attrs = Nothing
    BY DEF MlxResetFW, mEnv, mHost
  <1>2. SpecNics' = SpecNics /\ \A fw, m : Fits(fw, m)' <=> Fits(fw, m)
    BY <1>1, SameFits
  <1>3. \A n \in Nic : fwCur'[n] = fwNext[n] \/ fwCur'[n] = fwCur[n]
    BY DEF MlxResetFW
  <1>4. SpecNics \subseteq Nic /\ DOMAIN attrs = {}
    BY <1>1 DEF SpecNics, Nothing
  <1>5. ASSUME mcur.gen = mgen, NEW n \in SpecNics
        PROVE  /\ Fits(fwNext[n], n) /\ (n \in dpu => Fits(fwCur[n], n))
               /\ Fits(fwCur[n], n) => Fits(fwCur'[n], n)
               /\ n \in dpu => Fits(fwCur'[n], n)
    <2>1. Fits(fwNext[n], n) /\ (n \in dpu => Fits(fwCur[n], n))
      BY <1>1, <1>4, <1>5 DEF RebootInv, WriteInv
    <2>2. fwCur'[n] = fwNext[n] \/ fwCur'[n] = fwCur[n]
      BY <1>3, <1>4
    <2> QED  BY <2>1, <2>2
  <1>6. LinkInv'
    <2>1. ASSUME NEW n \in Nic, NEW p \in Ports(n), fwNext'[n].link[p] # fwCur'[n].link[p]
          PROVE  Asked(p, fwNext'[n].link[p])
      BY <1>1, <1>3, <2>1 DEF RebootInv, LinkInv
    <2> QED  BY <1>1, <2>1 DEF LinkInv, Asked
  <1>7. WriteInv'
    BY <1>1, <1>2, <1>5 DEF WriteInv
  <1>8. TrackInv'
    <2> SUFFICES ASSUME mfaults = 0
                 PROVE  /\ mtracker.gen = mgen /\ mtracker.count # 0 => \A n \in SpecNics : Fits(fwCur'[n], n)
                        /\ mtracker.gen = mcur.gen /\ mtracker.count # 0 => ~mreboot
                        /\ mtracker.count <= 1
      BY <1>1, <1>2 DEF TrackInv
    <2>1. /\ mtracker.gen = mgen /\ mtracker.count # 0 => \A n \in SpecNics : Fits(fwCur[n], n)
          /\ mtracker.gen = mcur.gen /\ mtracker.count # 0 => ~mreboot
          /\ mtracker.count <= 1
      BY <1>1 DEF TrackInv, RebootInv
    <2>2. mtracker.gen = mgen => mcur.gen = mgen
      <3>1. mtracker.gen <= mcur.gen /\ mcur.gen \in 0 .. mgen /\ mgen \in Nat
        BY <1>1 DEF TrackTypes
      <3> QED  BY <3>1, SMTT(30)
    <2> QED  BY <1>5, <2>1, <2>2
  <1> QED  BY <1>6, <1>7, <1>8 DEF RebootInv

LEMMA RebootKeeps ==
  ASSUME TrackTypes, RebootInv, MReboot
  PROVE  RebootInv'
  <1>1. UNCHANGED <<mspec, mgen, dpu, fwNext, mfaults>> /\ mpc = "main" /\ mpc' = "idle" /\ mreboot
    BY DEF MReboot, MBoot, mEnv, mHost
  <1>2. SpecNics' = SpecNics /\ \A fw, m : Fits(fw, m)' <=> Fits(fw, m)
    BY <1>1, SameFits
  <1>3. SpecNics \subseteq Nic
    BY DEF SpecNics
  <1>4. WriteInv'
    BY <1>1 DEF WriteInv
  <1>5. CASE mtracker' = [gen |-> mcur.gen, count |-> MRebootCount + 1] /\ MBoot
    <2>1. \A n \in Nic : fwCur'[n] = IF n \in dpu THEN fwCur[n] ELSE fwNext[n]
      BY <1>5 DEF MBoot
    <2>2. LinkInv'
      <3>1. ASSUME NEW n \in Nic, NEW p \in Ports(n), fwNext'[n].link[p] # fwCur'[n].link[p]
            PROVE  Asked(p, fwNext'[n].link[p])
        BY <1>1, <2>1, <3>1 DEF RebootInv, LinkInv
      <3> QED  BY <1>1, <3>1 DEF LinkInv, Asked
    <2>3. mtracker'.gen = mcur.gen /\ mtracker'.count = MRebootCount + 1
      BY <1>5
    <2>4. ASSUME mcur.gen = mgen, NEW n \in SpecNics PROVE Fits(fwCur'[n], n)
      <3>1. Fits(fwNext[n], n) /\ (n \in dpu => Fits(fwCur[n], n))
        BY <1>1, <2>4 DEF RebootInv, WriteInv
      <3>2. fwCur'[n] = IF n \in dpu THEN fwCur[n] ELSE fwNext[n]
        BY <1>3, <2>1
      <3> QED  BY <3>1, <3>2
    <2>5. mfaults = 0 => MRebootCount = 0
      BY <1>1 DEF MRebootCount, RebootInv, TrackInv
    <2>6. mfaults = 0 => mtracker'.count <= 1
      BY <2>3, <2>5, SMTT(30)
    <2>7. TrackInv'
      BY <1>1, <1>2, <2>3, <2>4, <2>6, ZenonT(60) DEF TrackInv
    <2> QED  BY <1>4, <2>2, <2>7 DEF RebootInv
  <1>6. CASE UNCHANGED <<fwCur, mtracker>>
    <2>1. LinkInv'
      BY <1>1, <1>6 DEF RebootInv, LinkInv, Asked
    <2>2. TrackInv'
      BY <1>1, <1>2, <1>6 DEF RebootInv, TrackInv
    <2> QED  BY <1>4, <2>1, <2>2 DEF RebootInv
  <1> QED  BY <1>5, <1>6 DEF MReboot

LEMMA OtherKeeps ==
  ASSUME TrackTypes, RebootInv, GenericApply \/ MCallFails \/ MDaemonEnds \/ MPowerLoss
  PROVE  RebootInv'
  <1>1. UNCHANGED <<mspec, mgen, fwNext>> /\ mpc' = "idle"
    BY DEF GenericApply, MCallFails, MDaemonEnds, MPowerLoss, MBoot, mEnv
  <1>2. SpecNics' = SpecNics /\ \A fw, m : Fits(fw, m)' <=> Fits(fw, m)
    BY <1>1, SameFits
  <1>3. WriteInv'
    BY <1>1 DEF WriteInv
  <1>4. LinkInv'
    <2>1. \A n \in Nic : fwCur'[n] = fwNext[n] \/ fwCur'[n] = fwCur[n]
      BY DEF GenericApply, MCallFails, MDaemonEnds, MPowerLoss, MBoot
    <2>2. ASSUME NEW n \in Nic, NEW p \in Ports(n), fwNext'[n].link[p] # fwCur'[n].link[p]
          PROVE  Asked(p, fwNext'[n].link[p])
      BY <1>1, <2>1, <2>2 DEF RebootInv, LinkInv
    <2> QED  BY <1>1, <2>2 DEF LinkInv, Asked
  <1>5. CASE GenericApply
    <2>1. UNCHANGED <<fwCur, mfaults>> /\ (mtracker' = mtracker \/ mtracker' = [gen |-> mcur.gen, count |-> 0])
      BY <1>5 DEF GenericApply
    <2>2. CASE mtracker' = mtracker
      <3>1. TrackInv'
        BY <1>1, <1>2, <2>1, <2>2, ZenonT(60) DEF RebootInv, TrackInv
      <3> QED  BY <1>3, <1>4, <3>1 DEF RebootInv
    <2>3. CASE mtracker' = [gen |-> mcur.gen, count |-> 0]
      <3>1. mtracker'.count = 0 /\ 0 <= 1
        BY <2>3, SMTT(30)
      <3>2. TrackInv'
        BY <3>1 DEF TrackInv
      <3> QED  BY <1>3, <1>4, <3>2 DEF RebootInv
    <2> QED  BY <2>1, <2>2, <2>3
  <1>6. CASE MCallFails \/ MDaemonEnds \/ MPowerLoss
    <2>1. mfaults' = mfaults + 1 /\ mfaults \in Nat
      BY <1>6 DEF MCallFails, MDaemonEnds, MPowerLoss, MFault, TrackTypes
    <2>2. mfaults' # 0
      BY <2>1, SMTT(30)
    <2> QED  BY <1>3, <1>4, <2>2 DEF RebootInv, TrackInv
  <1> QED  BY <1>5, <1>6

LEMMA NewSpecKeeps ==
  ASSUME TrackTypes, RebootInv, MNewSpec
  PROVE  RebootInv'
  <1>1. UNCHANGED <<fwCur, fwNext, mtracker, mpc, mcur, attrs, mreboot, mfaults>> /\ mgen' = mgen + 1
    BY DEF MNewSpec, mLocal
  <1>2. mcur.gen # mgen' /\ mtracker.gen # mgen'
    <2>1. mcur.gen \in 0 .. mgen /\ mtracker.gen \in 0 .. mgen /\ mgen \in Nat
      BY DEF TrackTypes
    <2> QED  BY <1>1, <2>1, SMTT(30)
  <1>3. LinkInv'
    BY <1>1 DEF RebootInv, LinkInv, Asked
  <1>4. WriteInv'
    BY <1>1, <1>2 DEF WriteInv
  <1>5. TrackInv'
    BY <1>1, <1>2 DEF RebootInv, TrackInv
  <1> QED  BY <1>3, <1>4, <1>5 DEF RebootInv

(* One reboot per generation, for any number of NICs and any sequence of    *)
(* ordinary specs: needReboot is decided by the NIC that comes last and by  *)
(* either of its ports, values wait in the firmware for a boot that another *)
(* spec may ask for, and still the boot brings all the generation needs.    *)
THEOREM OneReboot == MlxSpec => []OneRebootEnough
  <1> DEFINE Inv == FirmwareInv /\ TrackTypes /\ (OrdinarySpecs => RebootInv)
  <1>1. MlxInit => Inv
    BY InitFirmware, InitTracking
  <1>2. Inv /\ [MlxNext]_mVars => Inv'
    <2> SUFFICES ASSUME Inv, [MlxNext]_mVars PROVE Inv'
      OBVIOUS
    <2>1. CASE UNCHANGED mVars
      <3>1. FirmwareInv'
        BY <2>1, ZenonT(60) DEF mVars, mLocal, FirmwareInv, Allowed, Named, Own
      <3>2. /\ UNCHANGED <<mspec, mgen, dpu, fwCur, fwNext, mtracker, mpc, mcur, attrs, toReset, mreboot>>
            /\ UNCHANGED <<mdone, mfaults>>
        BY <2>1 DEF mVars, mEnv, mHost, mLocal
      <3>3. TrackTypes'
        BY <3>2 DEF TrackTypes
      <3>4. SpecNics' = SpecNics /\ \A fw, n : Fits(fw, n)' <=> Fits(fw, n)
        BY <3>2, SameFits
      <3>5. RebootInv => LinkInv' /\ WriteInv'
        BY <3>2, <3>4 DEF RebootInv, LinkInv, Asked, WriteInv
      <3>6. RebootInv => TrackInv'
        BY <3>2, <3>4 DEF RebootInv, TrackInv
      <3> QED  BY <3>1, <3>3, <3>5, <3>6 DEF RebootInv, OrdinarySpecs
    <2>2. CASE MlxNext
      <3>1. FirmwareInv' /\ TrackTypes'
        BY <2>2, FirmwareSteps, TypesKept
      <3>2. ASSUME OrdinarySpecs PROVE RebootInv'
        <4>1. DOMAIN attrs \subseteq Nic
          BY DEF FirmwareInv
        <4> QED  BY <2>2, <3>2, <4>1, CompareKeeps, WriteKeeps, ResetKeeps, RebootKeeps, OtherKeeps, NewSpecKeeps,
                    ZenonT(60)
              DEF MlxNext, MlxStep
      <3> QED  BY <3>1, <3>2 DEF OrdinarySpecs
    <2> QED  BY <2>1, <2>2
  <1>3. Inv => OneRebootEnough
    BY DEF OneRebootEnough, FirmwareInv, TrackTypes, RebootInv, TrackInv
  <1> QED  BY <1>1, <1>2, <1>3, PTL DEF MlxSpec

-----------------------------------------------------------------------------
(* Types and counters. The systemd mode: the daemon works with a generation *)
(* that exists, so that no later one is recorded or counted for.            *)
CounterInv ==
    /\ changes \in Nat /\ changes <= MaxChanges /\ 1 <= spec.gen /\ spec.gen <= 1 + changes
    /\ dSpec.gen <= spec.gen
    /\ tracker \in [gen : Nat, count : 0 .. MaxReboots] /\ tracker.gen <= spec.gen
    /\ lastApplied \in Nat /\ lastApplied <= spec.gen
KindInv ==
    /\ host \in Value /\ dropin \in BOOLEAN /\ nics \in BOOLEAN /\ queued \in BOOLEAN
    /\ drain \in {"idle", "requested", "complete"}

(* Only ChangeSpec changes the generation; only a reboot below the limit    *)
(* counts, also one that does not come; the locals are copies.              *)
LEMMA CounterCases ==
    ASSUME SystemdNext
    PROVE  /\ ChangeSpec \/ (spec' = spec /\ (changes' = changes \/ Change))
           /\ dSpec' \in {dSpec, spec, NoSpec}
           /\ \/ tracker' = tracker
              \/ tracker' = [gen |-> dSpec.gen, count |-> 0]
              \/ BelowLimit /\ tracker' = [gen |-> dSpec.gen, count |-> GetRebootCount + 1]
           /\ lastApplied' \in {lastApplied, 0, dSpec.gen}
<1> USE DEF SystemdNext, ServiceStep, DaemonStep, files, local, daemon
<1> USE DEF NoUnit, NewServiceConfig, InitSupportedNics, PhasePre, PhasePost, CallPlugin,
            ServiceFails, ServiceRest
<1> USE DEF CleanSriovFilesFromHost, CleanFails, Reconcile, StatusCheckFails,
            CheckOnNodeStateChange, CreateConfFile, WriteConfFile, RemoveSriovResult,
            WriteSriovSupportedNics, HandleDrain, DaemonRest, Forget, Restart
<1> USE DEF K8sApply, ApplyMain, RebootLimitReached, RebootNode, RebootIf, Reboot, Publish,
            DrainCompletes, DaemonFails, PowerLoss, HalfDone, ChangeSpec, Upgrade, SwitchMode
<1>1. ChangeSpec \/ (spec' = spec /\ (changes' = changes \/ Change))
  OBVIOUS
<1>2. dSpec' \in {dSpec, spec, NoSpec}
  OBVIOUS
<1>3. \/ tracker' = tracker
      \/ tracker' = [gen |-> dSpec.gen, count |-> 0]
      \/ BelowLimit /\ tracker' = [gen |-> dSpec.gen, count |-> GetRebootCount + 1]
  OBVIOUS
<1>4. lastApplied' \in {lastApplied, 0, dSpec.gen}
  BY ZenonT(60)
<1> QED  BY <1>1, <1>2, <1>3, <1>4, ZenonT(60)

LEMMA KindCases ==
    ASSUME SystemdNext
    PROVE  /\ \/ host' \in {host, 0, dSpec.val}
              \/ boot # "up" /\ spc = "apply" /\ host' = conf /\ conf # NoFile
           /\ dropin' = dropin \/ dropin' \in BOOLEAN
           /\ nics' = nics \/ nics' \in BOOLEAN
           /\ queued' = queued \/ queued' \in BOOLEAN
           /\ drain' = drain \/ drain' \in {"idle", "requested", "complete"}
<1> USE DEF SystemdNext, ServiceStep, DaemonStep, files, local, daemon
<1> USE DEF NoUnit, NewServiceConfig, InitSupportedNics, PhasePre, PhasePost, CallPlugin,
            ServiceFails, ServiceRest
<1> USE DEF CleanSriovFilesFromHost, CleanFails, Reconcile, StatusCheckFails,
            CheckOnNodeStateChange, CreateConfFile, WriteConfFile, RemoveSriovResult,
            WriteSriovSupportedNics, HandleDrain, DaemonRest, Forget, Restart
<1> USE DEF K8sApply, ApplyMain, RebootLimitReached, RebootNode, RebootIf, Reboot, Publish,
            DrainCompletes, DaemonFails, PowerLoss, HalfDone, ChangeSpec, Upgrade, SwitchMode
<1>1. \/ host' \in {host, 0, dSpec.val}
      \/ boot # "up" /\ spc = "apply" /\ host' = conf /\ conf # NoFile
  BY ZenonT(60)
<1>2. dropin' = dropin \/ dropin' \in BOOLEAN
  BY ZenonT(60)
<1>3. nics' = nics \/ nics' \in BOOLEAN
  BY ZenonT(60)
<1>4. queued' = queued \/ queued' \in BOOLEAN
  OBVIOUS
<1>5. drain' = drain \/ drain' \in {"idle", "requested", "complete"}
  OBVIOUS
<1> QED  BY <1>1, <1>2, <1>3, <1>4, <1>5, ZenonT(60)

LEMMA CountersKept ==
    ASSUME SystemdInv, CounterInv, SystemdNext
    PROVE  CounterInv'
<1>0. /\ spec.gen \in Nat /\ dSpec.gen \in Nat /\ spec'.gen \in Nat
      /\ tracker.gen \in Nat /\ tracker.count \in 0 .. MaxReboots
      /\ MaxChanges \in Nat /\ MaxReboots \in Nat
  <2>1. SystemdInv'
    BY NextSystemd
  <2> QED  BY <2>1, SystemdAssumption, SMTT(30) DEF SystemdInv, SystemdTypes, SpecOf, CounterInv
<1>1. changes' \in Nat /\ changes' <= MaxChanges /\ spec'.gen <= 1 + changes' /\ spec.gen <= spec'.gen /\ 1 <= spec'.gen
  <2>1. CASE ChangeSpec
    <3>1. PICK v \in Value : spec' = [gen |-> spec.gen + 1, val |-> v]
      BY <2>1 DEF ChangeSpec
    <3>2. Change /\ spec'.gen = spec.gen + 1
      BY <2>1, <3>1 DEF ChangeSpec
    <3> QED  BY <1>0, <3>2, SMTT(30) DEF Change, CounterInv
  <2>2. CASE spec' = spec /\ (changes' = changes \/ Change)
    BY <1>0, <2>2, SMTT(30) DEF Change, CounterInv
  <2> QED  BY <2>1, <2>2, CounterCases, ZenonT(60)
<1>2. dSpec'.gen <= spec'.gen
  <2>1. NoSpec.gen = 0
    BY DEF NoSpec
  <2>2. dSpec'.gen \in {dSpec.gen, spec.gen, 0}
    BY <2>1, CounterCases
  <2> QED  BY <1>0, <1>1, <2>2, SMTT(30) DEF CounterInv
<1>3. tracker' \in [gen : Nat, count : 0 .. MaxReboots] /\ tracker'.gen <= spec'.gen
  <2>0. \A c \in 0 .. MaxReboots :
           LET t == [gen |-> dSpec.gen, count |-> c]
           IN  t \in [gen : Nat, count : 0 .. MaxReboots] /\ t.gen = dSpec.gen
    BY <1>0
  <2>1. tracker.gen <= spec'.gen /\ dSpec.gen <= spec'.gen /\ 0 \in 0 .. MaxReboots
    BY <1>0, <1>1, SMTT(30) DEF CounterInv
  <2>2. BelowLimit => GetRebootCount + 1 \in 0 .. MaxReboots
    BY <1>0, SMTT(30) DEF BelowLimit, GetRebootCount
  <2> QED  BY <2>0, <2>1, <2>2, CounterCases DEF CounterInv
<1>4. lastApplied' \in Nat /\ lastApplied' <= spec'.gen
  BY <1>0, <1>1, CounterCases, SMTT(30) DEF CounterInv
<1> QED  BY <1>1, <1>2, <1>3, <1>4, ZenonT(60) DEF CounterInv

LEMMA KindsKept ==
    ASSUME SystemdInv, KindInv, SystemdNext
    PROVE  KindInv'
<1>1. host' \in Value
  <2>1. dSpec.val \in Value /\ (boot # "up" /\ spc = "apply" /\ conf # NoFile => conf \in Value)
    BY DEF SystemdInv, SystemdTypes, SpecOf, BootInv
  <2> QED  BY <2>1, Markers, KindCases DEF KindInv
<1> QED  BY <1>1, KindCases DEF KindInv

(* The files and variables of the systemd mode have their types; the        *)
(* counter of writeTrackerFile never passes MaxRebootsPerGeneration,        *)
(* whatever is killed or fails between its write and the reboot; and no     *)
(* generation is recorded as applied that is not there yet.                 *)
THEOREM SystemdTyped == SystemdSpec => []SystemdTypeOK
<1> DEFINE Inv == SystemdInv /\ CounterInv /\ KindInv
<1>1. SystemdInit => Inv
  <2> SUFFICES ASSUME SystemdInit PROVE Inv
    OBVIOUS
  <2>1. CounterInv
    <3>1. /\ spec.gen = 1 /\ dSpec.gen = 0 /\ tracker.gen = 0 /\ changes = 0 /\ lastApplied = 0
          /\ tracker = [gen |-> 0, count |-> 0]
      BY DEF SystemdInit, NoSpec
    <3>2. tracker \in [gen : Nat, count : 0 .. MaxReboots]
      BY <3>1, SystemdAssumption, SMTT(30)
    <3>3. /\ changes \in Nat /\ changes <= MaxChanges /\ 1 <= spec.gen /\ spec.gen <= 1 + changes
          /\ dSpec.gen <= spec.gen /\ tracker.gen <= spec.gen
          /\ lastApplied \in Nat /\ lastApplied <= spec.gen
      BY <3>1, SystemdAssumption, SMTT(30)
    <3> QED  BY <3>2, <3>3 DEF CounterInv
  <2>2. KindInv
    BY Markers DEF SystemdInit, KindInv
  <2> QED  BY <2>1, <2>2, InitSystemd
<1>2. Inv /\ [SystemdNext]_sVars => Inv'
  <2> SUFFICES ASSUME Inv, [SystemdNext]_sVars PROVE Inv'
    OBVIOUS
  <2>1. SystemdInv'
    BY NextSystemd
  <2>2. CASE SystemdNext
    BY <2>1, <2>2, CountersKept, KindsKept
  <2>3. CASE UNCHANGED sVars
    <3>1. CounterInv' /\ KindInv'
      BY <2>3 DEF sVars, files, local, daemon, CounterInv, KindInv
    <3> QED  BY <2>1, <3>1
  <2> QED  BY <2>2, <2>3
<1>3. Inv => SystemdTypeOK
  <2> SUFFICES ASSUME Inv PROVE SystemdTypeOK
    OBVIOUS
  <2>1. spec.gen \in Nat /\ spec.val \in Value /\ spec = [gen |-> spec.gen, val |-> spec.val]
    BY DEF SystemdInv, SystemdTypes, SpecOf
  <2>2. /\ tracker.gen \in Nat /\ tracker.count \in 0 .. MaxReboots
        /\ tracker = [gen |-> tracker.gen, count |-> tracker.count]
    BY DEF CounterInv
  <2>3. /\ spec.gen \in 1 .. 1 + MaxChanges /\ tracker.gen \in 0 .. 1 + MaxChanges
        /\ lastApplied \in 0 .. spec.gen
    BY <2>1, <2>2, SystemdAssumption, SMTT(30) DEF CounterInv
  <2>4. /\ spec \in [gen : 1 .. 1 + MaxChanges, val : Value]
        /\ tracker \in [gen : 0 .. 1 + MaxChanges, count : 0 .. MaxReboots]
    BY <2>1, <2>2, <2>3
  <2> HIDE DEF Inv
  <2> QED
    BY <2>3, <2>4 DEF Inv, SystemdTypeOK, SystemdInv, SystemdTypes, BootInv, KindInv, Results
<1> QED  BY <1>1, <1>2, <1>3, PTL DEF SystemdSpec

(* OVS bridges: nothing is attached to a bridge that is not there, and the  *)
(* loops are at one bridge at a time, one of those they have left.          *)
AttachedInv == \A b \in Bridge : ~Exists(b) => up[b] # "own" /\ b \notin reps
CursorInv ==
    /\ change \subseteq Bridge /\ error \subseteq Bridge /\ reps \subseteq Bridge
    /\ pc \in {"idle", "detach", "device", "remove", "create"} \cup Creating
    /\ cur = {} \/ \E b \in Bridge : cur = {b}
    /\ pc = "device" => cur \subseteq change
    /\ pc \in Creating => cur \subseteq todo

(* What is done to one bridge leaves the rows and ports of the others.      *)
LEMMA AttachedKept ==
    ASSUME BridgeInv, AttachedInv, OvsNext
    PROVE  AttachedInv'
<1>0. /\ row \in [Bridge -> [by : {"none", "op", "user"}, key : BOOLEAN, internal : BOOLEAN]]
      /\ up \in [Bridge -> {"none", "own", "other"}]
  BY DEF BridgeInv, BridgeTypes
<1> USE DEF AttachedInv, Exists
<1>1. CASE UNCHANGED <<row, up, reps>>
  BY <1>1
<1>2. ASSUME NEW b \in Bridge, DetachUplink(b) \/ DeleteUplink(b)
      PROVE  AttachedInv'
  BY <1>0, <1>2 DEF DetachUplink, DeleteUplink
<1>3. ASSUME NEW b \in Bridge, DeleteRow(b)
      PROVE  AttachedInv'
  BY <1>0, <1>3 DEF DeleteRow
<1>4. ASSUME NEW b \in Bridge, CreateBridge(b) \/ EnsureInternalInterface(b)
      PROVE  AttachedInv'
  <2>1. UNCHANGED <<up, reps>> /\ row'[b].by # "none" /\ \A c \in Bridge \ {b} : row'[c] = row[c]
    <3>1. CASE CreateBridge(b)
      BY <1>0, <3>1, ZenonT(60) DEF CreateBridge
    <3>2. CASE EnsureInternalInterface(b)
      BY <1>0, <3>2, SMTT(30) DEF EnsureInternalInterface
    <3> QED  BY <1>4, <3>1, <3>2
  <2> QED  BY <2>1
<1>5. ASSUME NEW b \in Bridge, AddInterface(b) \/ UplinkInError(b)
      PROVE  AttachedInv'
  BY <1>0, <1>5 DEF AddInterface, UplinkInError
<1>6. ASSUME NEW b \in Bridge, UserWritesRow(b)
      PROVE  AttachedInv'
  <2>1. CASE ~DeleteRow(b)
    <3>1. UNCHANGED <<up, reps>> /\ \A c \in Bridge : row'[c].by = "none" => row[c].by = "none"
      BY <1>0, <1>6, <2>1 DEF UserWritesRow
    <3> QED  BY <3>1
  <2> QED  BY <1>3, <2>1
<1>7. ASSUME NEW b \in Bridge, UserMovesUplink(b) \/ AttachRepresentor(b)
      PROVE  AttachedInv'
  BY <1>0, <1>7 DEF UserMovesUplink, AttachRepresentor, UplinkOk
<1>8. CASE Discover \/ ReconfigureDevice \/ ConfigureBridges \/ RemovedAll \/ CreatedAll \/ CallFails \/ Crash
  BY <1>1, <1>8, ZenonT(60) DEF Discover, ReconfigureDevice, ConfigureBridges, RemovedAll, CreatedAll,
                    CallFails, Crash, ovsdb
<1>9. ASSUME NEW b \in Bridge,
             \/ NothingToDetach(b) \/ RemoveManagedOVSBridge(b) \/ NotManaged(b) \/ QueryBridge(b)
             \/ AddManagedOVSBridge(b) \/ Conflict(b) \/ WriteFails(b) \/ ChangeSpecOf(b)
             \/ ChangeVfs(b) \/ UplinkBreaks(b)
      PROVE  UNCHANGED <<row, up, reps>>
  BY <1>9 DEF NothingToDetach, RemoveManagedOVSBridge, NotManaged, QueryBridge, AddManagedOVSBridge,
              Conflict, WriteFails, ChangeSpecOf, ChangeVfs, UplinkBreaks, ovsdb
<1>10. ASSUME NEW b \in Bridge, DeleteBridge(b) \/ DeleteOldBridge(b)
       PROVE  DeleteRow(b)
  BY <1>10 DEF DeleteBridge, DeleteOldBridge
<1> QED
  BY <1>1, <1>2, <1>3, <1>4, <1>5, <1>6, <1>7, <1>8, <1>9, <1>10, ZenonT(60) DEF OvsNext, OvsStep

LEMMA CursorKept ==
    ASSUME BridgeInv, CursorInv, OvsNext
    PROVE  CursorInv'
<1> USE DEF CursorInv, Creating
<1>1. CASE Discover \/ ReconfigureDevice \/ ConfigureBridges \/ RemovedAll \/ CreatedAll
  <2>1. cur' = {} /\ change' \subseteq change /\ UNCHANGED <<error, reps>>
        /\ pc' \in {"idle", "detach", "remove", "create"}
    BY <1>1 DEF Discover, ReconfigureDevice, ConfigureBridges, RemovedAll, CreatedAll, ovsdb, locals,
                BridgeInv, LoopInv
  <2> QED  BY <2>1
<1>2. ASSUME NEW b \in Bridge, DetachUplink(b) \/ NothingToDetach(b)
      PROVE  CursorInv'
  <2>1. /\ cur' = {b} /\ b \in change /\ change' = change /\ pc' = "device"
        /\ error' \subseteq error /\ reps' \subseteq reps
    BY <1>2 DEF DetachUplink, NothingToDetach, ovsdb
  <2> QED  BY <2>1
<1>3. ASSUME NEW b \in Bridge, DeleteBridge(b) \/ RemoveManagedOVSBridge(b) \/ NotManaged(b)
      PROVE  CursorInv'
  <2>1. /\ pc' = "remove" /\ cur' \in {cur, {}, {b}} /\ change' = change
        /\ error' \subseteq error /\ reps' \subseteq reps
    BY <1>3 DEF DeleteBridge, DeleteRow, RemoveManagedOVSBridge, NotManaged, ovsdb
  <2> QED  BY <2>1
<1>4. ASSUME NEW b \in Bridge, AddManagedOVSBridge(b)
      PROVE  CursorInv'
  <2>1. pc' = "query" /\ cur' = {b} /\ b \in todo' /\ UNCHANGED <<change, error, reps>>
    BY <1>4 DEF AddManagedOVSBridge, ovsdb
  <2> QED  BY <2>1
<1>5. ASSUME NEW b \in Bridge,
             \/ QueryBridge(b) \/ DeleteUplink(b) \/ DeleteOldBridge(b) \/ CreateBridge(b)
             \/ EnsureInternalInterface(b) \/ AddInterface(b)
      PROVE  CursorInv'
  <2>1. /\ pc \in Creating /\ change' = change /\ error' \subseteq error /\ reps' \subseteq reps
        /\ \/ pc' = "create" /\ cur' = {}
           \/ pc' \in Creating /\ UNCHANGED <<cur, todo>>
    BY <1>5 DEF QueryBridge, Created, DeleteUplink, DeleteOldBridge, DeleteRow, CreateBridge,
                EnsureInternalInterface, AddInterface, ovsdb, locals
  <2> QED  BY <2>1
<1>6. CASE Abort /\ change' = change /\ error' \subseteq Bridge /\ reps' = reps
  BY <1>6 DEF Abort
<1>7. CASE CallFails \/ Crash
  BY <1>6, <1>7 DEF CallFails, Crash, ovsdb
<1>8. ASSUME NEW b \in Bridge, Conflict(b) \/ WriteFails(b) \/ UplinkInError(b)
      PROVE  CursorInv'
  BY <1>6, <1>8 DEF Conflict, WriteFails, UplinkInError, ovsdb
<1>9. ASSUME NEW b \in Bridge,
             \/ ChangeSpecOf(b) \/ ChangeVfs(b) \/ UserWritesRow(b) \/ UserMovesUplink(b)
             \/ AttachRepresentor(b) \/ UplinkBreaks(b)
      PROVE  CursorInv'
  <2>1. /\ change' \in {change, change \cup {b}} /\ error' \in {error, error \cup {b}, error \ {b}}
        /\ reps' \in {reps, reps \cup {b}, reps \ {b}} /\ UNCHANGED <<pc, cur, todo>>
    BY <1>9 DEF ChangeSpecOf, ChangeVfs, UserWritesRow, DeleteRow, UserMovesUplink, AttachRepresentor,
                UplinkBreaks, ovsdb, locals
  <2> QED  BY <2>1
<1> QED
  BY <1>1, <1>2, <1>3, <1>4, <1>5, <1>7, <1>8, <1>9, ZenonT(60) DEF OvsNext, OvsStep

(* The store and the rows of OVSDB have their types; the cache of the store *)
(* is its file from the first read on, also after a write that failed; no   *)
(* uplink and no representor is on a bridge that is gone.                   *)
THEOREM BridgesTyped == OvsSpec => []OvsTypeOK
<1> DEFINE Inv == BridgeInv /\ AttachedInv /\ CursorInv
<1>1. OvsInit => Inv
  <2> SUFFICES ASSUME OvsInit PROVE Inv
    OBVIOUS
  <2>1. AttachedInv
    BY DEF OvsInit, AttachedInv
  <2>2. CursorInv
    BY ZenonT(60) DEF OvsInit, CursorInv, Creating
  <2> QED  BY <2>1, <2>2, InitBridges
<1>2. Inv /\ [OvsNext]_oVars => Inv'
  <2> SUFFICES ASSUME Inv, [OvsNext]_oVars PROVE Inv'
    OBVIOUS
  <2>1. BridgeInv'
    BY NextBridges
  <2>2. CASE OvsNext
    BY <2>1, <2>2, AttachedKept, CursorKept
  <2>3. CASE UNCHANGED oVars
    <3>1. AttachedInv' /\ CursorInv'
      BY <2>3 DEF oVars, store, ovsdb, locals, AttachedInv, Exists, CursorInv
    <3> QED  BY <2>1, <3>1
  <2> QED  BY <2>2, <2>3
<1>3. Inv => OvsTypeOK
  <2> SUFFICES ASSUME Inv PROVE OvsTypeOK
    OBVIOUS
  <2>1. Cardinality(cur) <= 1
    <3>1. Cardinality(cur) \in {0, 1}
      BY FS_EmptySet, FS_Singleton DEF CursorInv
    <3> QED  BY <3>1, SMTT(30)
  <2>2. cur \subseteq todo \cup change
    BY DEF CursorInv, BridgeInv, LoopInv
  <2> QED
    BY <2>1, <2>2 DEF OvsTypeOK, BridgeInv, BridgeTypes, StoreRead, AttachedInv, CursorInv
<1> QED  BY <1>1, <1>2, <1>3, PTL DEF OvsSpec

(* The arguments of the kernel: what a step may do to each variable.        *)
LEMMA KargsCases ==
    ASSUME KargsTypeOK, KargsNext
    PROVE  /\ kspec' \in KSpec /\ (kgen' = kgen \/ kgen' = kgen + 1)
           /\ \/ kcur' = kcur
              \/ \E g \in {0, kgen} : kcur' = [spec |-> kspec, gen |-> g]
           /\ kdone' \in {kdone, 0, kcur.gen}
           /\ \/ ktracker' = ktracker
              \/ ktracker' = [gen |-> kcur.gen, count |-> 0]
              \/ RebootCount < MaxKReboots /\ ktracker' = Counted
<1> USE DEF KargsNext, KargsStep, kNode, OnNodeStateChange, SetRDMASubsystem, SyncDesiredKernelArg,
            SyncRound, ApplyReboot, RebootsUsedUp, ApplyNow, KCallFails, EditFails, KDaemonEnds,
            KPowerLoss, KNewSpec, HalfWritten, Boot, NewGenericPlugin
<1>1. kspec' \in KSpec /\ (kgen' = kgen \/ kgen' = kgen + 1)
  BY DEF KargsTypeOK
<1>2. kcur' = kcur \/ \E g \in {0, kgen} : kcur' = [spec |-> kspec, gen |-> g]
  OBVIOUS
<1>3. kdone' \in {kdone, 0, kcur.gen}
  OBVIOUS
<1>4. \/ ktracker' = ktracker
      \/ ktracker' = [gen |-> kcur.gen, count |-> 0]
      \/ RebootCount < MaxKReboots /\ ktracker' = Counted
  OBVIOUS
<1> QED  BY <1>1, <1>2, <1>3, <1>4, ZenonT(60)

LEMMA KargsSets ==
    ASSUME KargsTypeOK, KargsNext
    PROVE  /\ kboot' \subseteq Karg /\ krun' \subseteq Karg /\ desired' \subseteq Karg /\ ktodo' \subseteq Karg
           /\ modconf' \in RdmaArgs \cup {""} /\ rdmaMode' \in RdmaArgs \cup {""}
           /\ kpc' \in {"idle", "rdma", "sync", "apply"}
<1>0. /\ kboot \subseteq Karg /\ krun \subseteq Karg /\ desired \subseteq Karg /\ ktodo \subseteq Karg
      /\ modconf \in RdmaArgs \cup {""} /\ rdmaMode \in RdmaArgs \cup {""}
      /\ kpc \in {"idle", "rdma", "sync", "apply"} /\ kcur.spec.rdma \in RdmaArgs \cup {""}
      /\ "pci=realloc" \in Karg /\ RdmaArgs \subseteq Karg
  BY KargsAssumption DEF KargsTypeOK, Karg, Kept
<1> USE DEF KargsNext, KargsStep, kNode, OnNodeStateChange, SetRDMASubsystem, SyncDesiredKernelArg,
            SyncRound, ApplyReboot, RebootsUsedUp, ApplyNow, KCallFails, EditFails, KDaemonEnds,
            KPowerLoss, KNewSpec, HalfWritten, Boot, NewGenericPlugin
<1>1. kboot' \subseteq Karg
  BY <1>0 DEF Edited
<1>2. krun' \subseteq Karg
  BY <1>0
<1>3. desired' \subseteq Karg
  BY <1>0, VfioArgsKept, ZenonT(60) DEF AddVfioDesiredKernelArg, RdmaArg, InitialKargs
<1>4. ktodo' \subseteq Karg
  BY <1>0
<1>5. modconf' \in RdmaArgs \cup {""}
  BY <1>0
<1>6. rdmaMode' \in RdmaArgs \cup {""}
  BY <1>0
<1>7. kpc' \in {"idle", "rdma", "sync", "apply"}
  BY <1>0
<1> QED  BY <1>1, <1>2, <1>3, <1>4, <1>5, <1>6, <1>7, ZenonT(60)

(* The arguments and modes have their types, and the counter of reboots     *)
(* stays within MaxRebootsPerGeneration, also when the plugin finds that    *)
(* its arguments did not take effect and asks for another reboot.           *)
THEOREM KargsTyped == KargsSpec => []KargsTypeOK
<1> DEFINE Inv == KargsTypeOK /\ kgen \in Nat
<1>1. KargsInit => Inv
  <2> SUFFICES ASSUME KargsInit PROVE Inv
    OBVIOUS
  <2>1. /\ kspec \in KSpec /\ kcur.spec = kspec /\ kcur.gen = 0 /\ kdone = 0 /\ kgen = 1
        /\ ktracker.gen = 0 /\ ktracker.count = 0 /\ kpc = "idle"
    BY DEF KargsInit
  <2>2. \A s \in {kboot, krun, desired, ktodo} : s \subseteq Karg
    <3>1. krun \subseteq Kept
      BY KargsAssumption DEF KargsInit
    <3>2. kboot = krun /\ desired = krun \cap Kept /\ ktodo = {}
      BY DEF KargsInit, InitialKargs
    <3> QED  BY <3>1, <3>2 DEF Karg
  <2>3. {modconf, rdmaMode} \subseteq RdmaArgs \cup {""}
    BY DEF KargsInit, RdmaArgs
  <2>4. 0 \in 0 .. kgen /\ 0 \in 0 .. MaxKReboots /\ kgen \in Nat
    <3>1. MaxKReboots \in Nat
      BY KargsAssumption
    <3> QED  BY <2>1, <3>1, SMTT(30)
  <2> QED  BY <2>1, <2>2, <2>3, <2>4, ZenonT(60) DEF KargsTypeOK
<1>2. Inv /\ [KargsNext]_kVars => Inv'
  <2> SUFFICES ASSUME Inv, [KargsNext]_kVars PROVE Inv'
    OBVIOUS
  <2>1. CASE UNCHANGED kVars
    BY <2>1 DEF kVars, kNode, kDaemon, KargsTypeOK
  <2>2. CASE KargsNext
    <3>0. /\ kgen \in Nat /\ kcur.gen \in 0 .. kgen /\ kdone \in 0 .. kgen /\ kcur.spec \in KSpec
          /\ kspec \in KSpec /\ ktracker.gen \in 0 .. kgen /\ ktracker.count \in 0 .. MaxKReboots
          /\ MaxKReboots \in Nat
      BY KargsAssumption DEF KargsTypeOK
    <3>1. kgen' \in Nat /\ kspec' \in KSpec /\ \A g \in 0 .. kgen : g \in 0 .. kgen'
      BY <2>2, <3>0, KargsCases, SMTT(30)
    <3>2. kcur'.spec \in KSpec /\ kcur'.gen \in 0 .. kgen
      <4>1. CASE kcur' = kcur
        BY <3>0, <4>1
      <4>2. ASSUME NEW g \in {0, kgen}, kcur' = [spec |-> kspec, gen |-> g]
            PROVE  kcur'.spec \in KSpec /\ kcur'.gen \in 0 .. kgen
        <5>1. kcur'.spec = kspec /\ kcur'.gen = g
          BY <4>2
        <5>2. g \in 0 .. kgen
          BY <3>0, SMTT(30)
        <5> QED  BY <3>0, <5>1, <5>2
      <4> QED  BY <2>2, <4>1, <4>2, KargsCases, ZenonT(60)
    <3>3. kdone' \in 0 .. kgen
      BY <2>2, <3>0, KargsCases, SMTT(30)
    <3>4. ktracker'.gen \in 0 .. kgen /\ ktracker'.count \in 0 .. MaxKReboots
      <4>1. /\ ktracker'.gen \in {ktracker.gen, kcur.gen}
            /\ \/ ktracker'.count \in {ktracker.count, 0}
               \/ RebootCount < MaxKReboots /\ ktracker'.count = RebootCount + 1
        <5>1. CASE ktracker' = ktracker
          BY <5>1
        <5>2. CASE ktracker' = [gen |-> kcur.gen, count |-> 0]
          BY <5>2
        <5>3. CASE RebootCount < MaxKReboots /\ ktracker' = Counted
          BY <5>3 DEF Counted
        <5> QED  BY <2>2, <5>1, <5>2, <5>3, KargsCases, ZenonT(60)
      <4> QED  BY <3>0, <4>1, SMTT(30) DEF RebootCount
    <3> QED  BY <2>2, <3>1, <3>2, <3>3, <3>4, KargsSets, ZenonT(60) DEF KargsTypeOK
  <2> QED  BY <2>1, <2>2
<1> QED  BY <1>1, <1>2, PTL DEF KargsSpec

(* The gate: the daemon waits for a pod that was there, and a plugin has    *)
(* seen no later configuration than the last one.                           *)
PluginInv ==
    /\ pod.saw <= gver /\ gtarget \in Nat /\ gtarget <= pod.uid
    /\ gpc \in {"idle", "list", "delete", "exit", "host", "unblock", "finish"}

LEMMA PluginCases ==
    ASSUME GateInv, GateNext
    PROVE  /\ gver' = gver \/ gver' = gver + 1
           /\ \/ pod'.uid = pod.uid /\ pod'.saw \in {pod.saw, 0}
              \/ pod'.uid = pod.uid /\ pod'.saw = gver /\ gver' = gver
              \/ pod'.uid = pod.uid + 1 /\ pod'.saw = 0
           /\ gtarget' \in {gtarget, 0} \/ (gtarget' = pod.uid /\ pod' = pod)
           /\ \/ gpc' = gpc
              \/ gpc' \in {"idle", "list", "delete", "exit", "host", "unblock", "finish"}
<1>0. pod \in PodOf
  BY DEF GateInv, GateTypes
<1>1. /\ gver' = gver \/ gver' = gver + 1
      /\ gtarget' \in {gtarget, 0} \/ (gtarget' = pod.uid /\ pod' = pod)
      /\ \/ gpc' = gpc
         \/ gpc' \in {"idle", "list", "delete", "exit", "host", "unblock", "finish"}
  BY DEF GateNext, PodStep, GDaemonStep, PodRest, GRest, gHost, gLocal, GIdle, NoTarget, Restarted,
         CreatePod, DeletePod, ReplacePod, PodStops, SetAnnotationOnPod, StartPlugin, StartReconcile,
         PeriodicUnblock, ListPods, DeleteListedPod, WaitForExit, ConfigureHost, WaitAndUnblock,
         Finish, GCallFails, GDaemonEnds, NodeReboots, GNewSpec, HostDrifts
<1>2. \/ pod' = pod
      \/ pod' = [NoPod(pod.uid + 1) EXCEPT !.ph = "init"]
      \/ pod' = NoPod(pod.uid)
      \/ pod' = [pod EXCEPT !.gone = TRUE]
      \/ pod' = [pod EXCEPT !.mark = FALSE]
      \/ pod' = [pod EXCEPT !.ph = "init"]
      \/ pod' = [pod EXCEPT !.ph = "wait", !.mark = TRUE]
      \/ pod' = [pod EXCEPT !.ph = "run", !.saw = gver] /\ gver' = gver
  BY DEF GateNext, PodStep, GDaemonStep, PodRest, gHost, Unmarked,
         CreatePod, DeletePod, ReplacePod, PodStops, SetAnnotationOnPod, StartPlugin, StartReconcile,
         PeriodicUnblock, ListPods, DeleteListedPod, WaitForExit, ConfigureHost, WaitAndUnblock,
         Finish, GCallFails, GDaemonEnds, NodeReboots, GNewSpec, HostDrifts
<1>3. \/ pod'.uid = pod.uid /\ pod'.saw \in {pod.saw, 0}
      \/ pod'.uid = pod.uid /\ pod'.saw = gver /\ gver' = gver
      \/ pod'.uid = pod.uid + 1 /\ pod'.saw = 0
  <2>1. CASE \/ pod' = [pod EXCEPT !.gone = TRUE] \/ pod' = [pod EXCEPT !.mark = FALSE]
             \/ pod' = [pod EXCEPT !.ph = "init"] \/ pod' = [pod EXCEPT !.ph = "wait", !.mark = TRUE]
    BY <1>0, <2>1 DEF PodOf
  <2>2. CASE pod' = [pod EXCEPT !.ph = "run", !.saw = gver] /\ gver' = gver
    BY <1>0, <2>2 DEF PodOf
  <2>3. CASE pod' = [NoPod(pod.uid + 1) EXCEPT !.ph = "init"]
    BY <2>3 DEF NoPod
  <2>4. CASE pod' = NoPod(pod.uid)
    BY <2>4 DEF NoPod
  <2>5. CASE pod' = pod
    BY <2>5
  <2> QED  BY <1>2, <2>1, <2>2, <2>3, <2>4, <2>5, ZenonT(60)
<1> QED  BY <1>1, <1>3

(* The pod, the daemon's position and its generations have their types: the *)
(* pod restartDevicePluginPod waits for was there, and no generation is     *)
(* recorded as applied that is not there yet.                               *)
THEOREM GateTyped == GateSpec => []GateTypeOK
<1> DEFINE Inv == GateInv /\ PluginInv
<1>1. GateInit => Inv
  <2> SUFFICES ASSUME GateInit PROVE Inv
    OBVIOUS
  <2>1. pod.saw = 0 /\ pod.uid = 0 /\ gver = 0 /\ gtarget = 0 /\ gpc = "idle"
    BY DEF GateInit, NoPod, NoTarget
  <2> QED  BY <2>1, InitGate, SMTT(30) DEF PluginInv
<1>2. Inv /\ [GateNext]_gVars => Inv'
  <2> SUFFICES ASSUME Inv, [GateNext]_gVars PROVE Inv'
    OBVIOUS
  <2>1. GateInv'
    BY NextGate
  <2>2. CASE UNCHANGED gVars
    <3>1. PluginInv'
      BY <2>2 DEF gVars, gHost, gLocal, PluginInv
    <3> QED  BY <2>1, <3>1
  <2>3. CASE GateNext
    <3>1. pod.uid \in Nat /\ pod.saw \in Nat /\ gver \in Nat
      BY DEF GateInv, GateTypes, PodOf
    <3>2. pod'.saw <= gver' /\ gtarget' \in Nat /\ gtarget' <= pod'.uid
      BY <2>3, <3>1, PluginCases, SMTT(30) DEF PluginInv
    <3>3. gpc' \in {"idle", "list", "delete", "exit", "host", "unblock", "finish"}
      BY <2>3, PluginCases DEF PluginInv
    <3> QED  BY <2>1, <3>2, <3>3 DEF PluginInv
  <2> QED  BY <2>2, <2>3
<1>3. Inv => GateTypeOK
  <2> SUFFICES ASSUME Inv PROVE GateTypeOK
    OBVIOUS
  <2>1. pod.uid \in Nat /\ pod.ph \in Phase /\ pod.saw \in Nat /\ gver \in Nat
    BY DEF GateInv, GateTypes, PodOf
  <2>2. pod.saw \in 0 .. gver /\ gtarget \in 0 .. pod.uid /\ gdone \in 0 .. ggen /\ gcur.gen \in 0 .. ggen
    BY <2>1, SMTT(30) DEF GateInv, GateTypes, PluginInv
  <2> QED  BY <2>1, <2>2 DEF GateTypeOK, PluginInv
<1> QED  BY <1>1, <1>2, <1>3, PTL DEF GateSpec

(* All four at once, whatever the parts of the node do at the same time.    *)
THEOREM NodeTyped == PartsSpec => []NodeTypeOK
  BY SystemdTyped, BridgesTyped, KargsTyped, GateTyped, PTL DEF PartsSpec, NodeTypeOK
=============================================================================
