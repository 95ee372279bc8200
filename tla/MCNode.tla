-------------------------------- MODULE MCNode --------------------------------
(* What the node keeps: the files of the systemd mode, the OVS bridges, the *)
(* arguments of its kernel, the firmware of its Mellanox NICs, and its      *)
(* device plugin. The parts share no state here, so a run looks at one of   *)
(* them at a time and the initial state says at which; the others stay in   *)
(* one of their initial states.                                             *)
EXTENDS NodeParts, TLC

CONSTANTS a, b      \* NICs; a has two ports

(* VFs with vfio-pci; a shared RDMA subsystem; and an exclusive one with    *)
(* more VFs than fit.                                                       *)
KernelSpec(vfio, rdma, many) == [vfio |-> vfio, rdma |-> rdma, many |-> many]
KernelSpecs ==
    {KernelSpec(TRUE, "", FALSE), KernelSpec(FALSE, "shared", FALSE),
     KernelSpec(FALSE, "exclusive", TRUE)}

(* Both NICs, the ports of a with different numbers of VFs; the same with   *)
(* another link type; one NIC externally managed; one port; none.           *)
Vfs(n, link, ext) == [vfs |-> n, link |-> link, ext |-> ext]
NicSpec(link) ==
    (<<a, 0>> :> Vfs(2, link, FALSE)) @@ (<<a, 1>> :> Vfs(1, "", FALSE))
        @@ (<<b, 0>> :> Vfs(1, "", FALSE))
NicSpecs ==
    {Nothing, NicSpec(""), NicSpec("IB"), <<a, 1>> :> Vfs(1, "", FALSE),
     (<<a, 0>> :> Vfs(1, "", TRUE)) @@ (<<b, 0>> :> Vfs(2, "", FALSE))}

VARIABLE part
Part == {"systemd", "ovs", "kargs", "firmware", "plugin"}
nodeVars == <<sVars, oVars, kVars, mVars, gVars, part>>

NodeInit ==
    /\ SystemdInit /\ OvsInit /\ KargsInit /\ MlxInit /\ GateInit /\ part \in Part
    /\ part = "systemd" \/ systemd
    /\ part = "kargs" \/ (kspec.vfio /\ cpu = "amd" /\ editable)
    /\ part = "firmware" \/ (~lockdown /\ dpu = {} /\ ~fwReset)
    /\ part = "plugin" \/ gate
OfSystemd == part = "systemd" /\ UNCHANGED <<oVars, kVars, mVars, gVars, part>>
OfOvs == part = "ovs" /\ UNCHANGED <<sVars, kVars, mVars, gVars, part>>
OfKargs == part = "kargs" /\ UNCHANGED <<sVars, oVars, mVars, gVars, part>>
OfFirmware == part = "firmware" /\ UNCHANGED <<sVars, oVars, kVars, gVars, part>>
OfPlugin == part = "plugin" /\ UNCHANGED <<sVars, oVars, kVars, mVars, part>>

(* Where every change and every failure at once would be too many states,   *)
(* a behaviour has most of one or of the other.                             *)
NodeNext ==
    \/ OfSystemd /\ SystemdNext /\ changes' + faults' <= 3
    \/ OfOvs /\ OvsNext
    \/ OfKargs /\ KargsNext /\ (kfaults' > 0 => cpu = "amd" /\ editable)
    \/ OfFirmware /\ MlxNext /\ mchanges' + mfaults' <= MaxMChanges
    \/ OfPlugin /\ GateNext

(* The fairness of each part: systemd runs its units, the daemon's queue is *)
(* served, a drain that is asked for is granted, no NIC is kept from coming *)
(* last in Go's random order, and Kubernetes runs the plugin's pod.         *)
NodeSpec ==
    /\ NodeInit /\ [][NodeNext]_nodeVars
    /\ WF_sVars(part = "systemd" /\ ServiceStep /\ OfSystemd)
    /\ WF_sVars(part = "systemd" /\ DaemonStep /\ OfSystemd)
    /\ WF_sVars(part = "systemd" /\ DrainCompletes /\ OfSystemd)
    /\ WF_oVars(part = "ovs" /\ OvsStep /\ OfOvs)
    /\ WF_kVars(part = "kargs" /\ KargsStep /\ OfKargs)
    /\ WF_mVars(part = "firmware" /\ MlxStep /\ OfFirmware)
    /\ \A n \in Nic : SF_mVars(part = "firmware" /\ OnNodeStateChangeLast(n) /\ OfFirmware)
    /\ WF_gVars(part = "plugin" /\ PodStep /\ OfPlugin)
    /\ WF_gVars(part = "plugin" /\ GDaemonStep /\ OfPlugin)

(* Every part comes to rest where its spec wants it, whatever failed or was *)
(* changed from outside on the way: every generation gets an answer and the *)
(* right one without faults, the bridges of OVSDB are the wanted ones, the  *)
(* kernel runs with the wanted arguments, the firmware offers the VFs that  *)
(* were asked for, and the device plugin has seen the last configuration.   *)
AsAsked ==
    CASE part = "systemd" -> RightlyAnswered
      [] part = "ovs" -> BridgesAsWanted
      [] part = "kargs" -> KargsGood \/ GaveUp
      [] part = "firmware" -> Served \/ Blocked
      [] part = "plugin" -> PluginCurrent
NodeSettles == <>[]AsAsked /\ []<>(part = "systemd" => Answered)
=============================================================================
