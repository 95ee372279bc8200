---------------------------- MODULE MCHostConfig ----------------------------
(* Two questions of one instance.  Init chooses the part the behaviour     *)
(* looks at: two PFs and somebody outside who sets VFs, or one PF whose    *)
(* spec changes more often and whose applies are fair.                     *)
EXTENDS HostConfig

CONSTANTS a, b

VARIABLE part

Plain == [num |-> 1, mode |-> "legacy", drv |-> "vfio-pci", em |-> FALSE]
Offload == [num |-> 2, mode |-> "switchdev", drv |-> "netdevice", em |-> FALSE]
External == [num |-> 1, mode |-> "legacy", drv |-> "netdevice", em |-> TRUE]
Interfaces == {Plain, Offload, External}

Alone == part = "one"
Within ==
    /\ part' = part
    /\ IF Alone THEN spec'[b] = NoInterface /\ used'.outside = 0
                ELSE used'.specs < MaxSpecs /\ used'.specs + used'.outside + used'.faults < 4

HostInit == Init /\ part \in {"one", "two"}
HostNext == Next /\ Within
hostVarsOf == <<vars, part>>

HostFairness ==
    /\ WF_hostVarsOf(Alone /\ ApplyStep /\ Within)
    /\ \A p \in PF, l \in BOOLEAN :
        WF_hostVarsOf(Alone /\ (\E w \in workers : w.pf = p /\ w.live = l /\ WorkerStep(w)) /\ Within)
HostSpec == HostInit /\ [][HostNext]_hostVarsOf /\ HostFairness

(* EventuallyConfigured, where the applies are fair: after the last change *)
(* and the last fault the daemon brings the host to what the spec asks     *)
(* for, or the spec is one it cannot meet.                                 *)
HostSettles == Alone => EventuallyConfigured
=============================================================================
