----------------------------- MODULE MlxFirmware ------------------------------
(* The Mellanox plugin: VFs, SRIOV_EN and link types in the firmware of a   *)
(* NIC. mstconfig writes values for the next boot; the plugin compares the  *)
(* current and the next values with the spec and says whether the node must *)
(* reboot; then the generic plugin makes the VFs and keeps a record of the  *)
(* PF. The two ports of a NIC share its firmware.                           *)
EXTENDS Integers, FiniteSets, FiniteSetsExt, Functions

CONSTANTS
    Nic,            \* NICs, by the prefix of their PCI address
    Dual,           \* those with two ports
    MSpec,          \* specs: the ports with an interface, their VFs, link type
                    \* and whether they are externally managed
    MaxMReboots,    \* consts.MaxRebootsPerGeneration
    MaxMChanges,    \* bound on changes of the spec
    MaxMFaults      \* bound on failures

Port == (Nic \X {0}) \cup (Dual \X {1})
Ports(n) == {p \in Port : p[1] = n}
Link == {"ETH", "IB"}
Interface == [vfs : Nat, link : Link \cup {""}, ext : BOOLEAN]

ASSUME MlxAssumption ==
    /\ IsFiniteSet(Nic) /\ Dual \subseteq Nic
    /\ \A s \in MSpec : DOMAIN s \subseteq Port /\ Range(s) \subseteq Interface
    /\ MaxMReboots \in Nat \ {0} /\ MaxMChanges \in Nat /\ MaxMFaults \in Nat

VARIABLES
    mspec, mgen,    \* interfaces in the NodeState's spec, its generation
    lockdown, dpu,  \* kernel lockdown; NICs in DPU mode
    fwReset,        \* the feature gate mellanoxFirmwareReset
    fwCur, fwNext,  \* firmware of each NIC, now and after a boot
    record,         \* of each port: "none", "op" or "ext" (LoadPfsStatus)
    mtracker,       \* file of the reboot tracker
    mpc, mcur,      \* next step of the daemon; spec and generation it works on
    attrs, toReset, \* attributesToChange and pciAddressesToReset, by NIC
    mreboot,        \* needReboot as the plugin answered
    mdone, mfailed, \* lastAppliedGeneration; gave up at the limit
    mchanges, mfaults

mHost == <<lockdown, dpu, fwReset>>
mLocal == <<mcur, attrs, toReset, mreboot>>
mEnv == <<mspec, mgen, mHost, mchanges>>
mVars == <<mEnv, fwCur, fwNext, record, mtracker, mpc, mLocal, mdone, mfailed, mfaults>>

Nothing == [x \in {} |-> 0]
MlxInit ==
    /\ mspec = Nothing /\ mgen = 1
    /\ lockdown \in BOOLEAN /\ dpu \in SUBSET (Nic \ Dual) /\ fwReset \in BOOLEAN
    /\ fwCur = [n \in Nic |-> [vfs |-> 1, en |-> n \in Dual, link |-> [p \in Ports(n) |-> "ETH"]]]
    /\ fwNext = fwCur /\ record = [p \in Port |-> "none"]
    /\ mtracker = [gen |-> 0, count |-> 0] /\ mpc = "idle"
    /\ mcur = [spec |-> Nothing, gen |-> 0] /\ attrs = Nothing /\ toReset = {} /\ mreboot = FALSE
    /\ mdone = 0 /\ mfailed = FALSE /\ mchanges = 0 /\ mfaults = 0

-----------------------------------------------------------------------------
(* What one NIC needs, seen from the port p by which the loop came to it.   *)
InSpec(n) == Ports(n) \cap DOMAIN mspec

(* HandleTotalVfs: the ports of a NIC get the larger number. A slip: each   *)
(* port looks at itself only.                                               *)
TotalVfsOwnPort(p) == mspec[p].vfs
TotalVfs(p) == Max({mspec[q].vfs : q \in InSpec(p[1])})
TotalVfsNeedReboot(p) ==
    IF mspec[p].ext THEN TotalVfs(p) > fwCur[p[1]].vfs ELSE TotalVfs(p) # fwCur[p[1]].vfs
TotalVfsChange(p) ==
    TotalVfsNeedReboot(p) \/ (~mspec[p].ext /\ TotalVfs(p) # fwNext[p[1]].vfs)

EnableNeedReboot(p) == (TotalVfs(p) > 0) # fwCur[p[1]].en
EnableSriov(p) == TotalVfs(p) > 0 /\ ~(fwCur[p[1]].en /\ fwNext[p[1]].en)

(* HandleLinkType looks at both ports, and only at the current link type.   *)
LinkChange(n) == {p \in InSpec(n) : mspec[p].link \notin {"", fwCur[n].link[p]}}

NicNeedReboot(p) == TotalVfsNeedReboot(p) \/ EnableNeedReboot(p) \/ LinkChange(p[1]) # {}
NicChange(p) == TotalVfsChange(p) \/ EnableSriov(p) \/ NicNeedReboot(p)
NicAttrs(p) ==
    [vfs |-> IF TotalVfsChange(p) THEN TotalVfs(p) ELSE -1,
     en |-> EnableSriov(p),
     link |-> [q \in LinkChange(p[1]) |-> mspec[q].link]]
NicError(p) == mspec[p].ext /\ (TotalVfsNeedReboot(p) \/ LinkChange(p[1]) # {})

(* A NIC without a spec goes back to no VFs if the operator configured it   *)
(* and no port is externally managed. A slip: whoever configured it.        *)
NicToClearAny(n) == \A p \in Ports(n) : record[p] # "ext"
NicToClear(n) ==
    /\ \E p \in Ports(n) : record[p] # "none"
    /\ \A p \in Ports(n) : record[p] # "ext"
Cleared(n) == InSpec(n) = {} /\ NicToClear(n) /\ (fwNext[n].vfs > 0 \/ fwNext[n].en)
ClearAttrs == [vfs |-> 0, en |-> FALSE, link |-> Nothing]

(* OnNodeStateChange. The loop runs over a Go map: any port may be the one  *)
(* by which a NIC is seen, and the NIC that comes last decides on the       *)
(* reboot, as needReboot is assigned anew in every round. An error is       *)
(* returned, and the call repeated.                                         *)
SpecNics == {n \in Nic : InSpec(n) # {}}
Compare(via) ==
    /\ \A n \in SpecNics : ~NicError(via[n])
    /\ LET changed == {n \in SpecNics : NicChange(via[n])}
       IN attrs' = [n \in changed \cup {m \in Nic : Cleared(m)} |->
                       IF n \in changed THEN NicAttrs(via[n]) ELSE ClearAttrs]
    /\ toReset' = {n \in SpecNics : NicNeedReboot(via[n])}
OnNodeStateChangeLast(last) ==
    /\ mpc = "idle" /\ ~mfailed /\ mdone # mgen
    /\ mcur' = [spec |-> mspec, gen |-> mgen] /\ mpc' = "fw"
    /\ IF lockdown
       THEN SpecNics = {} /\ attrs' = Nothing /\ toReset' = {} /\ mreboot' = FALSE
       ELSE \E via \in [SpecNics -> Port] :
              /\ \A n \in SpecNics : via[n] \in InSpec(n)
              /\ last \in SpecNics \/ SpecNics = {}
              /\ mreboot' = (SpecNics # {} /\ NicNeedReboot(via[last]))
              /\ Compare(via)
    /\ UNCHANGED <<mEnv, fwCur, fwNext, record, mtracker, mdone, mfailed, mfaults>>

(* MlxConfigFW, NIC by NIC; one in DPU mode is an error.                    *)
Written(fw, a) ==
    [vfs |-> IF a.vfs > -1 THEN a.vfs ELSE fw.vfs,
     en |-> a.en \/ (a.vfs # 0 /\ fw.en),
     link |-> [p \in DOMAIN fw.link |-> IF p \in DOMAIN a.link THEN a.link[p] ELSE fw.link[p]]]
MlxConfigFW(n) ==
    /\ mpc = "fw" /\ n \in DOMAIN attrs
    /\ IF n \in dpu THEN mpc' = "idle" /\ UNCHANGED <<fwNext, attrs>>
       ELSE /\ fwNext' = [fwNext EXCEPT ![n] = Written(@, attrs[n])]
            /\ attrs' = Restrict(attrs, DOMAIN attrs \ {n}) /\ UNCHANGED mpc
    /\ UNCHANGED <<mEnv, fwCur, record, mtracker, mcur, toReset, mreboot, mdone, mfailed, mfaults>>

(* MlxResetFW, if the gate is on: mstfwreset is tried, and its failure only *)
(* logged.                                                                  *)
MlxResetFW ==
    /\ mpc = "fw" /\ attrs = Nothing /\ mpc' = "main" /\ toReset' = {}
    /\ \E ok \in SUBSET (IF fwReset THEN toReset ELSE {}) :
          fwCur' = [n \in Nic |-> IF n \in ok THEN fwNext[n] ELSE fwCur[n]]
    /\ UNCHANGED <<mEnv, fwNext, record, mtracker, mcur, attrs, mreboot, mdone, mfailed, mfaults>>

-----------------------------------------------------------------------------
(* apply of the daemon goes on: a reboot, up to the limit, or the generic   *)
(* plugin. It makes no more VFs than the firmware offers and returns an     *)
(* error otherwise; it records the ports it configured and, at the end,     *)
(* forgets the others.                                                      *)
MForget == mcur' = [spec |-> Nothing, gen |-> 0] /\ attrs' = Nothing /\ toReset' = {} /\ mreboot' = FALSE
MBoot ==
    /\ fwCur' = [n \in Nic |-> IF n \in dpu THEN fwCur[n] ELSE fwNext[n]]
    /\ mpc' = "idle" /\ MForget /\ mdone' = 0 /\ mfailed' = FALSE
MRebootCount == IF mtracker.gen = mcur.gen THEN mtracker.count ELSE 0
MReboot ==
    /\ mpc = "main" /\ mreboot
    /\ IF MRebootCount < MaxMReboots
       THEN mtracker' = [gen |-> mcur.gen, count |-> MRebootCount + 1] /\ MBoot
       ELSE /\ mpc' = "idle" /\ MForget /\ mfailed' = (mcur.gen = mgen)
            /\ UNCHANGED <<fwCur, mtracker, mdone>>
    /\ UNCHANGED <<mEnv, fwNext, record, mfaults>>

Serves(fw, i) == i.vfs <= fw.vfs /\ (i.vfs > 0 => fw.en)
CanConfigure == {p \in DOMAIN mcur.spec : mcur.spec[p].ext \/ Serves(fwCur[p[1]], mcur.spec[p])}
RecordOf(p) == IF mcur.spec[p].ext THEN "ext" ELSE "op"
GenericApply ==
    /\ mpc = "main" /\ ~mreboot /\ mpc' = "idle" /\ MForget
    /\ IF CanConfigure = DOMAIN mcur.spec
       THEN /\ record' = [p \in Port |-> IF p \in DOMAIN mcur.spec THEN RecordOf(p) ELSE "none"]
            /\ mdone' = mcur.gen /\ mtracker' = [gen |-> mcur.gen, count |-> 0]
       ELSE /\ \E ok \in SUBSET CanConfigure :
                  record' = [p \in Port |-> IF p \in ok THEN RecordOf(p) ELSE record[p]]
            /\ UNCHANGED <<mdone, mtracker>>
    /\ UNCHANGED <<mEnv, fwCur, fwNext, mfailed, mfaults>>

(* mstconfig or another call fails and the reconcile is repeated; the       *)
(* process ends; the node loses power. A spec changes.                      *)
MFault == mfaults < MaxMFaults /\ mfaults' = mfaults + 1
MCallFails ==
    /\ MFault /\ mpc # "idle" /\ mpc' = "idle" /\ MForget
    /\ UNCHANGED <<mEnv, fwCur, fwNext, record, mtracker, mdone, mfailed>>
MDaemonEnds ==
    /\ MFault /\ mpc' = "idle" /\ MForget /\ mdone' = 0 /\ mfailed' = FALSE
    /\ UNCHANGED <<mEnv, fwCur, fwNext, record, mtracker>>
MPowerLoss == MFault /\ MBoot /\ UNCHANGED <<mEnv, fwNext, record, mtracker>>
MNewSpec ==
    /\ mchanges < MaxMChanges /\ mchanges' = mchanges + 1
    /\ mspec' \in MSpec \ {mspec} /\ mgen' = mgen + 1 /\ mfailed' = FALSE
    /\ UNCHANGED <<mHost, fwCur, fwNext, record, mtracker, mpc, mLocal, mdone, mfaults>>

MlxStep ==
    \/ \E n \in Nic : OnNodeStateChangeLast(n) \/ MlxConfigFW(n)
    \/ MlxResetFW \/ MReboot \/ GenericApply
MlxNext == MlxStep \/ MCallFails \/ MDaemonEnds \/ MPowerLoss \/ MNewSpec

(* The reconcile is repeated after an error, and Go's order of a map is     *)
(* random: no NIC is kept from coming last for ever.                        *)
MlxSpec ==
    /\ MlxInit /\ [][MlxNext]_mVars /\ WF_mVars(MlxStep)
    /\ \A n \in Nic : SF_mVars(OnNodeStateChangeLast(n))

-----------------------------------------------------------------------------
(* Specs for which the plugin's comparisons are enough: the webhook refuses *)
(* no VFs, but both ports of a NIC have to be externally managed or none,   *)
(* and no port is asked for one link type now and for another later.        *)
OrdinarySpecs ==
    \A s \in MSpec : \A p \in DOMAIN s :
        /\ s[p].vfs > 0
        /\ \A q \in DOMAIN s : q[1] = p[1] => s[q].ext = s[p].ext
        /\ \A t \in MSpec : p \in DOMAIN t => t[p].link = s[p].link \/ "" \in {t[p].link, s[p].link}

(* One reboot is enough for a generation unless something fails, in         *)
(* whichever order the loops run and with specs that change on the way: a   *)
(* boot gives the firmware all that its comparison with the spec asks for,  *)
(* by either port of a NIC. Includes the types.                             *)
OneRebootEnough ==
    /\ mtracker.gen \in 0 .. mgen /\ mtracker.count \in 0 .. MaxMReboots
    /\ {mdone, mcur.gen} \subseteq 0 .. mgen
    /\ mpc \in {"idle", "fw", "main"} /\ DOMAIN attrs \cup toReset \subseteq Nic
    /\ record \in [Port -> {"none", "op", "ext"}]
    /\ OrdinarySpecs /\ mfaults = 0 => mtracker.count <= 1

(* The firmware of a NIC that neither the spec names nor the operator has   *)
(* configured is left alone; and that of one which is externally managed    *)
(* throughout keeps its number of VFs and its link types ("no FW changes    *)
(* allowed when NIC is externally managed", but SRIOV_EN is set).           *)
Named(n) == {p \in Ports(n) : p \in DOMAIN mcur.spec \/ record[p] # "none"}
Own(n) == {p \in Ports(n) : IF p \in DOMAIN mcur.spec THEN ~mcur.spec[p].ext ELSE record[p] = "op"}
ForeignFirmwareKept ==
    [][\A n \in Nic : fwNext'[n] # fwNext[n] =>
          /\ Named(n) # {}
          /\ Own(n) = {} => /\ fwNext'[n].vfs = fwNext[n].vfs
                            /\ fwNext'[n].link = fwNext[n].link]_mVars

(* In the end the firmware offers what the spec asks for, now and after the *)
(* next boot, whatever policies were removed and made again; unless the     *)
(* kernel is locked down, an externally managed NIC has too few VFs, a NIC  *)
(* in DPU mode would have to change, or failures used up the reboots.       *)
Served ==
    /\ mdone = mgen
    /\ \A p \in DOMAIN mspec : mspec[p].ext \/
          (Serves(fwCur[p[1]], mspec[p]) /\ Serves(fwNext[p[1]], mspec[p]))
Blocked ==
    \/ lockdown \/ (mfailed /\ mfaults > 0)
    \/ \E p \in DOMAIN mspec : NicError(p)
    \/ \E n \in dpu : Cleared(n) \/ \E p \in InSpec(n) : NicChange(p)
FirmwareServes == <>[](Served \/ Blocked)

(* The same for link types: each port gets the one its spec asks for.       *)
LinkTypesFollow ==
    <>[](Blocked \/ \A p \in DOMAIN mspec : mspec[p].link \in {"", fwCur[p[1]].link[p]})
=============================================================================
