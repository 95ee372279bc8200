----------------------------- MODULE PolicyRender -----------------------------
(* How SriovNetworkNodePolicies become the spec of a node's NodeState and   *)
(* the node's device plugin configuration. Pure operators: the controller   *)
(* and the webhook modules use them.                                        *)
(*                                                                          *)
(* A policy is a record; a selector field that is not set is "", {} or <<>>.*)
(* pfs is the sequence pfNames, each a name and a VF range. An interface is *)
(* what the node's status says of a PF. A spec maps PCI addresses to        *)
(* configurations, and its set of VF groups stands for the list.            *)
EXTENDS Integers, Sequences

NoRange == <<-1, -1>>       \* invalidVfIndex: the name has no "#"
BadRange == <<>>            \* text after "#" that is not two numbers

InitialPriority == 100      \* ppp before the first policy
DefaultPolicyName == 0      \* policy names are numbers, in their order

(* ByPriority: a larger number is a lower priority and is applied earlier.  *)
Before(pols, a, b) ==
    \/ pols[a].prio > pols[b].prio
    \/ pols[a].prio = pols[b].prio /\ a < b
(* A slip: the order of the names, as the API lists them.                   *)
FirstListed(pols, todo) == CHOOSE a \in todo : \A b \in todo \ {a} : a < b
First(pols, todo) == CHOOSE a \in todo : \A b \in todo \ {a} : Before(pols, a, b)

NodeSelected(p, labels) == p.nodeSelector \subseteq labels

SelectorIsEmpty(p) ==
    p.vendor = "" /\ p.device = "" /\ p.roots = {} /\ p.pfs = <<>> /\ p.filter = ""

PfNames(p) == {p.pfs[k].name : k \in DOMAIN p.pfs}
NetFilterMatch(filter, value) == filter = value
IfaceSelected(p, i) ==
    /\ p.vendor \in {"", i.vendor}
    /\ p.device \in {"", i.device}
    /\ p.roots = {} \/ i.pci \in p.roots
    /\ p.pfs = <<>> \/ PfNames(p) \cap ({i.name} \cup i.alt) # {}
    /\ p.filter # "" => NetFilterMatch(p.filter, i.filter)

IndexInRange(k, r) == r # BadRange /\ r[1] <= k /\ k <= r[2]
IsVFRangeOverlapping(r, s) ==
    /\ r # BadRange /\ s # BadRange
    /\ IF r[1] < s[1] THEN IndexInRange(s[1], r) \/ IndexInRange(s[2], r)
                      ELSE IndexInRange(r[1], s) \/ IndexInRange(r[2], s)

(* generatePfNameVfGroup: the range of the first pfName that is the name of *)
(* the PF; alternative names are not looked at. A range that cannot be      *)
(* parsed before that is an error of the whole policy.                      *)
Hits(p, i) == {k \in DOMAIN p.pfs : p.pfs[k].name = i.name}
FirstHit(p, i) == CHOOSE k \in Hits(p, i) : \A j \in Hits(p, i) : k <= j
VfRange(p, i) ==
    IF Hits(p, i) = {} \/ p.pfs[FirstHit(p, i)].rng = NoRange
    THEN <<0, p.numVfs - 1>> ELSE p.pfs[FirstHit(p, i)].rng
VfRangeError(p, i) ==
    \E k \in DOMAIN p.pfs :
        /\ p.pfs[k].rng = BadRange
        /\ \A j \in Hits(p, i) : k <= j

VfGroup(name, p, i) ==
    [resource |-> p.resource, type |-> p.type, rng |-> VfRange(p, i),
     policy |-> name, mtu |-> p.mtu, rdma |-> p.rdma, vdpa |-> p.vdpa]

Interface(name, p, i) ==
    [mtu |-> p.mtu, numVfs |-> p.numVfs, link |-> p.link, eswitch |-> p.eswitch,
     external |-> p.external, groups |-> {VfGroup(name, p, i)}]

(* mergeConfigs: new has one group and the higher priority.                 *)
KeptGroups(old, g) ==
    {h \in old : h.resource # g.resource /\ ~IsVFRangeOverlapping(h.rng, g.rng)}
Larger(a, b) == IF a < b THEN b ELSE a
(* A slip: groups that share VFs with the new one are kept.                 *)
MergeOverlapping(old, new, g, equalPriority) ==
    LET kept == {h \in old.groups : h.resource # g.resource} IN
    [new EXCEPT !.groups = {g} \cup kept,
                !.mtu = Larger(new.mtu, old.mtu), !.numVfs = Larger(new.numVfs, old.numVfs)]

MergeConfigs(old, new, g, equalPriority) ==
    LET kept == KeptGroups(old.groups, g) IN
    IF ~equalPriority /\ kept = {} THEN new
    ELSE [new EXCEPT !.groups = {g} \cup kept,
                     !.mtu = Larger(new.mtu, old.mtu),
                     !.numVfs = Larger(new.numVfs, old.numVfs)]

(* Apply: every selected PF, unless the policy asks for no VFs.             *)
Targets(p, ifs) ==
    IF SelectorIsEmpty(p) THEN {} ELSE {i \in ifs : IfaceSelected(p, i)}
At(ifs, pci) == CHOOSE i \in ifs : i.pci = pci
Apply(name, p, ifs, spec, equalPriority) ==
    LET hit == IF p.numVfs > 0 THEN {i.pci : i \in Targets(p, ifs)} ELSE {} IN
    [x \in DOMAIN spec \cup hit |->
        IF x \notin hit THEN spec[x]
        ELSE IF x \notin DOMAIN spec THEN Interface(name, p, At(ifs, x))
        ELSE MergeConfigs(spec[x], Interface(name, p, At(ifs, x)),
                          VfGroup(name, p, At(ifs, x)), equalPriority)]
ApplyError(p, ifs) == p.numVfs > 0 /\ \E i \in Targets(p, ifs) : VfRangeError(p, i)

(* ApplyBridgeConfig: bridges by the PCI address that names them.           *)
BridgeError(p) ==
    /\ ~SelectorIsEmpty(p) /\ p.bridge
    /\ p.eswitch # "switchdev" \/ p.link \notin {"", "eth"} \/ p.external
ApplyBridgeConfig(p, ifs, bridges) ==
    LET hit == {i.pci : i \in Targets(p, ifs)} IN
    [x \in (DOMAIN bridges \ hit) \cup (IF p.bridge THEN hit ELSE {}) |->
        IF x \in hit THEN [mtu |-> p.mtu] ELSE bridges[x]]

-----------------------------------------------------------------------------
(* The device plugin's resource list of a node.                             *)
ResolveInterfaceName(name, ifs) ==
    IF \E i \in ifs : name \in {i.name} \cup i.alt
    THEN (CHOOSE i \in ifs : name \in {i.name} \cup i.alt).name ELSE name
ResolvePfNames(p, ifs) ==
    {[name |-> ResolveInterfaceName(p.pfs[k].name, ifs), rng |-> p.pfs[k].rng]
        : k \in DOMAIN p.pfs}

(* What one policy adds to the selectors of its resource. A device is       *)
(* selected by the id of its VFs, of the PF itself when there are none.     *)
Selectors(p, ifs) ==
    [vendors |-> {p.vendor} \ {""},
     devices |-> {[id |-> p.device, vf |-> p.numVfs > 0]} \ {[id |-> "", vf |-> p.numVfs > 0]},
     pfs |-> ResolvePfNames(p, ifs),
     links |-> IF p.type = "vfio-pci" THEN {} ELSE {p.link} \ {""},
     roots |-> p.roots,
     pcis |-> IF p.filter = "" THEN {}
              ELSE {i.pci : i \in {j \in ifs : NetFilterMatch(p.filter, j.filter)}}]

CreateDevicePluginResource(p, ifs) ==
    [sel |-> Selectors(p, ifs), rdma |-> p.rdma, vdpa |-> p.vdpa, topo |-> p.topo]
CreateError(p, ifs) == p.filter # "" /\ ifs = {}

UpdateDevicePluginResource(rc, p, ifs) ==
    LET s == Selectors(p, ifs) IN
    [rc EXCEPT !.sel = [f \in DOMAIN s |-> rc.sel[f] \cup s[f]], !.topo = p.topo]

(* renderDevicePluginConfigData, over the policies that select the node in  *)
(* their order.                                                             *)
AddResource(rcl, p, ifs) ==
    [r \in DOMAIN rcl \cup {p.resource} |->
        IF r # p.resource THEN rcl[r]
        ELSE IF r \in DOMAIN rcl THEN UpdateDevicePluginResource(rcl[r], p, ifs)
        ELSE CreateDevicePluginResource(p, ifs)]
RenderDevicePluginConfigData(pols, names, ifs) ==
    LET rcl[todo \in SUBSET names] ==   \* todo: the ones applied so far
          IF todo = {} THEN <<>>
          ELSE LET last == CHOOSE a \in todo : \A b \in todo \ {a} : Before(pols, b, a)
               IN  AddResource(rcl[todo \ {last}], pols[last], ifs)
    IN  rcl[names]
RenderError(pols, names, ifs) ==
    \E a \in names : /\ CreateError(pols[a], ifs)
                     /\ \A b \in names : pols[b].resource = pols[a].resource => ~Before(pols, b, a)
=============================================================================
