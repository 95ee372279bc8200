---------------------------- MODULE PolicyWebhook ----------------------------
(* The admission webhook: concurrent requests to write policies and the     *)
(* SriovOperatorConfig, each mutated, validated against what the API server *)
(* holds, and stored by the API server some time after the answer. The two  *)
(* flags of a dynamic validation are variables of the process, shared by    *)
(* the requests in flight. Pools and networks are validated by themselves.  *)
EXTENDS PolicyRender, FiniteSets

CONSTANTS
    Node, Name,
    Candidate,      \* what users send: [pol, unset], unset the fields left out
    NodeIfaces, NodeLabels,
    Virtual,        \* nodes whose providerID names a virtual platform
    PfModel,        \* supported <<vendor, device>> pairs of PFs
    VfModel,        \* and of their VFs
    DevMode,        \* DEV_MODE
    Pool, Network,  \* pool configurations and networks users send
    NoPolicy,
    Handler,        \* requests in flight
    MaxRequests     \* bound on requests and on what the nodes do

IntelID == "8086"
MellanoxID == "15b3"
MlxMaxVFs == 128

(* The fields of a policy and of a pool. A limit is <<>> if it is not set,  *)
(* else a percentage, a number, or a text that is neither.                  *)
PfName == [name : STRING, rng : (Int \X Int) \cup {BadRange}]
PolicySpec ==
    [prio : Int, nodeSelector : SUBSET STRING, vendor : STRING, device : STRING,
     roots : SUBSET STRING, pfs : Seq(PfName), filter : STRING, numVfs : Nat, mtu : Int,
     resource : STRING, type : STRING, link : STRING, eswitch : STRING, rdma : BOOLEAN,
     vdpa : STRING, bridge : BOOLEAN, external : BOOLEAN, topo : BOOLEAN]
Limit == {<<>>} \cup ({"%", "int", "text"} \X Int)
NamesOf(i) == {i.name} \cup i.alt

(* The kernel gives no name or alternative name to two interfaces.          *)
ASSUME WebhookAssumption ==
    /\ Name \subseteq Nat /\ DevMode \in BOOLEAN /\ MaxRequests \in Nat
    /\ \A c \in Candidate : c.pol \in PolicySpec /\ c.unset \subseteq {"priority", "isRdma"}
    /\ \A pool \in Pool : pool.max \in Limit
    /\ Pool \cap Network = {}
    /\ \A n \in Node : \A i, j \in NodeIfaces[n] : i # j => NamesOf(i) \cap NamesOf(j) = {}

VARIABLES
    policies,       \* the stored policies, by name
    config,         \* SriovOperatorConfig: "absent", "drain", "noDrain"
    reported,       \* nodes whose NodeState lists their interfaces
    updating,       \* nodes whose syncStatus is InProgress
    nodesSelected, interfaceSelected,
    h,              \* the handlers
    other,          \* the pool or network stored last
    together,       \* pairs of policies that were in flight together
    requests

webhookVars == <<policies, config, reported, updating, nodesSelected, interfaceSelected,
                 h, other, together, requests>>
flags == <<nodesSelected, interfaceSelected>>
stored == <<policies, config, other, together>>

NoPolicies == [a \in {} |-> NoPolicy]
Idle == [pc |-> "idle", name |-> DefaultPolicyName, pol |-> NoPolicy, op |-> "", to |-> "",
         seen |-> NoPolicies, known |-> {}, todo |-> {}, with |-> {}, late |-> {},
         stale |-> FALSE]

WebhookInit ==
    /\ policies = NoPolicies /\ config \in {"absent", "drain"}
    /\ reported = {} /\ updating = {}
    /\ nodesSelected = FALSE /\ interfaceSelected = FALSE
    /\ h = [r \in Handler |-> Idle]
    /\ other = {} /\ together = {} /\ requests = 0

-----------------------------------------------------------------------------
(* mutateSriovNetworkNodePolicy; the patches apply in their order.          *)
Mutate(name, c) ==
    IF name = DefaultPolicyName THEN c.pol
    ELSE [c.pol EXCEPT
        !.prio = IF "priority" \in c.unset THEN 99 ELSE @,
        !.rdma = IF c.pol.link = "ib" /\ c.pol.type # "vfio-pci" THEN TRUE
                 ELSE IF "isRdma" \in c.unset THEN FALSE ELSE @]

IsSupportedModel(v, d) == <<v, d>> \in PfModel
IsSupportedVendor(v) == \E m \in PfModel : m[1] = v
IsSupportedDevice(d) == \E m \in PfModel : m[2] = d
IsVfSupportedModel(v, d) == <<v, d>> \in VfModel

(* The text after "#" of every pfName.                                      *)
RangeValid(rng, numVfs) == rng # BadRange /\ rng[1] <= rng[2] /\ rng[2] < numVfs

NetFilterAllowed(p) ==
    /\ p.vendor = "" /\ p.device = "" /\ p.pfs = <<>> /\ p.roots = {}
    /\ p.eswitch = "" /\ ~p.bridge /\ p.link \in {"", "eth"}
SupportedSelector(p) ==
    /\ p.vendor # "" => /\ IsSupportedVendor(p.vendor)
                        /\ p.device # "" => IsSupportedModel(p.vendor, p.device)
    /\ p.vendor = "" /\ p.device # "" => IsSupportedDevice(p.device)
Vdpa(p) == p.vdpa \in {"virtio", "vhost"}
StaticValidate(p) ==
    /\ p.resource # ""                      \* validateResourceName
    /\ ~SelectorIsEmpty(p)
    /\ p.filter # "" => NetFilterAllowed(p)
    /\ ~DevMode => SupportedSelector(p)
    /\ \A k \in DOMAIN p.pfs :
          p.pfs[k].rng # NoRange => RangeValid(p.pfs[k].rng, p.numVfs)
    /\ ~(p.type = "vfio-pci" /\ p.rdma)
    /\ ~(p.link \notin {"", "eth"} /\ p.eswitch = "switchdev")
    /\ Vdpa(p) => p.type = "netdevice" /\ p.eswitch = "switchdev"
    /\ p.bridge => p.eswitch = "switchdev" /\ ~p.external

(* validateNicModel: the nil error.                                         *)
NicModelValid(p, i, n) ==
    /\ p.vendor \in {"", i.vendor} /\ p.device \in {"", i.device}
    /\ p.roots = {} \/ i.pci \in p.roots
    /\ p.pfs = <<>> \/ PfNames(p) \cap ({i.name} \cup i.alt) # {}
    /\ \/ IsSupportedModel(i.vendor, i.device)
       \/ /\ n \in Virtual /\ p.filter # "" /\ p.filter = i.filter
          /\ IsVfSupportedModel(i.vendor, i.device)

(* validatePolicyForNodeState: what a selected interface demands.           *)
FitsInterface(p, i) ==
    /\ p.numVfs # 0
    /\ i.vendor = IntelID => p.numVfs <= i.totalVfs
    /\ i.vendor = MellanoxID => p.numVfs <= MlxMaxVFs
    /\ p.external => /\ p.numVfs <= i.numVfs
                     /\ p.mtu = 0 \/ p.mtu <= i.mtu
                     /\ p.link \in {"", i.link}
    /\ Vdpa(p) => i.vendor = MellanoxID

(* validatePfNames: the first pair of pfNames that mean the same PF decides,*)
(* further ones are not looked at. Without interfaces names stay as written.*)
(* A slip: ranges may share an end.                                         *)
ApartOrTouching(cur, pre) == cur[2] <= pre[1] \/ cur[1] >= pre[2]
Apart(cur, pre) == cur[2] < pre[1] \/ cur[1] > pre[2]
SamePf(p, q, ifs) ==
    {x \in (DOMAIN p.pfs) \X (DOMAIN q.pfs) :
        ResolveInterfaceName(p.pfs[x[1]].name, ifs) = ResolveInterfaceName(q.pfs[x[2]].name, ifs)}
PfNamesValid(p, q, ifs) ==
    LET same == SamePf(p, q, ifs)
        first == CHOOSE x \in same : \A y \in same : x[1] < y[1] \/ (x[1] = y[1] /\ x[2] <= y[2])
    IN  same # {} => /\ p.external = q.external
                     /\ Apart(p.pfs[first[1]].rng, q.pfs[first[2]].rng)

(* validatePolicyForNodePolicy                                              *)
Compatible(p, q, ifs) ==
    /\ PfNamesValid(p, q, ifs)
    /\ p.roots \cap q.roots = {}
    /\ p.resource = q.resource => p.topo = q.topo

-----------------------------------------------------------------------------
(* A policy is created or updated; deleting is always admitted.             *)
InFlight == {r \in Handler : h[r].pc # "idle" /\ h[r].op = ""}
Submit(r, req) ==
    /\ h[r].pc = "idle" /\ requests < MaxRequests /\ requests' = requests + 1
    /\ h' = [q \in Handler |->
                IF q = r THEN [req EXCEPT !.with = {h[s].name : s \in InFlight}]
                ELSE IF q \in InFlight /\ req.op = "" THEN [h[q] EXCEPT !.with = @ \cup {req.name}]
                ELSE h[q]]
    /\ UNCHANGED <<stored, reported, updating, flags>>

SubmitPolicy(r) ==
    \E a \in Name, c \in Candidate :
        Submit(r, [Idle EXCEPT !.pc = "start", !.name = a, !.pol = Mutate(a, c)])
DeletePolicy(a) ==
    /\ a \in DOMAIN policies /\ requests < MaxRequests /\ requests' = requests + 1
    /\ policies' = [b \in DOMAIN policies \ {a} |-> policies[b]]
    /\ together' = {e \in together : a \notin e}
    /\ UNCHANGED <<config, reported, updating, flags, h, other>>

Answer(r, pc) == h' = [h EXCEPT ![r] = [@ EXCEPT !.pc = pc]]

(* validateSriovNetworkNodePolicy up to the reset of the flags. A slip: no  *)
(* reset.                                                                   *)
StartWithoutReset(r) ==
    /\ h[r].pc = "start"
    /\ Answer(r, IF h[r].name = DefaultPolicyName THEN "admit"
                 ELSE IF StaticValidate(h[r].pol) THEN "list" ELSE "deny")
    /\ UNCHANGED <<stored, reported, updating, flags, requests>>
Start(r) ==
    /\ h[r].pc = "start"
    /\ \/ /\ h[r].name = DefaultPolicyName
          /\ Answer(r, "admit") /\ UNCHANGED flags
       \/ /\ h[r].name # DefaultPolicyName /\ ~StaticValidate(h[r].pol)
          /\ Answer(r, "deny") /\ UNCHANGED flags
       \/ /\ h[r].name # DefaultPolicyName /\ StaticValidate(h[r].pol)
          /\ Answer(r, "list")
          /\ nodesSelected' = FALSE /\ interfaceSelected' = FALSE
    /\ UNCHANGED <<stored, reported, updating, requests>>

(* Nodes by label, NodeStates and policies.                                 *)
List(r) ==
    /\ h[r].pc = "list"
    /\ h' = [h EXCEPT ![r] =
                [@ EXCEPT !.pc = "check", !.seen = policies, !.known = reported,
                          !.todo = {n \in Node : NodeSelected(h[r].pol, NodeLabels[n])}]]
    /\ UNCHANGED <<stored, reported, updating, flags, requests>>

(* validatePolicyForNodeStateAndPolicy for one node.                        *)
Known(r, n) == IF n \in h[r].known THEN NodeIfaces[n] ELSE {}
Valid(r, n) == {i \in Known(r, n) : NicModelValid(h[r].pol, i, n)}
NodeError(r, n) ==
    \/ \E i \in Valid(r, n) : ~FitsInterface(h[r].pol, i)
    \/ \E b \in DOMAIN h[r].seen \ {h[r].name} :
          /\ NodeSelected(h[r].seen[b], NodeLabels[n])
          /\ ~Compatible(h[r].pol, h[r].seen[b], Known(r, n))
CheckNode(r, n) ==
    /\ h[r].pc = "check" /\ n \in h[r].todo
    /\ nodesSelected' = TRUE
    /\ interfaceSelected' = (interfaceSelected \/ Valid(r, n) # {})
    /\ h' = [h EXCEPT ![r] = [@ EXCEPT !.todo = h[r].todo \ {n},
                                       !.pc = IF NodeError(r, n) THEN "deny" ELSE "check"]]
    /\ UNCHANGED <<stored, reported, updating, requests>>

Decide(r) ==
    /\ h[r].pc = "check" /\ h[r].todo = {}
    /\ Answer(r, IF nodesSelected /\ interfaceSelected THEN "admit" ELSE "deny")
    /\ UNCHANGED <<stored, reported, updating, flags, requests>>

-----------------------------------------------------------------------------
(* validateSriovOperatorConfig: the previous config is read, then the       *)
(* NodeStates. A slip: the NodeStates are not.                              *)
SubmitConfig(r, to) ==
    Submit(r, [Idle EXCEPT !.pc = "config", !.to = to,
                           !.op = IF config = "absent" THEN "create" ELSE "update"])
CheckPreviousOnly(r) ==
    /\ h[r].pc = "config"
    /\ Answer(r, "admit")
    /\ UNCHANGED <<stored, reported, updating, flags, requests>>
CheckPrevious(r) ==
    /\ h[r].pc = "config"
    /\ Answer(r, IF h[r].to = "drain" \/ config \in {"absent", h[r].to} THEN "admit" ELSE "states")
    /\ UNCHANGED <<stored, reported, updating, flags, requests>>
CheckStates(r) ==
    /\ h[r].pc = "states"
    /\ Answer(r, IF updating = {} THEN "admit" ELSE "deny")
    /\ UNCHANGED <<stored, reported, updating, flags, requests>>

Outdated(hs) == [r \in Handler |-> IF hs[r].op = "" THEN hs[r] ELSE [hs[r] EXCEPT !.stale = TRUE]]
DeleteConfig ==
    /\ config # "absent" /\ config' = "absent" /\ h' = Outdated(h)
    /\ requests < MaxRequests /\ requests' = requests + 1
    /\ UNCHANGED <<policies, other, together, reported, updating, flags>>

(* The API server stores what was admitted. It creates only what is absent; *)
(* an update of an object that changed meanwhile is validated again.        *)
StorePolicy(r) ==
    /\ h[r].pc = "admit" /\ h[r].op = ""
    /\ LET a == h[r].name IN
       /\ policies' = [b \in DOMAIN policies \cup {a} |-> IF b = a THEN h[r].pol ELSE policies[b]]
       /\ together' = {e \in together : a \notin e} \cup {{a, b} : b \in h[r].with \ {a}}
    /\ h' = [h EXCEPT ![r] = Idle]
    /\ UNCHANGED <<config, other, reported, updating, flags, requests>>
StoreConfig(r) ==
    /\ h[r].pc = "admit" /\ h[r].op # ""
    /\ \/ /\ (h[r].op = "create") = (config = "absent") /\ ~(h[r].op = "update" /\ h[r].stale)
          /\ config' = h[r].to /\ h' = Outdated([h EXCEPT ![r] = Idle])
       \/ /\ h[r].op = "update" /\ h[r].stale /\ config # "absent"
          /\ h' = [h EXCEPT ![r] = [@ EXCEPT !.pc = "config", !.stale = FALSE, !.late = {}]]
          /\ UNCHANGED config
       \/ /\ (h[r].op = "create") # (config = "absent")
          /\ h' = [h EXCEPT ![r] = Idle] /\ UNCHANGED config
    /\ UNCHANGED <<policies, other, together, reported, updating, flags, requests>>
Refuse(r) ==
    /\ h[r].pc = "deny" /\ h' = [h EXCEPT ![r] = Idle]
    /\ UNCHANGED <<stored, reported, updating, flags, requests>>

-----------------------------------------------------------------------------
(* MaxUnavailable for a number of nodes: -1 no limit, Invalid an error. A   *)
(* slip: any percentage.                                                    *)
Invalid == -2
MaxUnavailableAnyPercent(pool, numOfNodes) ==
    IF pool.max = <<>> THEN -1
    ELSE IF pool.max[1] = "%" THEN (pool.max[2] * numOfNodes) \div 100
    ELSE IF pool.max[1] = "text" \/ pool.max[2] < 0 THEN Invalid ELSE pool.max[2]
MaxUnavailable(pool, numOfNodes) ==
    IF pool.max = <<>> THEN -1
    ELSE IF pool.max[1] = "text" \/ (pool.max[1] = "%" /\ pool.max[2] \notin 1..100) THEN Invalid
    ELSE IF pool.max[1] = "%" THEN (pool.max[2] * numOfNodes) \div 100
    ELSE IF pool.max[2] < 0 THEN Invalid ELSE pool.max[2]
ValidatePool(pool) ==
    /\ ~((pool.max # <<>> \/ pool.selector) /\ pool.ovs)
    /\ MaxUnavailable(pool, 0) # Invalid
    /\ pool.ovsConfigSafe
ValidateNetworkNamespace(cr) == cr.foreign => cr.target = ""

PutPool(pool) ==
    /\ ValidatePool(pool) /\ other # {pool} /\ other' = {pool}
    /\ requests < MaxRequests /\ requests' = requests + 1
    /\ UNCHANGED <<policies, config, together, reported, updating, flags, h>>
PutNetwork(cr) ==
    /\ ValidateNetworkNamespace(cr) /\ other # {cr} /\ other' = {cr}
    /\ requests < MaxRequests /\ requests' = requests + 1
    /\ UNCHANGED <<policies, config, together, reported, updating, flags, h>>

(* Nodes report their interfaces, and start and finish updates.             *)
NodeReports(n) ==
    /\ n \notin reported /\ reported' = reported \cup {n}
    /\ UNCHANGED <<stored, updating, flags, h, requests>>
UpdateStarts(n) ==
    /\ n \notin updating /\ requests < MaxRequests /\ requests' = requests + 1
    /\ updating' = updating \cup {n}
    /\ h' = [r \in Handler |-> IF h[r].pc = "admit" THEN [h[r] EXCEPT !.late = @ \cup {n}] ELSE h[r]]
    /\ UNCHANGED <<stored, reported, flags>>
UpdateEnds(n) ==
    /\ n \in updating /\ updating' = updating \ {n}
    /\ UNCHANGED <<stored, reported, flags, h, requests>>

HandlerStep(r) ==
    \/ SubmitPolicy(r) \/ \E to \in {"drain", "noDrain"} : SubmitConfig(r, to)
    \/ Start(r) \/ List(r) \/ Decide(r) \/ \E n \in Node : CheckNode(r, n)
    \/ CheckPrevious(r) \/ CheckStates(r)
    \/ StorePolicy(r) \/ StoreConfig(r) \/ Refuse(r)
WebhookNext ==
    \/ \E r \in Handler : HandlerStep(r)
    \/ \E a \in Name : DeletePolicy(a)
    \/ DeleteConfig
    \/ \E pool \in Pool : PutPool(pool)
    \/ \E cr \in Network : PutNetwork(cr)
    \/ \E n \in Node : NodeReports(n) \/ UpdateStarts(n) \/ UpdateEnds(n)
WebhookSpec == WebhookInit /\ [][WebhookNext]_webhookVars

-----------------------------------------------------------------------------
(* Types; a stored policy has ranges within its VFs.                        *)
WebhookTypeOK ==
    /\ DOMAIN policies \subseteq Name /\ config \in {"absent", "drain", "noDrain"}
    /\ \A r \in Handler :
          /\ h[r].pc \in {"idle", "start", "list", "check", "config", "states", "admit", "deny"}
          /\ h[r].todo \subseteq Node /\ h[r].late \subseteq Node
    /\ \A a \in DOMAIN policies \ {DefaultPolicyName} : \A k \in DOMAIN policies[a].pfs :
          policies[a].pfs[k].rng # NoRange =>
              policies[a].pfs[k].rng[2] < policies[a].numVfs

(* What is stored can be used: a pool has a limit for every number of nodes *)
(* though its validation asked for none only. Includes the types.           *)
PoolLimits == WebhookTypeOK /\
    \A pool \in other \cap Pool : \A numOfNodes \in 0..10 :
        MaxUnavailable(pool, numOfNodes) \in
            IF pool.max = <<>> THEN {-1} ELSE IF pool.max[1] = "%" THEN 0..numOfNodes ELSE Nat

(* Two admitted policies never take the same VF of a PF they both name by   *)
(* its name and no alternative one, one of them naming no other PF, and     *)
(* both with or both without a range; unless they were in flight together.  *)
NamesPf(p, i) == Hits(p, i) # {} /\ PfNames(p) \cap i.alt = {}
WithRange(p, i) == p.pfs[FirstHit(p, i)].rng # NoRange
Comparable(p, q, i) ==
    /\ NamesPf(p, i) /\ NamesPf(q, i) /\ WithRange(p, i) = WithRange(q, i)
    /\ Len(p.pfs) = 1 \/ Len(q.pfs) = 1
TakeDifferentVfs(p, q) ==
    \A n \in Node : NodeSelected(p, NodeLabels[n]) /\ NodeSelected(q, NodeLabels[n]) =>
        \A i \in NodeIfaces[n] : Comparable(p, q, i) =>
            /\ ~IsVFRangeOverlapping(VfRange(p, i), VfRange(q, i))
            /\ p.external = q.external
AdmittedDisjoint ==
    \A a, b \in DOMAIN policies \ {DefaultPolicyName} :
        a # b /\ {a, b} \notin together => TakeDifferentVfs(policies[a], policies[b])

(* The flags answer the request they are read for: a request that was alone *)
(* is admitted exactly if its policy is valid, selects a node and a NIC.    *)
Matches(r) == {n \in Node : NodeSelected(h[r].pol, NodeLabels[n])}
Admissible(r) ==
    \/ h[r].name = DefaultPolicyName
    \/ /\ StaticValidate(h[r].pol)
       /\ \A n \in Matches(r) : ~NodeError(r, n)
       /\ \E n \in Matches(r) : Valid(r, n) # {}
FlagsAnswerRequest ==
    \A r \in Handler : h[r].op = "" /\ h[r].with = {} =>
        /\ h[r].pc = "admit" => Admissible(r)
        /\ h[r].pc = "deny" => ~Admissible(r)

(* DisableDrain goes from false to true only while no node is updating,     *)
(* except nodes that started after the check.                               *)
DrainKeptDuringUpdate ==
    [][config = "drain" /\ config' = "noDrain" =>
          \E r \in Handler : h[r].pc = "admit" /\ h'[r].pc = "idle" /\ updating \subseteq h[r].late
      ]_webhookVars
=============================================================================
