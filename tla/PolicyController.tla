--------------------------- MODULE PolicyController ---------------------------
(* SriovNetworkNodePolicyReconciler: one reconcile at a time renders the    *)
(* policies into the NodeStates of the selected nodes, removes the          *)
(* NodeStates of nodes that are gone, and writes the ConfigMap and the node *)
(* labels of the device plugin. A read and the write that depends on it are *)
(* separate steps; the config daemons, the users and the clock run between. *)
EXTENDS PolicyRender, FiniteSets

CONSTANTS
    Node,           \* numbers: nodes are listed in their order
    Name,           \* names of policies
    Candidate,      \* policies users write
    Existing,       \* policies there may be when the operator starts
    NodeIfaces,     \* what the daemon of each node reports
    NodeLabels,     \* labels of each node
    DelayMinutes,   \* STALE_NODE_STATE_CLEANUP_DELAY_MINUTES, 0 or not
    ManageSoftwareBridges,
    NoState,
    MaxEvents       \* bound on what users, nodes and failures do

Policies == Candidate \cup UNION {{pols[a] : a \in DOMAIN pols} : pols \in Existing}

ASSUME PolicyAssumption ==
    /\ Node \subseteq Nat /\ Name \subseteq Nat
    /\ DelayMinutes \in Nat /\ ManageSoftwareBridges \in BOOLEAN
    /\ MaxEvents \in Nat
    /\ \A pols \in Existing : DOMAIN pols \subseteq Name
    /\ \A p \in Policies :
          /\ p.numVfs \in Nat /\ p.prio \in 0..99 /\ DOMAIN p.pfs \subseteq Nat
          /\ \A k \in DOMAIN p.pfs : p.pfs[k].rng \in (Int \X Int) \cup {BadRange}
    /\ \A n \in Node : \A i, j \in NodeIfaces[n] : i.pci = j.pci => i = j

VARIABLES
    policies,       \* the policies, by name
    nodes,          \* nodes with the labels of the daemon's node selector
    poolMode,       \* RDMA mode of the nodes' pool, "error" with two pools
    state,          \* NodeState of each node
    configMap,      \* device plugin resources of each node
    dpLabel,        \* device plugin label of each node
    queued,         \* a sync event is in the work queue
    pc, snap,       \* the reconcile: next step, policies and
    listed,         \* nodes it listed
    todo,           \* nodes left in the current loop
    found, new,     \* NodeState as read and as rendered
    rest, ppp,      \* policies left, priority of the previous one
    conf,           \* device plugin data rendered so far
    events

cluster == <<policies, nodes, poolMode, state, configMap, dpLabel>>
locals == <<pc, snap, listed, todo, found, new, rest, ppp, conf>>
policyVars == <<cluster, queued, locals, events>>

Empty == <<>>               \* the function without arguments
System(mode) == IF mode = "error" THEN "" ELSE mode
NewState(mode) ==
    [spec |-> Empty, bridges |-> Empty, system |-> System(mode), ifs |-> {}, keep |-> "none"]
Selects(pols, n) ==
    {a \in DOMAIN pols : a # DefaultPolicyName /\ NodeSelected(pols[a], NodeLabels[n])}

PolicyInit ==
    /\ policies \in Existing
    /\ nodes = Node
    /\ poolMode = ""
    /\ state = [n \in Node |-> NoState]
    /\ configMap = Empty
    /\ dpLabel = [n \in Node |-> ""]
    /\ queued = TRUE            \* the event sent by SetupWithManager
    /\ pc = "idle" /\ snap = Empty /\ listed = {} /\ todo = {}
    /\ found = NoState /\ new = NoState /\ rest = {} /\ ppp = InitialPriority
    /\ conf = Empty
    /\ events = 0

Goto(step) == pc' = step
Reset ==
    /\ pc' = "idle" /\ snap' = Empty /\ listed' = {} /\ todo' = {}
    /\ found' = NoState /\ new' = NoState /\ rest' = {} /\ ppp' = InitialPriority
    /\ conf' = Empty
ReturnError == Reset /\ queued' = TRUE

-----------------------------------------------------------------------------
StartReconcile ==
    /\ pc = "idle" /\ queued /\ queued' = FALSE
    /\ snap' = policies /\ listed' = nodes /\ todo' = nodes
    /\ Goto("node")
    /\ UNCHANGED <<cluster, found, new, rest, ppp, conf, events>>

Current == CHOOSE n \in todo : \A m \in todo : n <= m

(* syncSriovNetworkNodeState: get or create. Without interfaces in the      *)
(* status only the annotation is taken away.                                *)
GetNodeState ==
    /\ pc = "node" /\ todo # {}
    /\ UNCHANGED <<policies, nodes, poolMode, configMap, dpLabel, queued,
                   snap, listed, conf, events>>
    /\ LET n == Current  s == state[Current] IN
       \/ /\ s = NoState
          /\ state' = [state EXCEPT ![n] = NewState(poolMode)]
          /\ todo' = todo \ {n}
          /\ UNCHANGED <<pc, found, new, rest, ppp>>
       \/ /\ s # NoState /\ s.ifs = {}
          /\ IF s.keep = "none"
             THEN todo' = todo \ {n} /\ UNCHANGED <<pc, found, new>>
             ELSE /\ found' = s /\ new' = [s EXCEPT !.keep = "none"]
                  /\ Goto("write") /\ UNCHANGED todo
          /\ UNCHANGED <<state, rest, ppp>>
       \/ /\ s # NoState /\ s.ifs # {}
          /\ found' = s
          /\ new' = [s EXCEPT !.keep = "none", !.spec = Empty, !.bridges = Empty,
                              !.system = System(poolMode)]
          /\ rest' = Selects(snap, n) /\ ppp' = InitialPriority
          /\ Goto("apply") /\ UNCHANGED <<state, todo>>

(* One round of the loop over the sorted policies.                          *)
ApplyPolicy ==
    /\ pc = "apply" /\ rest # {}
    /\ LET a == First(snap, rest)  p == snap[a] IN
       IF ApplyError(p, new.ifs) \/ (ManageSoftwareBridges /\ BridgeError(p))
       THEN ReturnError
       ELSE /\ new' = [new EXCEPT
                  !.spec = Apply(a, p, new.ifs, new.spec, ppp = p.prio),
                  !.bridges = IF ManageSoftwareBridges
                              THEN ApplyBridgeConfig(p, new.ifs, new.bridges) ELSE new.bridges]
            /\ ppp' = p.prio
            /\ rest' = rest \ {a}
            /\ UNCHANGED <<queued, pc, snap, listed, todo, found, conf>>
    /\ UNCHANGED <<cluster, events>>

PoliciesApplied ==
    /\ pc = "apply" /\ rest = {}
    /\ IF new = found
       THEN todo' = todo \ {Current} /\ found' = NoState /\ new' = NoState /\ Goto("node")
       ELSE UNCHANGED <<todo, found, new>> /\ Goto("write")
    /\ ppp' = InitialPriority
    /\ UNCHANGED <<cluster, queued, snap, listed, rest, conf, events>>

(* Update, refused when the NodeState changed since it was read.            *)
WriteNodeState ==
    /\ pc = "write"
    /\ IF state[Current] = found
       THEN /\ state' = [state EXCEPT ![Current] = new]
            /\ todo' = todo \ {Current} /\ found' = NoState /\ new' = NoState
            /\ Goto("node") /\ UNCHANGED <<queued, snap, listed, rest, ppp, conf>>
       ELSE UNCHANGED state /\ ReturnError
    /\ UNCHANGED <<policies, nodes, poolMode, configMap, dpLabel, events>>

(* NodeStates of nodes that were not listed. A slip: all of them.           *)
EveryState == {n \in Node : state[n] # NoState}
StaleStates == {n \in Node : state[n] # NoState} \ listed
ListNodeStates ==
    /\ pc = "node" /\ todo = {}
    /\ todo' = StaleStates
    /\ Goto("stale")
    /\ UNCHANGED <<cluster, queued, snap, listed, found, new, rest, ppp, conf, events>>

(* handleStaleNodeState: wait for the delay after the first sight, then     *)
(* delete. A slip: every sight starts the delay anew.                       *)
AlwaysKept(s) == [s EXCEPT !.keep = "waiting"]
KeptOrDeleted(s) ==
    IF DelayMinutes # 0 /\ s.keep = "none" THEN [s EXCEPT !.keep = "waiting"]
    ELSE IF DelayMinutes # 0 /\ s.keep = "waiting" THEN s
    ELSE NoState

(* The node loses its device plugin label, then its NodeState.              *)
HandleStaleNodeState ==
    /\ pc = "stale" /\ todo # {}
    /\ LET n == Current IN
       /\ dpLabel' = [dpLabel EXCEPT ![n] = ""]
       /\ state' = [state EXCEPT ![n] = KeptOrDeleted(state[n])]
       /\ todo' = todo \ {n}
    /\ UNCHANGED <<policies, nodes, poolMode, configMap, queued, pc, snap, listed,
                   found, new, rest, ppp, conf, events>>

StaleHandled ==
    /\ pc = "stale" /\ todo = {}
    /\ todo' = listed /\ Goto("config")
    /\ UNCHANGED <<cluster, queued, snap, listed, found, new, rest, ppp, conf, events>>

(* syncDevicePluginConfigMap: render and label node by node; the first      *)
(* error ends the reconcile and the ConfigMap stays as it is for every node.*)
RenderConfig ==
    /\ pc = "config" /\ todo # {}
    /\ LET n == Current  names == Selects(snap, n) IN
       IF \/ names # {} /\ state[n] = NoState
          \/ names # {} /\ state[n] # NoState /\ RenderError(snap, names, state[n].ifs)
          \/ n \notin nodes             \* LabelNode: the node is gone
       THEN UNCHANGED dpLabel /\ ReturnError
       ELSE LET data == IF names = {} THEN Empty
                        ELSE RenderDevicePluginConfigData(snap, names, state[n].ifs) IN
            /\ conf' = [m \in DOMAIN conf \cup {n} |-> IF m = n THEN data ELSE conf[m]]
            /\ dpLabel' = [dpLabel EXCEPT ![n] = IF data = Empty THEN "Disabled" ELSE "Enabled"]
            /\ todo' = todo \ {n}
            /\ UNCHANGED <<queued, pc, snap, listed, found, new, rest, ppp>>
    /\ UNCHANGED <<policies, nodes, poolMode, state, configMap, events>>

WriteConfigMap ==
    /\ pc = "config" /\ todo = {}
    /\ configMap' = conf
    /\ Reset
    /\ UNCHANGED <<policies, nodes, poolMode, state, dpLabel, queued, events>>

Step ==
    \/ GetNodeState \/ ApplyPolicy \/ PoliciesApplied \/ WriteNodeState
    \/ ListNodeStates \/ HandleStaleNodeState \/ StaleHandled
    \/ RenderConfig \/ WriteConfigMap

(* A failed API call or a restart.                                          *)
ReconcileFails ==
    /\ pc # "idle" /\ events < MaxEvents /\ events' = events + 1
    /\ ReturnError
    /\ UNCHANGED cluster

(* RequeueAfter ResyncPeriod.                                               *)
Resync ==
    /\ pc = "idle" /\ ~queued /\ queued' = TRUE
    /\ UNCHANGED <<cluster, locals, events>>

-----------------------------------------------------------------------------
(* Users, nodes, the config daemons and the clock. Policies, nodes and pool *)
(* configurations are watched; NodeStates are not.                          *)
UserDoes ==
    /\ events < MaxEvents /\ events' = events + 1
    /\ queued' = TRUE
    /\ UNCHANGED <<state, configMap, locals>>

PutPolicy(a, p) ==
    /\ UserDoes
    /\ policies' = [b \in DOMAIN policies \cup {a} |-> IF b = a THEN p ELSE policies[b]]
    /\ policies' # policies
    /\ UNCHANGED <<nodes, poolMode, dpLabel>>
DeletePolicy(a) ==
    /\ UserDoes /\ a \in DOMAIN policies
    /\ policies' = [b \in DOMAIN policies \ {a} |-> policies[b]]
    /\ UNCHANGED <<nodes, poolMode, dpLabel>>
NodeJoinsOrLeaves(n) ==
    /\ UserDoes
    /\ nodes' = IF n \in nodes THEN nodes \ {n} ELSE nodes \cup {n}
    /\ dpLabel' = [dpLabel EXCEPT ![n] = ""]
    /\ UNCHANGED <<policies, poolMode>>
SetPoolMode(mode) ==
    /\ UserDoes /\ mode # poolMode /\ poolMode' = mode
    /\ UNCHANGED <<policies, nodes, dpLabel>>

DaemonReports(n) ==
    /\ n \in nodes /\ state[n] # NoState /\ state[n].ifs # NodeIfaces[n]
    /\ state' = [state EXCEPT ![n].ifs = NodeIfaces[n]]
    /\ UNCHANGED <<policies, nodes, poolMode, configMap, dpLabel, queued, locals, events>>

KeepUntilPasses(n) ==
    /\ state[n] # NoState /\ state[n].keep = "waiting"
    /\ state' = [state EXCEPT ![n].keep = "due"]
    /\ UNCHANGED <<policies, nodes, poolMode, configMap, dpLabel, queued, locals, events>>

PolicyNext ==
    \/ StartReconcile \/ Step \/ ReconcileFails \/ Resync
    \/ \E a \in Name : DeletePolicy(a) \/ \E p \in Candidate : PutPolicy(a, p)
    \/ \E n \in Node : NodeJoinsOrLeaves(n) \/ DaemonReports(n) \/ KeepUntilPasses(n)
    \/ \E mode \in {"", "exclusive", "error"} : SetPoolMode(mode)

PolicySpec == PolicyInit /\ [][PolicyNext]_policyVars

(* Weak fairness of the worker, the resync timer, the daemons and the       *)
(* clock, as what it comes to where no step can get stuck (no state is a    *)
(* deadlock): a reconcile ends and another one starts, a daemon that has    *)
(* something to report does, a date passes.                                 *)
Behind(n) == n \in nodes /\ state[n] # NoState /\ state[n].ifs # NodeIfaces[n]
Waiting(n) == state[n] # NoState /\ state[n].keep = "waiting"
PolicyFairness ==
    /\ []<>(pc = "idle") /\ []<>(pc # "idle")
    /\ \A n \in Node : []<>~Behind(n) /\ []<>~Waiting(n)
FairPolicySpec == PolicySpec /\ PolicyFairness

-----------------------------------------------------------------------------
(* Types; a reconcile holds a NodeState exactly while it renders one, and   *)
(* never treats the NodeState of a node it listed as stale.                 *)
PolicyTypeOK ==
    /\ DOMAIN policies \subseteq Name /\ nodes \subseteq Node
    /\ todo \subseteq Node /\ rest \subseteq DOMAIN snap
    /\ pc \in {"idle", "node", "apply", "write", "stale", "config"}
    /\ (found # NoState) = (pc \in {"apply", "write"})
    /\ pc = "stale" => todo \cap listed = {}
    /\ \A n \in Node : dpLabel[n] \in {"", "Disabled", "Enabled"}

(* The VF groups of a PF share no VF and no resource name, and lie within   *)
(* its VFs, in the NodeState and in every stage of the rendering.           *)
GroupsOK(spec) ==
    \A x \in DOMAIN spec : \A g \in spec[x].groups :
        /\ 0 <= g.rng[1] /\ g.rng[1] <= g.rng[2] /\ g.rng[2] < spec[x].numVfs
        /\ \A h \in spec[x].groups \ {g} :
              /\ g.resource # h.resource
              /\ g.rng[2] < h.rng[1] \/ h.rng[2] < g.rng[1]
GroupsDisjoint ==
    /\ PolicyTypeOK
    /\ \A n \in Node : state[n] # NoState => GroupsOK(state[n].spec)
    /\ new # NoState => GroupsOK(new.spec)

(* "use only highest priority": what a rendering leaves of a policy's group *)
(* is decided by the policies after it alone. Stated for the result of the  *)
(* whole loop, against the list of policies.                                *)
Conflict(p, q, i) ==
    p.resource = q.resource \/ IsVFRangeOverlapping(VfRange(p, i), VfRange(q, i))
ReferenceGroups(pols, names, i) ==
    LET on == {a \in names : pols[a].numVfs > 0 /\ i \in Targets(pols[a], {i})} IN
    {a \in on : \A b \in on : Before(pols, a, b) => ~Conflict(pols[a], pols[b], i)}
HighestPriorityWins ==
    pc = "apply" /\ rest = {} =>
        \A i \in new.ifs :
            LET want == ReferenceGroups(snap, Selects(snap, Current), i) IN
            /\ (want # {}) = (i.pci \in DOMAIN new.spec)
            /\ want # {} => {g.policy : g \in new.spec[i.pci].groups} = want

(* What the NodeState of a node should hold, by a fold over the policies.   *)
Rendered(n, ifs) ==
    LET after[done \in SUBSET Selects(policies, n)] ==
          IF done = {} THEN [spec |-> Empty, ppp |-> InitialPriority]
          ELSE LET last == CHOOSE a \in done : \A b \in done \ {a} : Before(policies, b, a)
                   prev == after[done \ {last}]
                   p == policies[last]
               IN  [spec |-> Apply(last, p, ifs, prev.spec, prev.ppp = p.prio), ppp |-> p.prio]
    IN  after[Selects(policies, n)].spec

(* No policy stops the loops for everyone.                                  *)
Unblocked ==
    \A n \in nodes : \A a \in Selects(policies, n) :
        /\ ~ApplyError(policies[a], NodeIfaces[n])
        /\ ManageSoftwareBridges => ~BridgeError(policies[a])

Synced ==
    /\ \A n \in Node \ nodes : state[n] = NoState
    /\ \A n \in nodes :
          state[n] # NoState /\ state[n].ifs = NodeIfaces[n] /\ state[n].keep = "none"
    /\ DOMAIN configMap = nodes
    /\ \A n \in nodes :
          /\ dpLabel[n] = IF configMap[n] = Empty THEN "Disabled" ELSE "Enabled"
          /\ configMap[n] =
                RenderDevicePluginConfigData(policies, Selects(policies, n), NodeIfaces[n])
          /\ NodeIfaces[n] # {} => /\ state[n].system = System(poolMode)
                                   /\ state[n].spec = Rendered(n, NodeIfaces[n])

(* "Alternative names also work with VF range notation": the group that a   *)
(* policy has on a PF it names by an alternative name has the named range.  *)
AltNamesRange ==
    \A n \in Node : state[n] # NoState => \A i \in state[n].ifs :
        i.pci \in DOMAIN state[n].spec => \A g \in state[n].spec[i.pci].groups :
            g.policy \in DOMAIN policies => \A k \in DOMAIN policies[g.policy].pfs :
                LET pf == policies[g.policy].pfs[k] IN
                pf.name \in i.alt /\ pf.rng # NoRange => g.rng = pf.rng

(* Once users stop, NodeStates, ConfigMap and labels become what the        *)
(* policies and nodes ask for and stay so, unless a policy blocks all.      *)
EventuallySynced == <>[](Synced \/ ~Unblocked)
=============================================================================
