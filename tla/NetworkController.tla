-------------------------- MODULE NetworkController --------------------------
(* The network controllers: SriovNetwork, SriovIBNetwork and OVSNetwork     *)
(* objects, all of one name, and the NetworkAttachmentDefinitions (NADs)    *)
(* rendered from them. A NAD is identified by its namespace. Every API call *)
(* of a reconcile is a step; an object version is told from another by its  *)
(* content, and a spec stands for its generation.                           *)
EXTENDS Naturals

CONSTANTS
    Net,            \* network objects
    Namespace,
    OperatorNs,     \* vars.Namespace
    Home,           \* namespace of each network object
    Kind,           \* kind of each network object
    NetSpec,        \* specs: target namespace, and option -> value
    NoCR, NoNad,
    MaxOps,         \* bound on what users do
    MaxFaults       \* bound on failed API calls and restarts

Condition == [ready : {"Unknown", "True", "False"}, spec : NetSpec]
CR == [spec : NetSpec, uid : Nat, deleting : BOOLEAN, finalizer : BOOLEAN,
       last : Namespace \cup {"", "absent"}, cond : Condition]

(* Options that no renderer checks have no invalid value.                   *)
Unchecked == {"vlan", "vlanProto", "logLevel", "logFile", "bridge", "mtu", "trunk", "interfaceType"}

ASSUME NetworkAssumption ==
    /\ OperatorNs \in Namespace
    /\ Home \in [Net -> Namespace]
    /\ Kind \in [Net -> {"SriovNetwork", "SriovIBNetwork", "OVSNetwork"}]
    /\ \A s \in NetSpec :
          /\ s.target \in Namespace \cup {""}
          /\ \A o \in Unchecked \cap DOMAIN s.content : s.content[o] # "invalid"
    /\ NoCR \notin CR /\ "user" \notin Net
    /\ MaxOps \in Nat /\ MaxFaults \in Nat

VARIABLES
    cr,             \* the network objects
    nad,            \* the NAD in each namespace
    namespaces,     \* namespaces that exist
    queue,          \* keys in the work queues
    npc,            \* next API call of each reconcile
    mine,           \* the reconcile's copy of the network object
    want,           \* the NAD it rendered
    nfound,         \* the NAD it read
    moved,          \* history: a target namespace was changed
    ops, faults

netObjects == <<cr, nad, namespaces>>
locals == <<npc, mine, want, nfound>>
bounds == <<moved, ops, faults>>
netVars == <<netObjects, locals, queue, bounds>>

-----------------------------------------------------------------------------
(* RenderNetAttDef. An option is "invalid" when its value is outside what   *)
(* the renderer accepts or, for the ones pasted into the CNI configuration, *)
(* is not JSON. Options with a check are dropped when invalid.              *)
Verbatim == {"capabilities", "ipam", "metaPlugins"}
Kept(c, checked, plain) ==
    [o \in {x \in DOMAIN c : \/ x \in Verbatim \cup plain
                             \/ x \in checked /\ c[x] # "invalid"} |-> c[o]]

SriovNetworkConfig(c) ==
    Kept(c, {"vlanQoS", "spoofChk", "trust", "linkState", "minTxRate", "maxTxRate"},
            {"vlan", "vlanProto", "logLevel", "logFile"})
SriovIBNetworkConfig(c) == Kept(c, {"linkState"}, {})
OVSNetworkConfig(c) ==
    Kept(c, {}, {"bridge", "vlan", "mtu", "trunk", "interfaceType"})

RenderNetAttDef(n, c) ==
    CASE Kind[n] = "SriovNetwork" -> SriovNetworkConfig(c)
      [] Kind[n] = "SriovIBNetwork" -> SriovIBNetworkConfig(c)
      [] OTHER -> OVSNetworkConfig(c)

BadJson(c) == \E o \in Verbatim \cap DOMAIN c : c[o] = "invalid"

Target(n, spec) == IF spec.target = "" THEN Home[n] ELSE spec.target

NoWant == [ns |-> OperatorNs, config |-> <<>>]
RenderedNad(n, c) == [ns |-> Target(n, c.spec), config |-> RenderNetAttDef(n, c.spec.content)]

(* The NAD as it is written: owner annotation, and an owner reference when  *)
(* the network object lives in the same namespace.                          *)
Written(n) ==
    [owner |-> n, config |-> want[n].config,
     ref |-> IF Home[n] = want[n].ns THEN mine[n].uid ELSE 0]

-----------------------------------------------------------------------------
NetworkInit ==
    /\ cr = [n \in Net |-> NoCR]
    /\ nad = [ns \in Namespace |-> NoNad]
    /\ namespaces = {OperatorNs} \cup {Home[n] : n \in Net}
    /\ queue = {}
    /\ npc = [n \in Net |-> "idle"]
    /\ mine = [n \in Net |-> NoCR]
    /\ want = [n \in Net |-> NoWant]
    /\ nfound = [n \in Net |-> NoNad]
    /\ moved = FALSE /\ ops = 0 /\ faults = 0

(* Watches: the object itself, NADs of its name in its own namespace (any   *)
(* namespace for an object in the operator's), and the creation of its      *)
(* target namespace.                                                        *)
(* A slip: only NADs of the network's own namespace are noticed.            *)
HandleOwnNamespace(n) == nad'[Home[n]] # nad[Home[n]]

HandleNetAttDef(n) ==
    \E ns \in Namespace : nad'[ns] # nad[ns] /\ Home[n] \in {ns, OperatorNs}
NamespaceHandlerCreate(n) ==
    cr[n] # NoCR /\ cr[n].spec.target \in namespaces' \ namespaces
Events(taken, again) ==
    queue' = (queue \ taken) \cup again
                 \cup {n \in Net : \/ cr'[n] # cr[n]
                                   \/ HandleNetAttDef(n)
                                   \/ NamespaceHandlerCreate(n)}

Reset(n) ==
    /\ npc' = [npc EXCEPT ![n] = "idle"]
    /\ mine' = [mine EXCEPT ![n] = NoCR]
    /\ want' = [want EXCEPT ![n] = NoWant]
    /\ nfound' = [nfound EXCEPT ![n] = NoNad]
Return(n) == Reset(n) /\ UNCHANGED bounds /\ Events({}, {})
NetError(n) == Reset(n) /\ UNCHANGED bounds /\ Events({}, {n})
Goto(n, call) ==
    /\ npc' = [npc EXCEPT ![n] = call]
    /\ UNCHANGED <<nfound, bounds>>
    /\ Events({}, {})

-----------------------------------------------------------------------------
(* Reconcile: a work queue with one worker per kind.                        *)
Misplaced(n, c) == c.spec.target # "" /\ Home[n] # OperatorNs

AfterFinalizer(n, c) ==
    IF BadJson(c.spec.content) THEN "condRender"
    ELSE IF c.last \notin {"absent", Target(n, c.spec)} THEN "deleteOld"
    ELSE "get"

FirstCall(n, c) ==
    CASE c = NoCR -> "idle"
      [] c # NoCR /\ Misplaced(n, c) -> "condInvalid"
      [] c # NoCR /\ ~Misplaced(n, c) /\ c.deleting ->
             IF c.finalizer THEN "deleteNad" ELSE "idle"
      [] OTHER -> IF Home[n] = OperatorNs /\ ~c.finalizer THEN "addFinalizer"
                  ELSE AfterFinalizer(n, c)

StartReconcile(n) ==
    /\ n \in queue /\ \A m \in Net : Kind[m] = Kind[n] => npc[m] = "idle"
    /\ LET call == FirstCall(n, cr[n]) IN
        /\ npc' = [npc EXCEPT ![n] = call]
        /\ mine' = [mine EXCEPT ![n] = IF call = "idle" THEN NoCR ELSE cr[n]]
        /\ want' = [want EXCEPT ![n] =
                       IF call = "idle" THEN NoWant ELSE RenderedNad(n, cr[n])]
    /\ UNCHANGED <<netObjects, nfound, bounds>>
    /\ Events({n}, {})

(* updateFinalizers: an Update, refused when the object changed.            *)
UpdateFinalizers(n) ==
    /\ npc[n] = "addFinalizer" /\ UNCHANGED <<nad, namespaces>>
    /\ IF cr[n] = mine[n]
       THEN LET new == [cr[n] EXCEPT !.finalizer = TRUE] IN
            /\ cr' = [cr EXCEPT ![n] = new]
            /\ mine' = [mine EXCEPT ![n] = new]
            /\ UNCHANGED want
            /\ Goto(n, AfterFinalizer(n, new))
       ELSE UNCHANGED cr /\ NetError(n)

(* The NAD of the namespace the annotation names is deleted, whoever owns   *)
(* it. A delete in the namespace "" is refused by the client.               *)
DeleteOldNad(n) ==
    /\ npc[n] = "deleteOld" /\ UNCHANGED <<cr, namespaces>>
    /\ IF mine[n].last = ""
       THEN UNCHANGED nad /\ NetError(n)
       ELSE /\ nad' = [nad EXCEPT ![mine[n].last] = NoNad]
            /\ UNCHANGED <<mine, want>>
            /\ Goto(n, "clearLast")

(* AnnotateObject: no call when the copy has the value already; otherwise a *)
(* patch without a version, whose answer replaces the copy of the object.   *)
AnnotateObject(n, value, call) ==
    /\ UNCHANGED <<nad, namespaces>>
    /\ IF mine[n].last = value
       THEN UNCHANGED <<cr, mine, want>> /\ Goto(n, call)
       ELSE IF cr[n] = NoCR
       THEN UNCHANGED cr /\ NetError(n)
       ELSE LET new == [cr[n] EXCEPT !.last = value] IN
            /\ cr' = [cr EXCEPT ![n] = new]
            /\ mine' = [mine EXCEPT ![n] = new]
            /\ UNCHANGED want
            /\ Goto(n, call)
ClearLastNamespace(n) == npc[n] = "clearLast" /\ AnnotateObject(n, "", "get")
SetLastNamespace(n) ==
    npc[n] = "setLast" /\ AnnotateObject(n, want[n].ns, "condReady")

GetNetAttDef(n) ==
    LET there == nad[want[n].ns] IN
    /\ npc[n] = "get"
    /\ nfound' = [nfound EXCEPT ![n] = there]
    /\ npc' = [npc EXCEPT ![n] =
          IF there = NoNad
          THEN IF want[n].ns \in namespaces THEN "create" ELSE "condFalse"
          ELSE IF there.owner \notin {n, "user"} THEN "condFalse"
          ELSE IF there.owner # n \/ there.config # want[n].config THEN "update"
          ELSE "condReady"]
    /\ UNCHANGED <<netObjects, mine, want, bounds>>
    /\ Events({}, {})

CreateNetAttDef(n) ==
    /\ npc[n] = "create" /\ UNCHANGED <<cr, namespaces, mine, want>>
    /\ IF nad[want[n].ns] = NoNad /\ want[n].ns \in namespaces
       THEN nad' = [nad EXCEPT ![want[n].ns] = Written(n)] /\ Goto(n, "setLast")
       ELSE UNCHANGED nad /\ Goto(n, "condError")

(* A slip: an update without the resource version that was read.            *)
UpdateAnyVersion(n) ==
    /\ npc[n] = "update" /\ UNCHANGED <<cr, namespaces, mine, want>>
    /\ IF nad[want[n].ns] # NoNad
       THEN nad' = [nad EXCEPT ![want[n].ns] = Written(n)] /\ Goto(n, "condReady")
       ELSE UNCHANGED nad /\ Goto(n, "condError")

UpdateNetAttDef(n) ==
    /\ npc[n] = "update" /\ UNCHANGED <<cr, namespaces, mine, want>>
    /\ IF nad[want[n].ns] = nfound[n]
       THEN nad' = [nad EXCEPT ![want[n].ns] = Written(n)] /\ Goto(n, "condReady")
       ELSE UNCHANGED nad /\ Goto(n, "condError")

(* ApplyCondition: no call when the copy has the condition already.         *)
(* observedGeneration is that of the copy at this moment.                   *)
DetectTransitions(old, new) == old # new
ApplyCondition(n) ==
    LET call == npc[n]
        cond == [ready |-> IF call = "condReady" THEN "True" ELSE "False", spec |-> mine[n].spec]
    IN  /\ call \in {"condReady", "condFalse", "condInvalid", "condRender", "condError"}
        /\ UNCHANGED <<nad, namespaces>>
        /\ IF cr[n] = NoCR /\ DetectTransitions(mine[n].cond, cond)
           THEN UNCHANGED cr /\ NetError(n)
           ELSE /\ \/ /\ DetectTransitions(mine[n].cond, cond)
                      /\ cr' = [cr EXCEPT ![n].cond = cond]
                   \/ /\ ~DetectTransitions(mine[n].cond, cond) \/ call = "condRender"
                      /\ UNCHANGED cr    \* nothing new, or formatJSON failed
                /\ IF call \in {"condRender", "condError"}
                   THEN NetError(n) ELSE Return(n)

(* A slip: the finalizer is removed before the NAD.                         *)
RemoveFinalizerFirst(n) ==
    /\ npc[n] = "deleteNad" /\ UNCHANGED <<nad, namespaces, mine, want>>
    /\ cr' = [cr EXCEPT ![n] = IF cr[n] = mine[n] THEN NoCR ELSE cr[n]]
    /\ Goto(n, "removeFinalizer")

(* cleanResourcesAndFinalizers.                                             *)
DeleteNetAttDef(n) ==
    /\ npc[n] = "deleteNad" /\ UNCHANGED <<cr, namespaces, mine, want>>
    /\ nad' = [nad EXCEPT ![want[n].ns] = NoNad]
    /\ Goto(n, "removeFinalizer")

RemoveNetFinalizer(n) ==
    /\ npc[n] = "removeFinalizer" /\ UNCHANGED <<nad, namespaces>>
    /\ CASE cr[n] = mine[n] -> cr' = [cr EXCEPT ![n] = NoCR] /\ Return(n)
         [] cr[n] = NoCR -> UNCHANGED cr /\ Return(n)
         [] OTHER -> UNCHANGED cr /\ NetError(n)

ReconcileStep(n) ==
    \/ UpdateFinalizers(n) \/ DeleteOldNad(n)
    \/ ClearLastNamespace(n) \/ SetLastNamespace(n)
    \/ GetNetAttDef(n) \/ CreateNetAttDef(n) \/ UpdateNetAttDef(n)
    \/ ApplyCondition(n) \/ DeleteNetAttDef(n) \/ RemoveNetFinalizer(n)

(* A failed API call or a restart of the operator: the key is tried again.  *)
ReconcileFails(n) ==
    /\ npc[n] # "idle"
    /\ faults < MaxFaults /\ faults' = faults + 1
    /\ Reset(n)
    /\ UNCHANGED <<netObjects, moved, ops>>
    /\ Events({}, {n})

-----------------------------------------------------------------------------
(* The API server and its users.                                            *)
UserDoes ==
    /\ ops < MaxOps /\ ops' = ops + 1
    /\ UNCHANGED <<locals, faults>>

CreateNetwork(n) ==
    /\ cr[n] = NoCR /\ Home[n] \in namespaces
    /\ UserDoes /\ UNCHANGED <<nad, namespaces, moved>>
    /\ \E s \in NetSpec :
          cr' = [cr EXCEPT ![n] = [spec |-> s, uid |-> ops + 1, deleting |-> FALSE,
                                   finalizer |-> FALSE, last |-> "absent",
                                   cond |-> [ready |-> "Unknown", spec |-> s]]]
    /\ Events({}, {})

EditNetwork(n) ==
    /\ cr[n] # NoCR
    /\ UserDoes /\ UNCHANGED <<nad, namespaces>>
    /\ \E s \in NetSpec \ {cr[n].spec} :
          /\ cr' = [cr EXCEPT ![n].spec = s]
          /\ moved' = (moved \/ Target(n, s) # Target(n, cr[n].spec))
    /\ Events({}, {})

DeleteNetwork(n) ==
    /\ cr[n] # NoCR /\ ~cr[n].deleting
    /\ UserDoes /\ UNCHANGED <<nad, namespaces, moved>>
    /\ cr' = [cr EXCEPT ![n] = IF cr[n].finalizer THEN [cr[n] EXCEPT !.deleting = TRUE]
                               ELSE NoCR]
    /\ Events({}, {})

CreateNamespace(ns) ==
    /\ ns \notin namespaces /\ namespaces' = namespaces \cup {ns}
    /\ UserDoes /\ UNCHANGED <<cr, nad, moved>>
    /\ Events({}, {})

UserWritesNad(ns) ==
    /\ ns \in namespaces
    /\ nad' = [nad EXCEPT ![ns] = IF nad[ns] = NoNad
                                  THEN [owner |-> "user", config |-> <<>>, ref |-> 0]
                                  ELSE NoNad]
    /\ UserDoes /\ UNCHANGED <<cr, namespaces, moved>>
    /\ Events({}, {})

(* Garbage collector: the object an owner reference names is gone.          *)
GarbageCollectNad(ns) ==
    /\ nad[ns] # NoNad /\ nad[ns].ref # 0
    /\ LET c == cr[nad[ns].owner] IN ~(c # NoCR /\ c.uid = nad[ns].ref)
    /\ nad' = [nad EXCEPT ![ns] = NoNad]
    /\ UNCHANGED <<cr, namespaces, locals, bounds>>
    /\ Events({}, {})

NetworkNext ==
    \/ \E n \in Net : \/ StartReconcile(n) \/ ReconcileStep(n) \/ ReconcileFails(n)
                      \/ CreateNetwork(n) \/ EditNetwork(n) \/ DeleteNetwork(n)
    \/ \E ns \in Namespace : CreateNamespace(ns) \/ UserWritesNad(ns) \/ GarbageCollectNad(ns)

NetworkSpec == NetworkInit /\ [][NetworkNext]_netVars

(* The work queue serves every key, a reconcile goes on, the garbage        *)
(* collector runs. Users and failures have no fairness.                     *)
NetworkFairness ==
    /\ \A n \in Net : SF_netVars(StartReconcile(n)) /\ WF_netVars(ReconcileStep(n))
    /\ \A ns \in Namespace : WF_netVars(GarbageCollectNad(ns))
FairNetworkSpec == NetworkSpec /\ NetworkFairness

-----------------------------------------------------------------------------
(* What may be in a NAD: no option the renderer should have dropped or      *)
(* refused.                                                                 *)
NadOK(x) ==
    /\ x.owner \in Net \cup {"user"} /\ x.ref \in 0..MaxOps
    /\ \A o \in DOMAIN x.config : x.config[o] # "invalid"

(* Types of the objects and of the reconcile's locals; no NAD holds a value *)
(* the renderers check for.                                                 *)
NetworkTypeOK ==
    /\ \A n \in Net : cr[n] = NoCR \/ cr[n] \in CR
    /\ \A ns \in Namespace : nad[ns] # NoNad => NadOK(nad[ns])
    /\ namespaces \subseteq Namespace /\ queue \subseteq Net
    /\ \A n \in Net : npc[n] # "idle" => mine[n] # NoCR

(* "does not override the NetAttachDefinition if the Owner annotation does  *)
(* not match": a NAD that one network owns never becomes another's, however *)
(* the reconciles of several controllers interleave.                        *)
NeverOverridesForeign ==
    [][\A ns \in Namespace :
         nad[ns] # NoNad /\ nad'[ns] # NoNad /\ nad[ns].owner \in Net
             => nad'[ns].owner = nad[ns].owner]_netVars

(* A NAD outside the namespace of its network has no owner reference: as    *)
(* long as it exists the network is held by its finalizer. Networks whose   *)
(* target was changed are left out, see NoOrphanNad. Includes the types.    *)
Orphan(ns) ==
    /\ nad[ns] # NoNad /\ nad[ns].owner \in Net /\ nad[ns].ref = 0
    /\ LET c == cr[nad[ns].owner] IN c = NoCR \/ ~c.finalizer
KeptByFinalizer == NetworkTypeOK /\ (moved \/ \A ns \in Namespace : ~Orphan(ns))

(* The same for every network: deleting a network removes the NAD that was  *)
(* generated from it.                                                       *)
NoOrphanNad == \A ns \in Namespace : ~Orphan(ns)

(* What a network ends up with: Ready and its NAD as rendered from the      *)
(* latest spec, or not Ready for one of the reasons the code reports. For a *)
(* spec that is not JSON the code promises nothing: formatJSON's error is   *)
(* returned without a condition.                                            *)
NetServed(n) ==
    LET c == cr[n]  there == nad[Target(n, c.spec)] IN
    IF BadJson(c.spec.content) THEN TRUE
    ELSE IF
       \/ Misplaced(n, c)
       \/ Target(n, c.spec) \notin namespaces
       \/ there # NoNad /\ there.owner \notin {n, "user"}
    THEN c.cond # [ready |-> "True", spec |-> c.spec]
    ELSE /\ c.cond = [ready |-> "True", spec |-> c.spec]
         /\ there # NoNad /\ there.owner = n
         /\ there.config = RenderNetAttDef(n, c.spec.content)

Alive(n) == cr[n] # NoCR /\ ~cr[n].deleting
(* The annotation was cleared and not set again: every later reconcile      *)
(* stops at the delete in the namespace "".                                 *)
Wedged(n) == cr[n].last = ""

(* Once users stop, every network that is not wedged is served and every    *)
(* deletion completes.                                                      *)
Provisioned(n) ==
    /\ Alive(n) => NetServed(n) \/ Wedged(n)
    /\ cr[n] # NoCR => ~cr[n].deleting
EventuallyProvisioned == \A n \in Net : <>[]Provisioned(n)

(* "Target namespace doesn't exist, NetworkAttachmentDefinition will be     *)
(* created when namespace is available": no network is stuck for good.      *)
ProvisionedWhenAvailable == \A n \in Net : <>[](Alive(n) => NetServed(n))
=============================================================================
