------------------------------ MODULE OvsBridge -------------------------------
(* The OVS bridges of switchdev PFs (pkg/host/internal/bridge): the store   *)
(* of managed bridges with its cache, the OVSDB rows, and the calls a       *)
(* reconcile makes: discover, detach for a PF whose VFs are changed, then   *)
(* remove and create bridges. Users and the CNI write to OVSDB too. A       *)
(* bridge is named after the PCI address of its PF, so a bridge b stands    *)
(* for its PF and uplink as well. Each OVSDB transaction is one step.       *)
EXTENDS Integers, FiniteSets

CONSTANTS
    Bridge,         \* bridges, one per switchdev PF
    MaxEvents,      \* bound on what users, the CNI and policies change
    MaxFailures     \* bound on failed calls and ends of the process

ASSUME OvsAssumption ==
    IsFiniteSet(Bridge) /\ MaxEvents \in Nat /\ MaxFailures \in Nat

(* OVSConfigExt, by what the comparisons tell apart: no bridge, one with a  *)
(* key in its external_ids or other_config, and one without.                *)
Config == {"none", "plain", "keyed"}
Keyed(c) == c = "keyed"
Configured(key) == IF key THEN "keyed" ELSE "plain"

VARIABLES
    want,           \* the bridges of the spec
    wanted,         \* the copy of them a reconcile works from
    dirty,          \* the spec is not applied yet
    change,         \* PFs whose VFs are about to be reconfigured
    file, cache, loaded,    \* the store, its cache, whether that was read
    row,            \* OVSDB bridge: who made it ("none", "op" or "user"),
                    \* whether it has the key and its internal interface
    up,             \* where the uplink is attached: "none", "own" or "other"
    error,          \* PFs whose uplink interface is in error
    reps,           \* PFs with VF representors on their bridge
    pc, found,     \* next step of the daemon, discovered bridges
    todo, cur,      \* what the loop has left, the bridge it is at
    known, keep,    \* local variables of CreateOVSBridge
    events, failures

store == <<file, cache, loaded>>
ovsdb == <<row, up, error, reps>>
locals == <<wanted, found, todo, cur, known, keep>>
oVars == <<want, dirty, change, store, ovsdb, pc, locals, events, failures>>

NoRow == [by |-> "none", key |-> FALSE, internal |-> FALSE]
OvsInit ==
    /\ want = [b \in Bridge |-> "none"] /\ dirty = TRUE /\ change = {}
    /\ file = want /\ cache = want /\ loaded = FALSE
    /\ row = [b \in Bridge |-> NoRow] /\ up = [b \in Bridge |-> "none"]
    /\ error = {} /\ reps = {}
    /\ pc = "idle" /\ wanted = want /\ found = want /\ todo = {} /\ cur = {} /\ known = "none" /\ keep = FALSE
    /\ events = 0 /\ failures = 0

Exists(b) == row[b].by # "none"
(* getCurrentBridgeState: the row seen through the keys of a known          *)
(* configuration; updateMap drops the others. An uplink in error or         *)
(* elsewhere is left out, which no wanted configuration equals.             *)
UplinkOk(b) == up[b] = "own" /\ b \notin error
CurrentKey(b, conf) == Keyed(conf) /\ row[b].key
CurrentIs(b, conf, desired) ==
    Exists(b) /\ UplinkOk(b) /\ Configured(CurrentKey(b, conf)) = desired
(* GetOVSBridges: what is in the store and in OVSDB. "broken" is a bridge   *)
(* without its uplink.                                                      *)
GetOVSBridges(stored) ==
    [b \in Bridge |-> CASE stored[b] = "none" \/ ~Exists(b) -> "none"
                        [] UplinkOk(b) -> Configured(CurrentKey(b, stored[b]))
                        [] OTHER -> "broken"]

-----------------------------------------------------------------------------
(* A reconcile: the cache is read once, the bridges are discovered, and     *)
(* nothing is done for an applied spec that NeedToUpdateBridges is content  *)
(* with.                                                                    *)
Rest == UNCHANGED <<want, events, failures>>
Stored == IF loaded THEN cache ELSE file
Discover ==
    /\ pc = "idle"
    /\ dirty \/ change # {} \/ GetOVSBridges(Stored) # want
    /\ loaded' = TRUE /\ cache' = Stored
    /\ found' = GetOVSBridges(Stored)
    /\ pc' = "detach" /\ dirty' = FALSE /\ wanted' = want
    /\ UNCHANGED <<change, file, ovsdb, todo, cur, known, keep>> /\ Rest

(* DetachUplinkAndVFRepresentorsFromOVSBridge, for a bridge of the store:   *)
(* representors first, then the uplink, wherever it is; a bridge that is    *)
(* gone leaves the store. A slip: the representors stay.                    *)
WriteStoreFile(b, c) == file' = [file EXCEPT ![b] = c] /\ cache' = [cache EXCEPT ![b] = c]
DetachUplinkOnly(b) ==
    /\ pc = "detach" /\ b \in change /\ cache[b] # "none" /\ Exists(b)
    /\ up' = [up EXCEPT ![b] = "none"] /\ error' = error \ {b} /\ UNCHANGED <<row, reps>>
    /\ pc' = "device" /\ cur' = {b}
    /\ UNCHANGED <<dirty, change, store, wanted, found, todo, known, keep>> /\ Rest
DetachUplink(b) ==
    /\ pc = "detach" /\ b \in change /\ cache[b] # "none" /\ Exists(b)
    /\ up' = [up EXCEPT ![b] = "none"] /\ error' = error \ {b} /\ reps' = reps \ {b}
    /\ pc' = "device" /\ cur' = {b}
    /\ UNCHANGED <<dirty, change, store, row, wanted, found, todo, known, keep>> /\ Rest
NothingToDetach(b) ==
    /\ pc = "detach" /\ b \in change
    /\ cache[b] = "none" \/ ~Exists(b)
    /\ IF cache[b] = "none" THEN UNCHANGED <<file, cache>> ELSE WriteStoreFile(b, "none")
    /\ pc' = "device" /\ cur' = {b}
    /\ UNCHANGED <<dirty, change, loaded, ovsdb, wanted, found, todo, known, keep>> /\ Rest
(* The VFs of the PF are removed and made again.                            *)
ReconfigureDevice ==
    /\ pc = "device" /\ change' = change \ cur /\ pc' = "detach" /\ cur' = {}
    /\ UNCHANGED <<dirty, store, ovsdb, wanted, found, todo, known, keep>> /\ Rest

(* ConfigureBridges: discovered and unwanted bridges are removed, the       *)
(* wanted ones created, one by one; the first error ends it.                *)
ConfigureBridges ==
    /\ pc = "detach" /\ change = {}
    /\ todo' = {b \in Bridge : found[b] # "none" /\ wanted[b] = "none"} /\ pc' = "remove"
    /\ UNCHANGED <<dirty, change, store, ovsdb, wanted, found, cur, known, keep>> /\ Rest

(* RemoveOVSBridge: the row goes before the entry of the store. A slip: the *)
(* entry first.                                                             *)
DeleteRow(b) ==
    /\ row' = [row EXCEPT ![b] = NoRow] /\ reps' = reps \ {b}
    /\ up' = [up EXCEPT ![b] = IF @ = "own" THEN "none" ELSE @]
    /\ error' = IF up[b] = "own" THEN error \ {b} ELSE error
RemoveEntryFirst(b) ==
    /\ pc = "remove" /\ b \in todo /\ cur = {} /\ cache[b] # "none" /\ cur' = {b}
    /\ WriteStoreFile(b, "none")
    /\ UNCHANGED <<dirty, change, loaded, ovsdb, pc, wanted, found, todo, known, keep>> /\ Rest
DeleteBridge(b) ==
    /\ pc = "remove" /\ b \in todo /\ cur = {} /\ cache[b] # "none" /\ cur' = {b}
    /\ DeleteRow(b)
    /\ UNCHANGED <<dirty, change, store, pc, wanted, found, todo, known, keep>> /\ Rest
RemoveManagedOVSBridge(b) ==
    /\ pc = "remove" /\ cur = {b} /\ cur' = {} /\ todo' = todo \ {b}
    /\ WriteStoreFile(b, "none")
    /\ UNCHANGED <<dirty, change, loaded, ovsdb, pc, wanted, found, known, keep>> /\ Rest
NotManaged(b) ==
    /\ pc = "remove" /\ b \in todo /\ cache[b] = "none" /\ cur = {} /\ todo' = todo \ {b}
    /\ UNCHANGED <<dirty, change, store, ovsdb, pc, wanted, found, cur, known, keep>> /\ Rest
RemovedAll ==
    /\ pc = "remove" /\ todo = {} /\ pc' = "create"
    /\ todo' = {b \in Bridge : wanted[b] # "none"}
    /\ UNCHANGED <<dirty, change, store, ovsdb, wanted, found, cur, known, keep>> /\ Rest

(* CreateOVSBridge. The configuration is saved before anything is made; the *)
(* one known until then is the one the current state is read with.          *)
AddManagedOVSBridge(b) ==
    /\ pc = "create" /\ b \in todo /\ cur = {} /\ cur' = {b}
    /\ known' = cache[b] /\ WriteStoreFile(b, wanted[b]) /\ pc' = "query"
    /\ UNCHANGED <<dirty, change, loaded, ovsdb, wanted, found, todo, keep>> /\ Rest
Created == cur' = {} /\ todo' = todo \ cur /\ known' = "none" /\ keep' = FALSE /\ pc' = "create"
QueryBridge(b) ==
    /\ pc = "query" /\ cur = {b}
    /\ IF known # "none" /\ CurrentIs(b, known, wanted[b]) THEN Created
       ELSE /\ keep' = (known # "none" /\ Exists(b) /\ CurrentKey(b, known) = Keyed(wanted[b]))
            /\ pc' = "uplink" /\ UNCHANGED <<cur, todo, known>>
    /\ UNCHANGED <<dirty, change, store, ovsdb, wanted, found>> /\ Rest
DeleteUplink(b) ==
    /\ pc = "uplink" /\ cur = {b}
    /\ up' = [up EXCEPT ![b] = "none"] /\ error' = error \ {b}
    /\ pc' = IF keep THEN "internal" ELSE "delete"
    /\ UNCHANGED <<dirty, change, store, row, reps, locals>> /\ Rest
DeleteOldBridge(b) ==
    /\ pc = "delete" /\ cur = {b} /\ DeleteRow(b) /\ pc' = "row"
    /\ UNCHANGED <<dirty, change, store, locals>> /\ Rest
CreateBridge(b) ==
    /\ pc = "row" /\ cur = {b} /\ ~Exists(b) /\ pc' = "internal"
    /\ row' = [row EXCEPT ![b] = [by |-> "op", key |-> Keyed(wanted[b]), internal |-> FALSE]]
    /\ UNCHANGED <<dirty, change, store, up, error, reps, locals>> /\ Rest
(* ensureInternalInterface, of a bridge that is still there.                *)
EnsureInternalInterface(b) ==
    /\ pc = "internal" /\ cur = {b} /\ Exists(b) /\ pc' = "attach"
    /\ row' = [row EXCEPT ![b].internal = TRUE]
    /\ UNCHANGED <<dirty, change, store, up, error, reps, locals>> /\ Rest
(* addInterface: a port of that name must not exist.                        *)
AddInterface(b) ==
    /\ pc = "attach" /\ cur = {b} /\ Exists(b) /\ up[b] = "none"
    /\ up' = [up EXCEPT ![b] = "own"] /\ Created
    /\ UNCHANGED <<dirty, change, store, row, error, reps, wanted, found>> /\ Rest
CreatedAll ==
    /\ pc = "create" /\ todo = {} /\ pc' = "idle"
    /\ UNCHANGED <<dirty, change, store, ovsdb, locals>> /\ Rest

(* An error ends the reconcile, which is retried: a call of the environment *)
(* got in the way, or the call failed. In the second case the transaction   *)
(* or the write did not happen, or an added uplink is in error; a write     *)
(* that fails is taken back from the cache (putCacheEntryToStash). A slip:  *)
(* it leaves the cache ahead of the file.                                   *)
Abort ==
    /\ pc' = "idle" /\ dirty' = TRUE /\ found' = [b \in Bridge |-> "none"] /\ wanted' = found'
    /\ todo' = {} /\ cur' = {} /\ known' = "none" /\ keep' = FALSE
Conflict(b) ==
    /\ cur = {b}
    /\ \/ pc = "row" /\ Exists(b)
       \/ pc \in {"internal", "attach"} /\ ~Exists(b)
       \/ pc = "attach" /\ Exists(b) /\ up[b] # "none"
    /\ Abort /\ UNCHANGED <<change, store, ovsdb>> /\ Rest
Failure == failures < MaxFailures /\ failures' = failures + 1
WriteFails(b) ==
    /\ pc = "create" /\ b \in todo /\ cur = {} /\ Failure /\ Abort
    /\ UNCHANGED <<want, change, store, ovsdb, events>>
UplinkInError(b) ==
    /\ pc = "attach" /\ cur = {b} /\ Exists(b) /\ up[b] = "none" /\ Failure /\ Abort
    /\ up' = [up EXCEPT ![b] = "own"] /\ error' = error \cup {b}
    /\ UNCHANGED <<want, change, store, row, reps, events>>
CallFails ==
    /\ pc # "idle" /\ ~(pc = "create" /\ todo # {}) /\ Failure /\ Abort
    /\ UNCHANGED <<want, change, store, ovsdb, events>>
(* The process ends; the cache is read again.                               *)
Crash ==
    /\ Failure /\ Abort /\ loaded' = FALSE /\ cache' = [b \in Bridge |-> "none"]
    /\ UNCHANGED <<want, change, file, ovsdb, events>>

-----------------------------------------------------------------------------
(* The others: a new spec, with or without new VFs, users of OVSDB, the     *)
(* CNI (not while the node is drained), an uplink that goes into error.     *)
Event == events < MaxEvents /\ events' = events + 1
ChangeSpecOf(b) ==
    /\ Event /\ \E c \in Config \ {want[b]} : want' = [want EXCEPT ![b] = c]
    /\ dirty' = TRUE
    /\ change' \in IF pc = "idle" THEN {change, change \cup {b}} ELSE {change}
    /\ UNCHANGED <<store, ovsdb, pc, locals, failures>>
ChangeVfs(b) ==
    /\ Event /\ pc = "idle" /\ b \notin change /\ change' = change \cup {b}
    /\ UNCHANGED <<want, dirty, store, ovsdb, pc, locals, failures>>
UserWritesRow(b) ==
    /\ Event
    /\ \/ Exists(b) /\ DeleteRow(b)
       \/ /\ ~Exists(b) /\ UNCHANGED <<up, error, reps>>
          /\ \E k \in BOOLEAN : row' = [row EXCEPT ![b] = [by |-> "user", key |-> k, internal |-> TRUE]]
    /\ UNCHANGED <<want, dirty, change, store, pc, locals, failures>>
UserMovesUplink(b) ==
    /\ Event /\ up[b] # "other" /\ up' = [up EXCEPT ![b] = "other"] /\ error' = error \ {b}
    /\ UNCHANGED <<want, dirty, change, store, row, reps, pc, locals, failures>>
AttachRepresentor(b) ==
    /\ Event /\ pc = "idle" /\ change = {} /\ UplinkOk(b) /\ b \notin reps /\ reps' = reps \cup {b}
    /\ UNCHANGED <<want, dirty, change, store, row, up, error, pc, locals, failures>>
UplinkBreaks(b) ==
    /\ Event /\ UplinkOk(b) /\ error' = error \cup {b}
    /\ UNCHANGED <<want, dirty, change, store, row, up, reps, pc, locals, failures>>

OvsStep ==
    \/ Discover \/ ReconfigureDevice \/ ConfigureBridges \/ RemovedAll \/ CreatedAll
    \/ \E b \in Bridge :
          \/ DetachUplink(b) \/ NothingToDetach(b)
          \/ DeleteBridge(b) \/ RemoveManagedOVSBridge(b) \/ NotManaged(b)
          \/ AddManagedOVSBridge(b) \/ QueryBridge(b) \/ DeleteUplink(b) \/ DeleteOldBridge(b)
          \/ CreateBridge(b) \/ EnsureInternalInterface(b) \/ AddInterface(b) \/ Conflict(b)
OvsNext ==
    \/ OvsStep \/ CallFails \/ Crash
    \/ \E b \in Bridge :
          \/ WriteFails(b) \/ UplinkInError(b)
          \/ ChangeSpecOf(b) \/ ChangeVfs(b) \/ UserWritesRow(b) \/ UserMovesUplink(b)
          \/ AttachRepresentor(b) \/ UplinkBreaks(b)

(* The daemon's queue is served: an error is retried and the host looked at *)
(* again every DaemonRequeueTime.                                           *)
OvsSpec == OvsInit /\ [][OvsNext]_oVars /\ WF_oVars(OvsStep)

-----------------------------------------------------------------------------
(* Types, and the cache of the store, once read, is what the file holds,    *)
(* also after a write that failed.                                          *)
OvsTypeOK ==
    /\ want \in [Bridge -> Config] /\ file \in [Bridge -> Config]
    /\ loaded => cache = file
    /\ row \in [Bridge -> [by : {"none", "op", "user"}, key : BOOLEAN, internal : BOOLEAN]]
    /\ up \in [Bridge -> {"none", "own", "other"}]
    /\ \A b \in Bridge : ~Exists(b) => up[b] # "own" /\ b \notin reps
    /\ {change, error, reps, todo, cur} \subseteq SUBSET Bridge
    /\ Cardinality(cur) <= 1 /\ cur \subseteq todo \cup change

(* A bridge the operator made is in the store as long as it exists, through *)
(* every crash between the store and OVSDB: else nothing would ever remove  *)
(* it, since GetOVSBridges only looks at the store.                         *)
ManagedIsStored == \A b \in Bridge : row[b].by = "op" => file[b] # "none"

(* The VFs of a PF are changed only while neither its uplink nor a VF       *)
(* representor is on a bridge the operator made                             *)
(* (detachUplinkAndVFRepresentorsFromBridge).                               *)
DetachedBeforeReconfigure ==
    [][ReconfigureDevice =>
          \A b \in cur : row[b].by = "op" => up[b] # "own" /\ b \notin reps]_oVars

(* Whatever users did to OVSDB and whichever calls failed, the bridges      *)
(* become what the spec wants: the wanted ones are there with their key,    *)
(* internal interface and uplink, the others the operator made are gone,    *)
(* and no PF waits for its VFs.                                             *)
BridgesAsWanted ==
    /\ change = {}
    /\ \A b \in Bridge :
          IF want[b] = "none" THEN row[b].by # "op"
          ELSE Exists(b) /\ up[b] = "own" /\ b \notin error /\ (Keyed(want[b]) => row[b].key)
BridgesSettle == <>[]BridgesAsWanted

(* ovs.go:67 "if OVS bridge exist with different config it will be removed  *)
(* and re-created": in particular a key the spec dropped goes.              *)
DroppedKeyGoes ==
    <>[](\A b \in Bridge : want[b] = "plain" /\ row[b].by = "op" => ~row[b].key)
=============================================================================
