# Verification of the SR-IOV network operator

TLA+ models of the SR-IOV network operator, the TLC runs that check them on
small instances, and theorems about them whose proofs TLAPS checks for every
value of the constants. Paths below are relative to the repository.

## 1. The system

The operator turns `SriovNetworkNodePolicy` objects into one
`SriovNetworkNodeState` (NodeState) per node. A config daemon on every node
brings the host to the spec of its NodeState. Changes that disturb workloads
need the node drained first, which the daemon may not do itself: it asks the
drain controller in the operator.

| Part | State | Operations | Talks to |
|---|---|---|---|
| drain controller (`controllers/drain_controller*.go`) | work queue, `drainCheckMutex`; annotation `current-state`, condition `Draining` | Reconcile: create annotations, take a slot of the pool, drain, un-drain | Node and NodeState annotations, drainer |
| drainer (`pkg/drain`) | cordon and pods of the node | DrainNode, CompleteDrainNode | orchestrator, API server |
| orchestrator (`pkg/orchestrator`) | OpenShift: pause and annotation of the MachineConfigPool | BeforeDrainNode, AfterCompleteDrainNode | machine config operator (MCO) |
| config daemon (`pkg/daemon`) | `lastAppliedGeneration`, copy of the NodeState, `vars.DisableDrain`; annotations `state`, `desired-state`; sync status | Reconcile: ask plugins, request drain, apply, reboot, release | plugins, drain controller |
| reboot tracker (`pkg/host/internal/reboottracker`) | counter file | Get, Increment, Reset | daemon |
| systemd services (`cmd/.../service.go`, `pkg/host/internal/systemd`) | units, config and result files | pre and post phase at boot | daemon, through files |
| generic plugin, host configuration (`pkg/plugins/generic`, `pkg/host`) | PFs, VFs, records of what was applied, kernel arguments | drain decision, configure, reset | kernel, files |
| software bridges (`pkg/host/internal/bridge`) | OVSDB, store file and its cache | ConfigureBridges, detach | OVSDB |
| Mellanox plugin (`pkg/plugins/mellanox`) | attributes to change, firmware | OnNodeStateChange, Apply | mstconfig |
| device plugin gate (`pkg/daemon`, `cmd/.../waitforconfig.go`) | the plugin's pod and its annotation | restart, wait, unblock | kubelet |
| policy controller, policy rendering (`controllers/sriovnetworknodepolicy_controller.go`, `api/v1/helper.go`) | NodeStates, device plugin config map, labels | sync, Apply, mergeConfigs, clean up stale NodeStates | daemon |
| webhook (`pkg/webhook`) | variables shared by requests | validation of policies, pools and the operator config | API server |
| network controllers (`controllers/generic_network_controller.go`) | NetworkAttachmentDefinition (NAD), finalizer, last namespace | Reconcile | API server |
| operator config controller, clean-up (`controllers/sriovoperatorconfig_controller.go`, `pkg/apply`) | webhook configurations, daemon sets, machine configs | Reconcile, ApplyObject | API server |
| pool config controller (`controllers/sriovnetworkpoolconfig_controller.go`) | MachineConfigs for hardware offload | Reconcile | API server |

What makes it hard: components that only see each other's annotations and
files, each acting on a copy that may be old; requests raised or withdrawn
while the other side is acting on them; failures, restarts and power losses
between two writes that belong together; many reconciles at once competing for
the slots of a pool; other actors (the MCO, users of OVSDB, other controllers)
that change the same objects. `PROJECT.json` lists the hazards with the line
where each one bites.

## 2. Modules

| Module | Models | Source |
|---|---|---|
| `DrainProtocol` | annotations, conditions, pods and cordon, pools and `MaxUnavailable` | `api/v1/helper.go`, `findNodePoolConfig` |
| `DrainController` | Reconcile, `tryDrainNode`, `handleNode...`, DrainNode, CompleteDrainNode; arbitrary daemons | `controllers/drain_controller*.go`, `pkg/drain/drainer.go` |
| `DrainSlots` | abstract: nodes take and give back slots of a pool | what `tryDrainNode` promises |
| `ConfigDaemon` | Reconcile, handleDrain, isDrainCompleted, annotate, apply, rebootNode, reboot tracker | `pkg/daemon/daemon.go`, `config.go`, `reboot_tracker.go` |
| `DrainSystem` | controller and daemons together, watches, fairness, end-to-end properties | the predicates of both controllers |
| `McpPause` | the OpenShift orchestrator inside `DrainSystem`; the MCO (external) | `pkg/orchestrator/openshift/openshift.go` |
| `HostConfig` | drain decision, configuration and reset of PFs in sequence or in parallel, record files | `pkg/host/internal/sriov/sriov.go`, `pkg/host/store/store.go`, `generic_plugin.go`, `NeedToUpdateSriov` |
| `SystemdConfig` | daemon and boot services in systemd mode, their files, kills and power losses | `service.go`, `pkg/host/internal/systemd`, `pkg/plugins/k8s`, `daemon.go` |
| `OvsBridge` | bridges in OVSDB, store file and cache, every transaction a step; users of OVSDB | `pkg/host/internal/bridge` |
| `KernelArgs` | kernel arguments and RDMA mode, and the reboots they need | `generic_plugin.go`, `pkg/host/internal/kernel` |
| `MlxFirmware` | firmware of one- and two-port NICs against the spec | `pkg/plugins/mellanox`, `pkg/vendors/mellanox` |
| `DevicePluginGate` | the plugin's pod and its wait-for-config annotation | `daemon.go`, `waitforconfig.go` |
| `PolicyRender`, `PolicyController` | `Apply` and `mergeConfigs` as functions with a reference definition; the sync of all NodeStates, config map and labels | `api/v1/helper.go`, `sriovnetworknodepolicy_controller.go` |
| `PolicyWebhook` | admission of policies, pools and the operator config with the variables concurrent requests share; reload of the certificate | `pkg/webhook` |
| `NetworkController` | Reconcile of a network object | `generic_network_controller.go` |
| `OperatorConfig` | operator config, webhooks and manifests, ApplyObject, clean-up command | `sriovoperatorconfig_controller.go`, `pkg/apply`, `cmd/.../cleanup.go` |
| `PoolConfig` | offload pools, beside `OperatorConfig` | `sriovnetworkpoolconfig_controller.go` |
| `NodeParts` | the five modules of the node side by side | |
| `DrainControllerProof`, `SystemProof`, `McpProof`, `HostProof`, `ControllersProof`, `PolicyProof`, `WebhookProof`, `NodeProof` | theorems, section 4 | |
| `MC...` | instances for TLC | |

State and code. `nodeAnno`, `desired`, `current` are the three annotations
(`"none"`: absent); `cond` is the reason of the Draining condition. `pc[n]`
names the next API call of the controller's reconcile of node `n`, `dirty[n]`
says that its key is queued; `rNode[n]` is the annotation read at the start.
`toScan`, `count` and `own` are the locals of `tryDrainNode`. In the daemon
`dCur`, `dDes` and `dGen` are its copy of the NodeState, refreshed by
`updateSyncState`, `need` is what the plugins would answer, `tracker` the
counter file, `reboots` a history variable. In `McpPause` `op[n]` is the next
call of the orchestrator, `mark` its annotation on the pool. In `HostConfig`
`dev` is what sysfs and devlink show of each PF, `store` its record file,
`want` and `seen` the desired state handed to the plugin, `workers` the running
`configSriovDevice` and `checkForConfigAndReset` calls with their next step
(`live` is false for goroutines whose caller returned early), `owner` a history
variable: whose the VFs of a PF are. The other modules follow the same pattern:
a variable ending in `pc` names the next call, `snap`, `mine`, `psnap`, `kcur`
and the like are what the code read and still works with, and the comment
beside each variable names its counterpart.

Granularity. One step per API call, file operation or OVSDB transaction,
because others see the effect of each; the read that starts a call and the
branch taken on its result are one step. A reconcile never runs twice at once
for one key (controller-runtime work queue). A watch is modelled by its effect:
a change the predicate lets through queues the key; events are not lost, but
arbitrarily late. A requeue after a delay is a queued key: time is not modelled.

Definitions whose comment starts with "a slip" are variants of the definition
below them, used to confirm that the properties notice such a mistake.

## 3. What is checked

Several runs ask questions of parts that share no state, or of one system under
different bounds. Such a run has a variable `part` that the initial state
chooses and no step changes; the parts not chosen rest. A property of such a run
is about the part it names.

| Run | Instance | Shows |
|---|---|---|
| `ControllerFaults` | 2 nodes, one pool with one slot, arbitrary daemons, 1 failure or restart | the inductive invariant of the handshake (limit, cordon, condition before annotation, mutex), the order of `current-state`, refinement of `DrainSlots` |
| `ControllerPools` | 3 nodes, overlapping pools, a percentage that rounds down to one slot, a pool for hardware offload | the limit with rounding; a node in two pools is not drained |
| `SystemFaults` | 1 managed node of 2, 3 generations, 1 drift of the host, 1 failure | reboots per generation are bounded; `lastAppliedGeneration` stands for what is on the host; DrainComplete stands for a drain that happened |
| `SystemLiveness` | 1 node, 3 generations or 2 and one change of `disableDrain`; or 2 nodes, one slot, a reboot and a drain | every spec is applied, every node returns to service |
| `Mcp` | 2 nodes drained at once, 1 rollout, no failure; or 1 node, 2 generations, 1 rollout, 1 failure | drains and MCO exclude each other, a paused pool is marked, the pause ends with the last node, drains and rollouts both finish |
| `Host` | 2 PFs (mlx5 and ice order), in sequence and in parallel, 2 changes of the spec, VFs set from outside; or 1 PF, 3 specs, fair applies; 1 failure, restart or reboot | only the operator's own VFs are removed, none leak without failures, VFs in use are touched only after a drain was asked for, the host ends up as the spec asks |
| `OperatorControllers` | 2 networks of different kinds in different namespaces, 3 user operations, 1 failure; or the operator config on 3 flavors of cluster, 3 events; or a pool config, 4 events | no NAD changes hands or outlives what would delete it, no webhook configuration or MachineConfig is orphaned, nothing foreign is wiped, each comes to rest |
| `Policy` | 2 nodes, 3 policies in 2 arrangements, 2 events at any step of the reconcile | groups share no VF, they are those of the reference definition, NodeStates, config map and labels agree in the end |
| `Webhook` | 2 requests in flight, 3 in all | admitted ranges are disjoint unless validated side by side, answers are right for a request that was alone, `disableDrain` is not set over an update the check could see, limits of pools |
| `Node` | systemd files; 2 bridges; kernel arguments; 2 Mellanox NICs, one with two ports; the plugin's pod; kills, power losses, failures and changes in each | a reported success is configured, bridges of the operator are stored, PFs are detached before they are reconfigured, arguments and foreign firmware are kept, one reboot is enough for the firmware, no plugin runs during configuration, every part settles |

Runs in which TLC finds a behaviour of the code that a comment or document
excludes; each finding in `PROJECT.json` quotes the line:

| Run | Behaviour |
|---|---|
| `RebootPartialDrain` | `Drain_Required` is raised to `Reboot_Required` after the controller read it: it evicts SR-IOV pods only, and the node reboots with others running |
| `NetworkWedged` | a network is moved to a namespace that does not exist: its annotation stays `""` and every later reconcile fails at a delete in the namespace `""` |

Stronger properties that the modules define, with a comment, and that the code
does not have:

- `ApplyOnlyWhenDrained` (`DrainSystem`) fails on the instance of
  `RebootPartialDrain`: a new spec meets `DrainComplete` after the node was
  uncordoned and is applied under running SR-IOV pods.
- `NoLeakedVfs` (`HostConfig`): VFs are created before their record is saved
  (`pkg/host/internal/sriov/sriov.go:909`). After a failure in between and the
  removal of the policy they stay: the log line at 956 then says that the VFs
  "weren't created by the sriov operator". `NoLeakWithoutFaults` is what holds.
- `NoOutdatedResult` (`SystemdConfig`): after a crash between the write of the
  config file and the removal of the old result (`pkg/daemon/daemon.go:595-603`)
  the old verdict is taken for the new spec, which line 601 means to exclude.
  `SucceededMeansConfigured` excepts exactly that window.
- `DroppedKeyGoes` (`OvsBridge`): a key dropped from `external_ids` or
  `other_config` stays in OVSDB (`pkg/host/internal/bridge/ovs/ovs.go:84`),
  where line 67 says that a bridge with a different config "will be removed and
  re-created".
- `LinkTypesFollow` (`MlxFirmware`): `needReboot` is overwritten for each NIC,
  so the last one in map order decides, and a changed link type may wait for an
  unrelated reboot.
- `AltNamesRange` (`PolicyController`): a VF range given with an alternative
  name is not taken over (`api/v1/helper.go:510` compares with the kernel's name
  only), and the policy gets the whole PF, where `doc/api/node-policies-api.md:125`
  says "Alternative names also work with VF range notation".
- `PluginFollowsConfig` (`OperatorConfig`): the device plugin's daemon set keeps
  a removed key, because the comparison is a DeepDerivative
  (`controllers/helper.go:288`).
- `NamelessPoolGoes` (`PoolConfig`): a pool whose offload name was cleared keeps
  its finalizer for ever (`controllers/sriovnetworkpoolconfig_controller.go:79`).

Limits of what the runs claim; each was found by changing one bound of the run:

- `EventuallySettled` and `EventuallyBackInService` fail with `MaxFaults = 1`.
  When `annotate` fails between the two objects, the Node says `Idle` and the
  NodeState `Drain_Required` (the daemon's reconcile ends without requeue), or
  the Node says `Reboot_Required` and the NodeState `Idle` (daemon and
  controller wait for each other).
- `EventuallySettled` fails with `MaxToggles = 2`: `disableDrain` changes back
  to false between its two reads in one reconcile, which ends without requeue.
  It fails with a pool of `maxUnavailable: 0`: no node is ever drained, where
  the comment at `controllers/drain_controller_helper.go:269` says zero means no
  limit.
- `CompleteOnlyWhenDrained` fails with `MaxFaults = 2`. The daemon restarts
  between the two writes of a request and withdraws it for a new spec, and the
  controller, still draining, fails to annotate `DrainComplete` after it set the
  drain condition. It uncordons the node, returns before the condition is reset
  because the orchestrator is not ready, and the next request finds the
  condition complete and skips its drain.
- `DrainsWithoutMco` fails in the two-node part with a failure: a retried
  BeforeDrainNode does not read the pool again after pausing it. It also fails
  without one when `Needs` has `"reboot"` and the spec of a node changes there:
  the daemon withdraws its request in the middle of the drain, and the node that
  is still draining no longer holds the pause. The same happens when drains are
  disabled in the middle of one (`MaxToggles = 1`).
- `NotLeftPaused` fails when drains are disabled while a node waits for a slot:
  nobody lifts the pause (`pkg/orchestrator/openshift/openshift.go:239`, against
  line 242).
- `AdmittedDisjoint` is about PFs that a policy names once, by the kernel's name.
  With an alternative name beside it, it fails: `validatePfNames` returns at the
  first pair of names that mean the same PF, so that `alt1#0-1, eth1#2-3` is
  admitted beside `eth1#2-3`.
- The bound of one reboot in `OneRebootEnough` is for `OrdinarySpecs`. It fails
  when one port of a NIC is externally managed and the other is not and another
  NIC needs a reboot; when a port is asked for IB and then for ETH while a boot is
  still pending, because the NIC that came last decided against a reboot; and when
  a port of a formerly externally managed NIC is asked for no VFs.

Behaviours the models show that no property states, because nothing in the
repository says otherwise:

- Networks: a NAD is orphaned when its network is moved and deleted before the
  next reconcile (`KeptByFinalizer` excepts moved networks).
- Webhook: the flags of `validate.go:290` are shared by concurrent requests; two
  policies in flight with overlapping ranges are both admitted;
  `validatePfNames` stops at the first matching pair; the check of
  `disableDrain` is passed by deleting and re-creating the config.
- Policies: a malformed policy blocks the sync for all nodes; a policy displaced
  by one that is displaced itself does not come back; an error of
  `findNodePoolConfig` is only logged and resets `spec.system`.
- Pools: renaming a pool leaves the old MachineConfig; an MCP removed before its
  pool blocks the deletion; two pools with one MCP name remove each other's
  MachineConfig until the next resync.
- Operator config: the systemd MachineConfig and ClusterRoles stay when the
  config goes; Ready and finalizer patches by name may hit a re-created config.
- systemd mode: when both services are killed, or a clean-up fails, an old
  result stays; an empty config file, or a missing result in the post phase,
  ends the service with a panic; a Failed or InProgress result is published and
  not tried again until the spec changes.
- Bridges: the store entry of a bridge a user deleted stays, so that a user's
  later bridge of that name is removed as managed.
- Kernel arguments: a host whose arguments cannot be edited reboots up to the
  limit; `kargs.sh` ends with `echo`, so a failed edit goes unnoticed; an
  argument edited before the reboot is not undone when the spec goes back.
- Firmware: an externally managed NIC still gets `SRIOV_EN` changed; removing
  the policy of a NIC in DPU mode makes every apply fail; a spec with no VFs on
  a NIC with `SRIOV_EN` reboots up to the limit; two ports of one NIC of which
  one is externally managed may take a second reboot.
- Device plugin: a failed repair of a drifted host lets the plugin start
  (variable `unseen` of `DevicePluginGate`).

Bounds. `MaxFaults` and its relatives bound failed calls, restarts and power
losses; the list above says where a bound is part of the claim. The properties
that section 4 proves hold for any bound. `MaxGeneration` bounds specs: three let
a spec arrive during the work on the previous one, which itself follows a
finished one. `MaxReboots` is 3 in the code and 1 in the drain runs: the limit is
crossed in the same way. Two nodes are enough for competition for one slot, two
PFs, bridges and NICs for one to be handled while another waits, a NIC with two
ports for ports that share a firmware. `MaxDrifts`, `MaxToggles`, `MaxConfigs`,
`MaxSpecs`, `MaxOutside`, `MaxEvents`, `MaxOps`, `Budgets`, `MaxRequests` and the
`Max...Changes` bound changes of the environment. `PodKind` is empty where pods
do not matter. Deadlock is checked where the system never comes to rest; the
other runs switch it off because a system whose last spec is applied has nothing
to do. Symmetry is used for the nodes of `ControllerFaults` and the handlers of
`Webhook`, which have no liveness property.

Fairness. Work queues serve each key they hold and a running reconcile goes
on: weak fairness of each node's controller step and daemon step, and of each
other controller. `Lock` has strong fairness because `sync.Mutex` does not starve
a waiter. In `DrainSystem` the orchestrator is assumed ready infinitely often
when asked infinitely often (strong fairness of `BeforeDrainNode`,
`AfterCompleteDrainNode`); `Mcp` drops that assumption and uses weak fairness of
the MCO instead. Evictions succeed in the end (weak fairness of the drain). In
`HostConfig` the daemon retries a failed apply (the reconciler returns the error)
and goroutines run. The garbage collector, systemd and the kubelet do their work
in the end. In `MlxFirmware` each NIC comes last in Go's map order infinitely
often if asked infinitely often. Specs, drifts, toggles, users and failures have
none.

## 4. What is proved

Each theorem holds for every value of the constants that the named assumptions
admit: any finite set of nodes, PFs, bridges or NICs, any pools, policies and
specs, any bound on changes, failures and restarts. The assumptions
(`ProtocolAssumption`, `ControllerAssumption`, `DaemonAssumption`,
`SystemAssumption`, `McpAssumption`, `HostAssumption`, `OperatorAssumption`,
`PoolAssumption`, `NetworkAssumption`, `PolicyAssumption`, `SystemdAssumption`,
`OvsAssumption`, `KargsAssumption`, `MlxAssumption`, `GateAssumption`,
`WebhookAssumption`) say that sets are finite and constants well typed, the last
one also that the kernel gives no name or alternative name to two interfaces of a
node; TLC evaluates them in the runs.

In most proof modules `USE Zenon` makes Zenon the default prover; a leaf that
needs arithmetic or records cites `SMT`.

### The drain handshake: `DrainControllerProof`

`HandshakeSafety` (`TypeOK` and `HandshakeInv` are invariant), and from it
`LimitHolds`, `NeverLeftCordoned`, `ConditionFirst`, `MutexReleased`,
`ConflictsNotDrained`; the action property `HandshakeOrdered`; and the refinement
`SlotsImplemented` of `DrainSlots`. The daemons write what they like.

The limit is not inductive: a reconcile acts on a count made of reads of
different ages. `CountInv` says that the count is never below the number of busy
nodes among those already read. Nodes leave the busy set at any time, which only
helps; a node enters it only in `DecideSlot`, and whoever is there holds the mutex
(`MutexHeldByTryDrain`), so no other node does so while a count is under way. When
the last node was read the count bounds the live number, and the guard of
`DecideSlot` keeps it within the limit. `WorkerInv` says what a reconcile may rely
on long after it read the annotations: only the worker of a node moves its
`current-state`, so the branch it chose stays the right one.

### Controller and daemons together: `SystemProof`

Every step of `DrainSystem` is a step of `DrainController` or leaves the
controller's state alone: the real daemons are daemons as `DrainController`
allows them. So the handshake's invariant carries over (`SystemSafety`,
`SystemLimitHolds`, `SystemConflictsNotDrained`, `SystemHandshakeOrdered`,
`SystemImplementsSlots`).

`RebootsLimited` needs `TrackerInv`: the counter file is incremented before the
reboot it counts, so the reboots that happened for a generation never exceed what
the file says, wherever the daemon stops; between increment and reboot the file is
strictly ahead. `RecordedIsApplied` needs `AppliedInv`: from the apply to the
record the daemon works with the generation it read, and either the host has it or
a newer one has come. `CopyInv` bounds the copies by the live generation.

`CompleteUnlessCutShort`: DrainComplete is annotated only for a node that was
drained (`CompleteOnlyWhenDrained`), whatever the daemons do and however many calls
fail, in every behaviour in which the controller neither fails nor restarts at two
points (`CutShort`): after it annotated Draining and before it resets the condition,
and after it set the condition Complete and before it annotates DrainComplete.
`WorkDoneInv` is the reason: outside these points a condition that says Complete on
a Draining node belongs to the drain under way. With a failure there the property
still holds in the run, which has one failure, and is false for two (section 3), so
it has no theorem without the condition. `CompleteWhileFaultFree` and
`CompleteWithoutFaults` follow: the property up to the first failure, and for
`MaxFaults = 0`.

`RequestsKept`: as long as no call failed, a daemon takes back its request only
after the drain, when the un-drain is still ahead (`RequestsStand`). `Stand` is its
invariant, per node: the request that a reconcile of the controller read still
stands up to the end of the drain, and a released node stays released until the
drain is undone (`WorkerStand`); the NodeState says Idle only when the Node does,
and the copy the daemon acts on is right about a complete drain (`DaemonStand`). It
holds on two conditions, both about what users and watches do, not about the
constants. `PlainRequests`: drains are not disabled, and no spec that needs a
reboot meets a node that is being drained for less; in both cases the daemon
withdraws the request at once (section 3). `AnnotatedFirst`: the daemon of a new
node acts only when the controller has written the Node's annotation; otherwise
`EnsureNode` may write `Idle` over a request.

### OpenShift: `McpProof`

`McpIsSystem`: the system with the real orchestrator refines `DrainSystem`, whose
orchestrator answers anything; so `McpRebootsLimited` and all of the above hold of
it. `PausedOnlyMarked`: a paused pool carries the operator's mark, for any number
of nodes and failures; `MarkInv` follows the mark through the calls, of which
`mcpPauseMutex` lets one node make any at a time. `HandedOverPaused`: as long as
nothing failed, BeforeDrainNode hands a node over only while the pool is paused
and the MCO idle; `PauseInv` with `ReportInv` says that the second look at the
paused pool is enough to know the latter.

`DrainsApart`: under `PlainRequests` it stays so all the while the node is cordoned
and evicted (`DrainsWithoutMco`), however many nodes are drained at once. A node
lifts the pause only if it finds no other one under configuration, and by `Stand` a
node that is being drained still has its request; `DrainInv` adds that nobody is
between two calls that change the pause while a node is drained.

`PauseLifted`: a pool is not left paused behind finished handshakes
(`NotLeftPaused`), with any number of failures and restarts, if no request is taken
back before its drain (`RequestsStand` in every step). `LookedAfter` is the
invariant: as long as the pool is paused, some node still has a request, or an
un-drain that has not been through the orchestrator. The condition is needed: a
failed write of a request to the NodeState, followed by a spec that needs nothing,
takes the request back. `PauseLiftedFaultFree` replaces it by `PlainRequests` and
`AnnotatedFirst` up to the first failure, by `RequestsKept`.

### The host: `HostProof`

`OthersKeepVfs`, `DrainAskedFirst` and `NothingLeaks`. `HostInv` says what each
worker may rely on: `ClaimInv` (a record that claims the VFs of a PF means they are
the operator's), `ApplyInv` (what the apply wants was judged for the drain), and
`WorkersInv`, which separates resetting workers, which belong to the running
apply, from configuring ones, which may be left over from an apply that returned
early. `NothingLeaks` needs more, while nothing failed (`LeakInv`): VFs without a
record that claims them are on the PF being configured at the moment, and every PF
that the spec no longer names is still to be reset, being reset, or clean.

### Operator, pools and networks: `ControllersProof`

`PoolLeavesNothing`, `WebhooksGoFirst`, `NadsHeld` follow one argument: a
reconcile that has seen the finalizer holds the object, because only the reconcile
itself takes the finalizer away (`HeldPool`, `HeldConfig`, `HeldNet`), and when it
does, nothing is left that it would have to delete. For NADs the invariant also
ties a NAD without owner reference to the namespace its network's spec names
(`Anchored`), which holds until the network is moved. `ForeignKept` and
`NadsNotOverridden` are about updates that rest on an earlier read: the resource
version makes them fail if the object changed.

### Policies: `PolicyProof`

`TopPriorityWins`: for any policies, the groups the loop over `Apply` and
`mergeConfigs` leaves on a PF are those of the policies that conflict with none
after them in the order of priority. The reference definition has no loop; the
loop invariant (`LoopInv`) says the same of the policies applied so far, and rests
on `mergeConfigs` never bringing a group back. `GroupsStayDisjoint`: with ranges
that the webhook admits (hypothesis `RangesAdmitted`), the groups of a PF share no
VF and no resource and lie within its VFs, in every NodeState and in the midst of a
rendering.

### Admission: `WebhookProof`

For any policies, nodes, NICs, pools and networks and any number of requests in
flight: `AdmittedApart` (two policies admitted apart from each other take
different VFs), `AloneIsAnswered` (the flags that all requests share decide as if
they were local for a request that was alone), `DrainKept` (`disableDrain` is not
set over an update the check could see) and `LimitsUsable` (a stored pool has a
limit for every number of nodes, although it was validated for none).

Validation and storing are steps of different actors: what a request listed may be
gone when it is stored. `WebhookInv` therefore remembers who was in flight beside
whom. `OverlapInv`: of two requests in flight each knows the other. `SeenInv`: a
policy that is stored now was seen by the request in its list, unless its name was
in flight since. `CheckInv`: the nodes that the loop has left behind had no error
for what was seen. Together they make a policy compatible with all that is stored
at the moment it is stored itself, unless the two overlapped. `FlagsInv` ties the
flags to the nodes checked so far while only one policy is in flight; `ConfigInv`
says that an update of the config that was admitted saw every node that updates
now, unless it started later.

### The node: `NodeProof`

`SuccessIsReal`: what the daemon publishes as Succeeded is configured, through any
kills and power losses, but for the named window. `ResultInv` ties the result file
to units, boot phase and config file; `CopyInv` the daemon's copy to the file.

`BridgesRemembered` and `DetachedFirst` (`BridgeInv`: cache and file agree while a
reconcile works with them, a bridge under creation is stored, an entry goes after
its bridge). `ArgumentsKept` (`KargsInv`: what stays is wanted, and in the boot
loader, while the kernel runs with it). `PluginWaits` (`GateInv`: a pod is closed
until it was let in after a complete configuration, and gone before the next one).
`FirmwareLeftAlone` (`FirmwareInv`: between the comparison and mstconfig the
attributes stay within what spec or records allow).

`OneReboot`: with `OrdinarySpecs`, and as long as nothing failed, no generation
takes a second reboot of the firmware. `WriteInv` says that what the next boot will
bring fits the spec that was compared, NIC by NIC while the plugin writes;
`TrackInv` that after a counted reboot the running firmware fits, so that the next
comparison asks for none; `LinkInv` that a link type that is waiting for a boot was
asked for by some spec, hence is the one every ordinary spec asks for.

`NodeTyped` (from `SystemdTyped`, `BridgesTyped`, `KargsTyped`, `GateTyped`): the
types of the node's parts, whatever they do at the same time, with what they say
about counters and stores: no kill between the write of a counter and its reboot
lets it pass `MaxRebootsPerGeneration`, because a step counts only below the limit
and only for the generation it works with, which exists (`CounterInv`); the loops
over bridges are at one bridge at a time (`CursorInv`), and nothing is attached to
a bridge that is gone (`AttachedInv`).

### Only model-checked

Every invariant and every action property that a run checks has a theorem. What
has none is liveness, which is out of the prover's reach: `EventuallySettled`,
`EventuallyBackInService`, `RolledOut`, `HostSettles`, `ControllersSettle`,
`EventuallySynced`, `NodeSettles`. Some theorems are about less than the run:

- `CompleteOnlyWhenDrained` is proved for any number of failures, but none at the
  two points of `CutShort`; the run has one failure anywhere.
- `DrainsWithoutMco` and `NotLeftPaused` are proved under the conditions named
  above, which the behaviours of the run `Mcp` meet in their two-node part; its
  other part lets a call fail.
- `GroupsDisjoint` is proved for policies with `RangesAdmitted`.

## 5. What is not modelled

In `HostConfig`: MTU, link state, GUIDs, vDPA, udev rule files, virtual
platforms, the checkpoint file (the initial eswitch mode is legacy). In
`DevicePluginGate`: changes of the feature gate and its rollout, and a stale
initial list of the informer. In `MlxFirmware`: parsing of mstconfig's output. In
`OperatorConfig`: which manifests a directory holds, and the merge rules of single
fields. Elsewhere: time (delays, the 90 second drain timeout, back-off), pod
disruption budgets beyond "an eviction is retried", deletion of NodeStates and
changes of pools or labels during a drain, external drainers, the OVS service
override of the k8s plugin. A reboot is one step although `systemd-run` only
schedules it. `PROJECT.json` lists the parts of the system without a module and
why.
