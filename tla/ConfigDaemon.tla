---------------------------- MODULE ConfigDaemon -----------------------------
(***************************************************************************)
(* The sriov-network-config-daemon of every node, seen from the drain      *)
(* handshake: one worker per node, every API call a step of its own.  What *)
(* the plugins find is abstracted to need[n], the strongest thing that     *)
(* bringing the host from its present state to the present spec takes:     *)
(* "none" (no drain), "drain" or "reboot" (which implies a drain).         *)
(***************************************************************************)
EXTENDS DrainProtocol

CONSTANTS
    MaxGeneration,  \* bound on spec changes
    MaxDrifts,      \* bound on changes of the host behind the daemon's back
    MaxToggles,     \* bound on changes of disableDrain
    MaxReboots,     \* consts.MaxRebootsPerGeneration
    Needs           \* what plugins may require, a subset of AllNeeds

AllNeeds == {"none", "drain", "reboot"}

ASSUME DaemonAssumption ==
    /\ MaxGeneration \in Nat \ {0}
    /\ MaxDrifts \in Nat
    /\ MaxToggles \in Nat
    /\ MaxReboots \in Nat
    /\ "none" \in Needs /\ Needs \subseteq AllNeeds

VARIABLES
    dpc,           \* next call of the daemon's reconcile
    ddirty,        \* the NodeState's key is in the daemon's work queue
    gen,           \* metadata.generation of the NodeState
    need,          \* what the present spec needs on the present host
    lastApplied,   \* lastAppliedGeneration, in memory
    dGen,          \* generation read at the start of the reconcile
    dNeed,         \* reqDrain and reqReboot of this reconcile
    dCur, dDes,    \* annotations of the daemon's copy of the NodeState
    dVal,          \* annotation handleDrain is writing
    tracker,       \* the reboot tracker file
    reboots,       \* reboots done, per generation and since it was applied
    sync,          \* status.syncStatus
    disableDrain,  \* vars.DisableDrain of the daemons
    env            \* drifts and toggles so far

daemonLocal == <<dpc, ddirty, lastApplied, dGen, dNeed, dCur, dDes, dVal>>
daemonVars == <<daemonLocal, gen, need, tracker, reboots, sync, disableDrain, env>>

DPC == {"idle", "progress", "drain", "reqNode", "reqState", "check", "apply",
        "reboot", "relNode", "relState", "status", "record"}
Generation == 0..MaxGeneration
RebootRecord == [gen : Generation, count : Nat]
Happened == [drifts : 0..MaxDrifts, toggles : 0..MaxToggles]

DaemonTypeOK ==
    /\ dpc \in [Node -> DPC]
    /\ ddirty \in [Node -> BOOLEAN]
    /\ gen \in [Node -> Generation \ {0}]
    /\ need \in [Node -> Needs]
    /\ lastApplied \in [Node -> Generation]
    /\ dGen \in [Node -> Generation]
    /\ dNeed \in [Node -> Needs]
    /\ dCur \in [Node -> CurrentValue]
    /\ dDes \in [Node -> NodeAnnoValue]
    /\ dVal \in [Node -> NodeAnnoValue]
    /\ tracker \in [Node -> RebootRecord]
    /\ reboots \in [Node -> RebootRecord]
    /\ sync \in [Node -> {"", "InProgress", "Succeeded", "Failed"}]
    /\ disableDrain \in BOOLEAN
    /\ env \in Happened

DaemonBoot ==
    /\ dpc = [n \in Node |-> "idle"]
    /\ ddirty = [n \in Node |-> TRUE]
    /\ gen = [n \in Node |-> 1]
    /\ dGen = [n \in Node |-> 0]
    /\ dNeed = [n \in Node |-> "none"]
    /\ dCur = [n \in Node |-> "none"]
    /\ dDes = [n \in Node |-> "none"]
    /\ dVal = [n \in Node |-> "none"]
    /\ tracker = [n \in Node |-> [gen |-> 0, count |-> 0]]
    /\ reboots = [n \in Node |-> [gen |-> 0, count |-> 0]]
    /\ sync = [n \in Node |-> ""]
    /\ disableDrain = FALSE
    /\ env = [drifts |-> 0, toggles |-> 0]

(* A fresh daemon, and one whose host needs nothing yet.                   *)
DaemonInit ==
    /\ DaemonBoot
    /\ need = [n \in Node |-> "none"] /\ lastApplied = [n \in Node |-> 0]

DGoto(n, label) == dpc' = [dpc EXCEPT ![n] = label]
Forget(n) ==
    /\ DGoto(n, "idle")
    /\ dGen' = [dGen EXCEPT ![n] = 0]
    /\ dNeed' = [dNeed EXCEPT ![n] = "none"]
    /\ dCur' = [dCur EXCEPT ![n] = "none"]
    /\ dDes' = [dDes EXCEPT ![n] = "none"]
    /\ dVal' = [dVal EXCEPT ![n] = "none"]
DRequeue(n) == Forget(n) /\ ddirty' = [ddirty EXCEPT ![n] = TRUE]
DReturn(n) == Forget(n) /\ UNCHANGED ddirty
KeepCopy == UNCHANGED <<lastApplied, dGen, dNeed, dCur, dDes>>

-----------------------------------------------------------------------------
(* Reconcile reads the NodeState; it waits for the controller to create    *)
(* the annotations, and has nothing to do (but to look again later) when   *)
(* the generation was applied and the host did not drift.                  *)
DaemonStart(n) ==
    /\ dpc[n] = "idle" /\ ddirty[n]
    /\ IF current[n] = "none" \/ desired[n] = "none"
       THEN /\ ddirty' = [ddirty EXCEPT ![n] = FALSE]
            /\ UNCHANGED <<dpc, dGen>>
       ELSE /\ lastApplied[n] # gen[n] \/ need[n] # "none"
            /\ ddirty' = [ddirty EXCEPT ![n] = FALSE]
            /\ dGen' = [dGen EXCEPT ![n] = gen[n]]
            /\ DGoto(n, "progress")
    /\ UNCHANGED <<protocolVars, lastApplied, dNeed, dCur, dDes, dVal,
                   gen, need, tracker, reboots, sync, disableDrain, env>>

(* updateSyncState(InProgress) refreshes the metadata of the copy; a newer *)
(* generation restarts the reconcile, else the plugins are asked.          *)
MarkInProgress(n) ==
    /\ dpc[n] = "progress"
    /\ sync' = [sync EXCEPT ![n] = "InProgress"]
    /\ IF gen[n] # dGen[n]
       THEN DRequeue(n)
       ELSE /\ dCur' = [dCur EXCEPT ![n] = current[n]]
            /\ dDes' = [dDes EXCEPT ![n] = desired[n]]
            /\ dNeed' = [dNeed EXCEPT ![n] = need[n]]
            /\ DGoto(n, "drain")
            /\ UNCHANGED <<ddirty, dGen, dVal>>
    /\ UNCHANGED <<protocolVars, lastApplied, gen, need, tracker, reboots,
                   disableDrain, env>>

(* handleDrain: what to do with this copy of the NodeState - go on, wait   *)
(* for the controller, or write an annotation.  A reboot needs a drain     *)
(* that was requested as Reboot_Required; another one is rolled back.      *)
Escalate(n) == dNeed[n] = "reboot" /\ dDes[n] # "Reboot_Required"

DrainVerdict(n) ==
    CASE dNeed[n] = "none" /\ dCur[n] = "Idle" -> "go"
      [] dCur[n] \in Busy /\ Escalate(n) /\ dDes[n] = "Idle" -> "wait"
      [] dCur[n] \in Busy /\ Escalate(n) /\ dDes[n] # "Idle" -> "Idle"
      [] dCur[n] = "DrainComplete" /\ ~Escalate(n) -> "go"
      [] dCur[n] = "Draining" /\ ~Escalate(n) -> "wait"
      [] dCur[n] = "Idle" /\ dNeed[n] # "none" ->
            IF disableDrain THEN "go"
            ELSE IF dNeed[n] = "reboot" THEN "Reboot_Required" ELSE "Drain_Required"

HandleDrain(n) ==
    /\ dpc[n] = "drain"
    /\ \/ DrainVerdict(n) = "go" /\ DGoto(n, "check") /\ KeepCopy /\ UNCHANGED <<ddirty, dVal>>
       \/ DrainVerdict(n) = "wait" /\ DRequeue(n) /\ UNCHANGED lastApplied
       \/ /\ DrainVerdict(n) \in NodeAnnoValue
          /\ dVal' = [dVal EXCEPT ![n] = DrainVerdict(n)]
          /\ DGoto(n, "reqNode")
          /\ KeepCopy /\ UNCHANGED ddirty
    /\ UNCHANGED <<protocolVars, gen, need, tracker, reboots, sync, disableDrain, env>>

(* annotate: the Node first, then the NodeState; afterwards the reconcile  *)
(* waits for the controller.                                               *)
RequestOnNode(n) ==
    /\ dpc[n] = "reqNode"
    /\ nodeAnno' = [nodeAnno EXCEPT ![n] = dVal[n]]
    /\ DGoto(n, "reqState")
    /\ KeepCopy
    /\ UNCHANGED <<desired, current, cond, cordoned, pods, ddirty, dVal,
                   gen, need, tracker, reboots, sync, disableDrain, env>>

RequestOnState(n) ==
    /\ dpc[n] = "reqState"
    /\ desired' = [desired EXCEPT ![n] = dVal[n]]
    /\ DRequeue(n)
    /\ UNCHANGED <<nodeAnno, current, cond, cordoned, pods, lastApplied,
                   gen, need, tracker, reboots, sync, disableDrain, env>>

(* isDrainCompleted; when it says no the reconcile ends and is not         *)
(* requeued.                                                               *)
IsDrainCompleted(n) ==
    \/ disableDrain
    \/ dCur[n] = "DrainComplete"
    \/ dNeed[n] = "none" /\ dDes[n] = "Idle"

CheckDrainCompleted(n) ==
    /\ dpc[n] = "check"
    /\ IF IsDrainCompleted(n)
       THEN DGoto(n, "apply") /\ KeepCopy /\ UNCHANGED <<ddirty, dVal>>
       ELSE DReturn(n) /\ UNCHANGED lastApplied
    /\ UNCHANGED <<protocolVars, gen, need, tracker, reboots, sync, disableDrain, env>>

-----------------------------------------------------------------------------
(* apply without a reboot: the plugins configure the host.                 *)
ApplyPlugins(n) ==
    /\ dpc[n] = "apply" /\ dNeed[n] # "reboot"
    /\ need' = [need EXCEPT ![n] = IF gen[n] = dGen[n] THEN "none" ELSE @]
    /\ DGoto(n, "relNode")
    /\ KeepCopy
    /\ UNCHANGED <<protocolVars, ddirty, dVal, gen, tracker, reboots, sync,
                   disableDrain, env>>

RebootCount(n) == IF tracker[n].gen = dGen[n] THEN tracker[n].count ELSE 0

(* apply with a reboot: at the limit the sync fails, and only a new spec   *)
(* or a restart of the daemon makes it try again; below it the counter is  *)
(* written before the reboot.                                              *)
RebootLimitReached(n) ==
    /\ dpc[n] = "apply" /\ dNeed[n] = "reboot"
    /\ RebootCount(n) >= MaxReboots
    /\ sync' = [sync EXCEPT ![n] = "Failed"]
    /\ DReturn(n)
    /\ UNCHANGED <<protocolVars, lastApplied, gen, need, tracker, reboots,
                   disableDrain, env>>

\* a slip: <= for <
IncrementPastLimit(n) ==
    /\ dpc[n] = "apply" /\ dNeed[n] = "reboot"
    /\ RebootCount(n) <= MaxReboots
    /\ tracker' = [tracker EXCEPT ![n] = [gen |-> dGen[n], count |-> RebootCount(n) + 1]]
    /\ DGoto(n, "reboot")
    /\ KeepCopy
    /\ UNCHANGED <<protocolVars, ddirty, dVal, gen, need, reboots, sync,
                   disableDrain, env>>

IncrementRebootCounter(n) ==
    /\ dpc[n] = "apply" /\ dNeed[n] = "reboot"
    /\ RebootCount(n) < MaxReboots
    /\ tracker' = [tracker EXCEPT ![n] = [gen |-> dGen[n], count |-> RebootCount(n) + 1]]
    /\ DGoto(n, "reboot")
    /\ KeepCopy
    /\ UNCHANGED <<protocolVars, ddirty, dVal, gen, need, reboots, sync,
                   disableDrain, env>>

(* The node reboots and the daemon starts afresh.                          *)
RebootNode(n) ==
    /\ dpc[n] = "reboot"
    /\ reboots' = [reboots EXCEPT ![n] =
          [gen |-> dGen[n],
           count |-> IF @.gen = dGen[n] THEN @.count + 1 ELSE 1]]
    /\ \E after \in Needs : need' = [need EXCEPT ![n] = after]
    /\ lastApplied' = [lastApplied EXCEPT ![n] = 0]
    /\ DRequeue(n)
    /\ UNCHANGED <<protocolVars, gen, tracker, sync, disableDrain, env>>

(* annotate(Idle) after the plugins are done, Node first.                  *)
ReleaseNode(n) ==
    /\ dpc[n] = "relNode"
    /\ nodeAnno' = [nodeAnno EXCEPT ![n] = "Idle"]
    /\ DGoto(n, "relState")
    /\ KeepCopy
    /\ UNCHANGED <<desired, current, cond, cordoned, pods, ddirty, dVal,
                   gen, need, tracker, reboots, sync, disableDrain, env>>

ReleaseState(n) ==
    /\ dpc[n] = "relState"
    /\ desired' = [desired EXCEPT ![n] = "Idle"]
    /\ ddirty' = [ddirty EXCEPT ![n] = @ \/ desired[n] # "Idle"]
    /\ DGoto(n, "status")
    /\ KeepCopy
    /\ UNCHANGED <<nodeAnno, current, cond, cordoned, pods, dVal,
                   gen, need, tracker, reboots, sync, disableDrain, env>>

PublishStatus(n) ==
    /\ dpc[n] = "status"
    /\ sync' = [sync EXCEPT ![n] = "Succeeded"]
    /\ DGoto(n, "record")
    /\ KeepCopy
    /\ UNCHANGED <<protocolVars, ddirty, dVal, gen, need, tracker, reboots,
                   disableDrain, env>>

(* ResetRebootCounter and lastAppliedGeneration, both with the generation  *)
(* read at the start.                                                      *)
\* a slip: the generation is read again
RecordLatest(n) ==
    /\ dpc[n] = "record"
    /\ tracker' = [tracker EXCEPT ![n] = [gen |-> gen[n], count |-> 0]]
    /\ reboots' = [reboots EXCEPT ![n] = [gen |-> gen[n], count |-> 0]]
    /\ lastApplied' = [lastApplied EXCEPT ![n] = gen[n]]
    /\ DRequeue(n)
    /\ UNCHANGED <<protocolVars, gen, need, sync, disableDrain, env>>

RecordApplied(n) ==
    /\ dpc[n] = "record"
    /\ tracker' = [tracker EXCEPT ![n] = [gen |-> dGen[n], count |-> 0]]
    /\ reboots' = [reboots EXCEPT ![n] = [gen |-> dGen[n], count |-> 0]]
    /\ lastApplied' = [lastApplied EXCEPT ![n] = dGen[n]]
    /\ DRequeue(n)
    /\ UNCHANGED <<protocolVars, gen, need, sync, disableDrain, env>>

-----------------------------------------------------------------------------
(* A call fails: the reconcile returns the error and is retried.           *)
DaemonCallFails(n) ==
    /\ dpc[n] \notin {"idle", "drain", "check"}
    /\ DRequeue(n)
    /\ UNCHANGED <<protocolVars, lastApplied, gen, need, tracker, reboots,
                   sync, disableDrain, env>>

(* The daemon's pod restarts: only what it keeps in memory is lost.        *)
DaemonRestart(n) ==
    /\ lastApplied' = [lastApplied EXCEPT ![n] = 0]
    /\ DRequeue(n)
    /\ UNCHANGED <<protocolVars, gen, need, tracker, reboots, sync,
                   disableDrain, env>>

(* The policies change the spec of the NodeState.                          *)
SpecChange(n, what) ==
    /\ gen[n] < MaxGeneration
    /\ gen' = [gen EXCEPT ![n] = @ + 1]
    /\ need' = [need EXCEPT ![n] = what]
    /\ ddirty' = [ddirty EXCEPT ![n] = TRUE]
    /\ UNCHANGED <<protocolVars, dpc, lastApplied, dGen, dNeed, dCur, dDes,
                   dVal, tracker, reboots, sync, disableDrain, env>>

(* Something else changes a device of the node after it was configured.    *)
HostDrift(n, what) ==
    /\ env.drifts < MaxDrifts
    /\ need[n] = "none" /\ what # "none"
    /\ need' = [need EXCEPT ![n] = what]
    /\ env' = [env EXCEPT !.drifts = @ + 1]
    /\ UNCHANGED <<protocolVars, daemonLocal, gen, tracker, reboots, sync, disableDrain>>

(* OperatorConfigNodeReconcile changes vars.DisableDrain, which handleDrain*)
(* and isDrainCompleted each read, while a reconcile is running.           *)
ToggleDisableDrain ==
    /\ env.toggles < MaxToggles
    /\ disableDrain' = ~disableDrain
    /\ env' = [env EXCEPT !.toggles = @ + 1]
    /\ UNCHANGED <<protocolVars, daemonLocal, gen, need, tracker, reboots, sync>>

DaemonStep(n) ==
    \/ DaemonStart(n) \/ MarkInProgress(n) \/ HandleDrain(n)
    \/ RequestOnNode(n) \/ RequestOnState(n) \/ CheckDrainCompleted(n)
    \/ ApplyPlugins(n) \/ RebootLimitReached(n) \/ IncrementRebootCounter(n)
    \/ RebootNode(n) \/ ReleaseNode(n) \/ ReleaseState(n)
    \/ PublishStatus(n) \/ RecordApplied(n)

DaemonEnvironment ==
    \/ \E n \in Managed, what \in Needs : SpecChange(n, what) \/ HostDrift(n, what)
    \/ ToggleDisableDrain

=============================================================================
