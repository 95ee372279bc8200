----------------------------- MODULE SystemProof -----------------------------
(***************************************************************************)
(* Proofs about DrainSystem, for any cluster, any pools, any specs and any *)
(* number of failures.  The real daemons are shown to be daemons as        *)
(* DrainController allows them, so that what is proved of the controller   *)
(* alone holds of the whole system.  Then what the daemons add: reboots    *)
(* are limited, what is recorded is applied, a complete drain happened,    *)
(* and a request stands until it is served.                                *)
(***************************************************************************)
EXTENDS DrainSystem, DrainControllerProof

(* Most leaves are first-order: Zenon proves them, SMT those that cite it.  *)
USE Zenon

Released == {"relNode", "relState", "status", "record"}

(* What a daemon may rely on although it read the NodeState long ago.      *)
CopyInv(n) ==
    /\ dpc[n] # "idle" => current[n] # "none" /\ desired[n] # "none"
    /\ dpc[n] = "drain" => dCur[n] # "none"
    /\ dpc[n] \in {"reqNode", "reqState"} => dVal[n] \in Request \cup {"Idle"}
    /\ dGen[n] <= gen[n] /\ lastApplied[n] <= gen[n]

(* The tracker file counts a reboot before it happens and is never behind  *)
(* the reboots that did happen for its generation.                         *)
TrackerInv(n) ==
    /\ tracker[n].gen <= gen[n] /\ reboots[n].gen <= tracker[n].gen
    /\ dpc[n] # "idle" => tracker[n].gen <= dGen[n]
    /\ tracker[n].count <= MaxReboots /\ reboots[n].count <= MaxReboots
    /\ reboots[n].gen = tracker[n].gen => reboots[n].count <= tracker[n].count
    /\ dpc[n] = "reboot" =>
          /\ tracker[n].gen = dGen[n] /\ 1 <= tracker[n].count
          /\ reboots[n].gen = dGen[n] => reboots[n].count < tracker[n].count

(* Between apply and the record the host has the spec that apply read, or  *)
(* a newer one has come.                                                   *)
AppliedInv(n) ==
    env.drifts = 0 =>
        /\ lastApplied[n] = gen[n] => need[n] = "none"
        /\ dpc[n] \in Released /\ dGen[n] = gen[n] => need[n] = "none"

DaemonInv == \A n \in Node : CopyInv(n) /\ TrackerInv(n) /\ AppliedInv(n)
SysInv == SysTypeOK /\ HandshakeInv /\ DaemonInv

-----------------------------------------------------------------------------
(* What a step of the daemon of n leaves alone.                            *)
LEMMA DaemonFrame ==
    ASSUME NEW n \in Node, DaemonStep(n) \/ DaemonCallFails(n) \/ DaemonRestart(n)
    PROVE  UNCHANGED <<current, cond, cordoned, pods, gen, disableDrain, env>>
  BY DEF DaemonStep, DaemonCallFails, DaemonRestart, protocolVars,
     DaemonStart, MarkInProgress, HandleDrain, RequestOnNode, RequestOnState,
     CheckDrainCompleted, ApplyPlugins, RebootLimitReached, IncrementRebootCounter,
     RebootNode, ReleaseNode, ReleaseState, PublishStatus, RecordApplied

(* A daemon that forgets its copy has locals of the right types.           *)
LEMMA ForgetTypes ==
    ASSUME DaemonTypeOK, NEW n \in Node, Forget(n)
    PROVE  /\ dpc' \in [Node -> DPC] /\ dGen' \in [Node -> Generation]
           /\ dNeed' \in [Node -> Needs] /\ dCur' \in [Node -> CurrentValue]
           /\ dDes' \in [Node -> NodeAnnoValue] /\ dVal' \in [Node -> NodeAnnoValue]
  <1>1. 0 \in Generation /\ "none" \in Needs
    BY DaemonAssumption, SMT DEF Generation
  <1> QED  BY <1>1 DEF DaemonTypeOK, Forget, DGoto, DPC, CurrentValue, NodeAnnoValue

(* One more reboot for a generation.                                       *)
LEMMA OneMoreReboot ==
    ASSUME NEW r \in RebootRecord, NEW g \in Generation
    PROVE  [gen |-> g, count |-> IF r.gen = g THEN r.count + 1 ELSE 1] \in RebootRecord
  <1>1. (IF r.gen = g THEN r.count + 1 ELSE 1) \in Nat
    BY SMT DEF RebootRecord
  <1> QED  BY <1>1 DEF RebootRecord

LEMMA CountedReboot ==
    ASSUME NEW n
    PROVE  RebootCount(n) + 1 = IF tracker[n].gen = dGen[n] THEN tracker[n].count + 1 ELSE 1
  <1>1. CASE tracker[n].gen = dGen[n]
    BY <1>1 DEF RebootCount
  <1>2. CASE tracker[n].gen # dGen[n]
    BY <1>2, SMT DEF RebootCount
  <1> QED  BY <1>1, <1>2

(* Every step of a daemon keeps the types.                                 *)
LEMMA DaemonTypeStep ==
    ASSUME TypeOK, DaemonTypeOK, NEW n \in Node,
           DaemonStep(n) \/ DaemonCallFails(n) \/ DaemonRestart(n)
    PROVE  DaemonTypeOK'
  <1>0. 0 \in Generation /\ "none" \in Needs
    BY DaemonAssumption, SMT DEF Generation
  <1> USE <1>0 DEF DaemonTypeOK, DGoto, DRequeue, DReturn, KeepCopy
  <1>1. CASE DaemonStart(n)
    <2>1. CASE current[n] = "none" \/ desired[n] = "none"
      BY <1>1, <2>1 DEF DaemonStart
    <2>2. CASE ~(current[n] = "none" \/ desired[n] = "none")
      <3>1. gen[n] \in Generation
        OBVIOUS
      <3> QED  BY <1>1, <2>2, <3>1 DEF DaemonStart, DPC
    <2> QED  BY <2>1, <2>2
  <1>2. CASE MarkInProgress(n)
    <2>1. CASE gen[n] # dGen[n]
      BY ForgetTypes, <1>2, <2>1 DEF MarkInProgress
    <2>2. CASE gen[n] = dGen[n]
      <3>1. current[n] \in CurrentValue /\ desired[n] \in NodeAnnoValue
        BY DEF TypeOK, ProtocolTypeOK
      <3> QED  BY <1>2, <2>2, <3>1, ZenonT(30) DEF MarkInProgress, DPC
    <2> QED  BY <2>1, <2>2
  <1>3. CASE HandleDrain(n)
    <2>1. CASE DrainVerdict(n) = "wait" /\ DRequeue(n) /\ UNCHANGED lastApplied
      BY ForgetTypes, <1>3, <2>1 DEF HandleDrain
    <2>2. CASE DGoto(n, "check") /\ KeepCopy /\ UNCHANGED <<ddirty, dVal>>
      BY <1>3, <2>2 DEF HandleDrain, DPC
    <2>3. CASE /\ DrainVerdict(n) \in NodeAnnoValue
               /\ dVal' = [dVal EXCEPT ![n] = DrainVerdict(n)]
               /\ DGoto(n, "reqNode") /\ KeepCopy /\ UNCHANGED ddirty
      BY <1>3, <2>3 DEF HandleDrain, DPC
    <2> QED  BY <1>3, <2>1, <2>2, <2>3 DEF HandleDrain
  <1>4. CASE RequestOnNode(n)
    BY <1>4 DEF RequestOnNode, DPC
  <1>5. CASE RequestOnState(n)
    BY ForgetTypes, <1>5 DEF RequestOnState
  <1>6. CASE CheckDrainCompleted(n)
    <2>1. CASE IsDrainCompleted(n)
      BY <1>6, <2>1 DEF CheckDrainCompleted, DPC
    <2>2. CASE ~IsDrainCompleted(n)
      BY ForgetTypes, <1>6, <2>2 DEF CheckDrainCompleted
    <2> QED  BY <2>1, <2>2
  <1>7. CASE ApplyPlugins(n)
    BY <1>7 DEF ApplyPlugins, DPC
  <1>8. CASE RebootLimitReached(n)
    BY ForgetTypes, <1>8 DEF RebootLimitReached
  <1>9. CASE IncrementRebootCounter(n)
    <2> DEFINE after == [gen |-> dGen[n],
                         count |-> IF tracker[n].gen = dGen[n] THEN tracker[n].count + 1 ELSE 1]
    <2>1. after \in RebootRecord
      BY OneMoreReboot
    <2>2. RebootCount(n) + 1 = IF tracker[n].gen = dGen[n] THEN tracker[n].count + 1 ELSE 1
      BY CountedReboot
    <2>3. tracker' = [tracker EXCEPT ![n] = after]
      BY <1>9, <2>2 DEF IncrementRebootCounter
    <2> HIDE DEF after
    <2>4. tracker' \in [Node -> RebootRecord]
      BY <2>1, <2>3
    <2> QED  BY <1>9, <2>4 DEF IncrementRebootCounter, DPC
  <1>10. CASE RebootNode(n)
    <2> DEFINE after == [gen |-> dGen[n],
                         count |-> IF reboots[n].gen = dGen[n] THEN reboots[n].count + 1 ELSE 1]
    <2>1. after \in RebootRecord
      BY OneMoreReboot
    <2>2. reboots' = [reboots EXCEPT ![n] = after]
      BY <1>10 DEF RebootNode
    <2> HIDE DEF after
    <2>3. reboots' \in [Node -> RebootRecord]
      BY <2>1, <2>2
    <2>4. PICK needed \in Needs : need' = [need EXCEPT ![n] = needed]
      BY <1>10 DEF RebootNode
    <2>5. need' \in [Node -> Needs]
      BY <2>4
    <2>6. lastApplied' \in [Node -> Generation]
      BY <1>10 DEF RebootNode
    <2> QED  BY <1>10, <2>3, <2>5, <2>6, ForgetTypes DEF RebootNode
  <1>11. CASE ReleaseNode(n)
    BY <1>11 DEF ReleaseNode, DPC
  <1>12. CASE ReleaseState(n)
    BY <1>12 DEF ReleaseState, DPC
  <1>13. CASE PublishStatus(n)
    BY <1>13 DEF PublishStatus, DPC
  <1>14. CASE RecordApplied(n)
    <2>1. [gen |-> dGen[n], count |-> 0] \in RebootRecord
      BY DEF RebootRecord
    <2> QED  BY ForgetTypes, <1>14, <2>1 DEF RecordApplied
  <1>15. CASE DaemonCallFails(n)
    BY ForgetTypes, <1>15 DEF DaemonCallFails
  <1>16. CASE DaemonRestart(n)
    BY ForgetTypes, <1>16 DEF DaemonRestart
  <1> QED  BY <1>1, <1>2, <1>3, <1>4, <1>5, <1>6, <1>7, <1>8, <1>9, <1>10, <1>11, <1>12,
              <1>13, <1>14, <1>15, <1>16 DEF DaemonStep

-----------------------------------------------------------------------------
(* What a daemon asks for is a request or its withdrawal.                  *)
LEMMA VerdictWritten ==
    ASSUME NEW n, dCur[n] \in CurrentValue \ {"none"}, dNeed[n] \in Needs,
           DrainVerdict(n) \in NodeAnnoValue
    PROVE  DrainVerdict(n) \in Request \cup {"Idle"}
  BY DaemonAssumption DEF DrainVerdict, Escalate, CurrentValue, Busy, NodeAnnoValue, Request, AllNeeds

(* A daemon forgets its copy, or leaves all that concerns other nodes.     *)
LEMMA ForgetLocal ==
    ASSUME DaemonTypeOK, NEW n \in Node, Forget(n)
    PROVE  /\ dpc'[n] = "idle" /\ dGen'[n] = 0
           /\ \A m \in Node \ {n} : /\ dpc'[m] = dpc[m] /\ dGen'[m] = dGen[m]
                                    /\ dCur'[m] = dCur[m] /\ dVal'[m] = dVal[m]
  BY DEF DaemonTypeOK, Forget, DGoto

LEMMA GenerationIsNat ==
    ASSUME NEW g \in Generation
    PROVE  g \in Nat /\ 0 <= g /\ g <= g
  BY DaemonAssumption, SMT DEF Generation

LEMMA CopyStep ==
    ASSUME TypeOK, DaemonTypeOK, NEW n \in Node, NEW m \in Node, CopyInv(n), CopyInv(m),
           DaemonStep(n) \/ DaemonCallFails(n) \/ DaemonRestart(n)
    PROVE  CopyInv(m)'
  <1>a. UNCHANGED <<current, gen>>
    BY DaemonFrame
  <1>b. gen[m] \in Generation /\ gen[n] \in Generation
    BY DEF DaemonTypeOK
  <1>c. 0 <= gen[m] /\ gen[m] <= gen[m] /\ gen[n] <= gen[n]
    BY <1>b, GenerationIsNat
  <1> USE <1>a, <1>c DEF DaemonTypeOK, CopyInv, DGoto, DRequeue, DReturn, KeepCopy
  <1>1. CASE DaemonStart(n)
    BY <1>1 DEF DaemonStart, protocolVars
  <1>2. CASE MarkInProgress(n)
    <2>1. CASE gen[n] # dGen[n]
      BY <1>2, <2>1, ForgetLocal, ZenonT(30) DEF MarkInProgress, protocolVars
    <2>2. CASE gen[n] = dGen[n]
      BY <1>2, <2>2, ZenonT(30) DEF MarkInProgress, protocolVars
    <2> QED  BY <2>1, <2>2
  <1>3. CASE HandleDrain(n)
    <2>1. CASE DrainVerdict(n) = "wait" /\ DRequeue(n) /\ UNCHANGED lastApplied
      BY <1>3, <2>1, ForgetLocal, ZenonT(30) DEF HandleDrain, protocolVars
    <2>2. CASE DGoto(n, "check") /\ KeepCopy /\ UNCHANGED <<ddirty, dVal>>
      BY <1>3, <2>2 DEF HandleDrain, protocolVars
    <2>3. CASE /\ DrainVerdict(n) \in NodeAnnoValue
               /\ dVal' = [dVal EXCEPT ![n] = DrainVerdict(n)]
               /\ DGoto(n, "reqNode") /\ KeepCopy /\ UNCHANGED ddirty
      <3>1. DrainVerdict(n) \in Request \cup {"Idle"}
        BY <1>3, <2>3, VerdictWritten DEF HandleDrain
      <3> QED  BY <1>3, <2>3, <3>1 DEF HandleDrain, protocolVars
    <2> QED  BY <1>3, <2>1, <2>2, <2>3 DEF HandleDrain
  <1>4. CASE RequestOnNode(n)
    BY <1>4 DEF RequestOnNode
  <1>5. CASE RequestOnState(n)
    BY <1>5, ForgetLocal, ZenonT(60) DEF RequestOnState, Request, TypeOK, ProtocolTypeOK
  <1>6. CASE CheckDrainCompleted(n)
    <2>1. CASE IsDrainCompleted(n)
      BY <1>6, <2>1 DEF CheckDrainCompleted, protocolVars
    <2>2. CASE ~IsDrainCompleted(n)
      BY <1>6, <2>2, ForgetLocal, ZenonT(30) DEF CheckDrainCompleted, protocolVars
    <2> QED  BY <2>1, <2>2
  <1>7. CASE ApplyPlugins(n) \/ IncrementRebootCounter(n) \/ ReleaseNode(n) \/ PublishStatus(n)
    BY <1>7, ZenonT(60) DEF ApplyPlugins, IncrementRebootCounter, ReleaseNode, PublishStatus, protocolVars
  <1>8. CASE RebootLimitReached(n) \/ DaemonCallFails(n)
    BY <1>8, ForgetLocal, ZenonT(60) DEF RebootLimitReached, DaemonCallFails, protocolVars
  <1>9. CASE RebootNode(n)
    <2>1. /\ lastApplied' = [lastApplied EXCEPT ![n] = 0]
          /\ DRequeue(n) /\ UNCHANGED protocolVars
      BY <1>9 DEF RebootNode
    <2> QED  BY <2>1, ForgetLocal DEF protocolVars
  <1>12. CASE DaemonRestart(n)
    BY <1>12, ForgetLocal DEF DaemonRestart, protocolVars
  <1>10. CASE ReleaseState(n)
    BY <1>10 DEF ReleaseState, TypeOK, ProtocolTypeOK
  <1>11. CASE RecordApplied(n)
    BY <1>11, ForgetLocal, ZenonT(30) DEF RecordApplied, protocolVars
  <1> QED  BY <1>1, <1>2, <1>3, <1>4, <1>5, <1>6, <1>7, <1>8, <1>9, <1>10, <1>11, <1>12,
              ZenonT(60)
           DEF DaemonStep

(* A step of the daemon of n is about n.                                   *)
LEMMA OthersKeep ==
    ASSUME DaemonTypeOK, NEW n \in Node, NEW m \in Node \ {n},
           DaemonStep(n) \/ DaemonCallFails(n) \/ DaemonRestart(n)
    PROVE  /\ dpc'[m] = dpc[m] /\ dGen'[m] = dGen[m] /\ lastApplied'[m] = lastApplied[m]
           /\ need'[m] = need[m] /\ tracker'[m] = tracker[m] /\ reboots'[m] = reboots[m]
  <1> USE DEF DaemonTypeOK, DGoto, DRequeue, DReturn, KeepCopy
  <1>1. CASE DaemonStart(n)
    BY <1>1 DEF DaemonStart
  <1>7. CASE MarkInProgress(n)
    <2>1. CASE gen[n] # dGen[n]
      BY <1>7, <2>1, ForgetLocal DEF MarkInProgress
    <2>2. CASE gen[n] = dGen[n]
      BY <1>7, <2>2 DEF MarkInProgress
    <2> QED  BY <2>1, <2>2
  <1>8. CASE CheckDrainCompleted(n)
    <2>1. CASE IsDrainCompleted(n)
      BY <1>8, <2>1 DEF CheckDrainCompleted
    <2>2. CASE ~IsDrainCompleted(n)
      BY <1>8, <2>2, ForgetLocal DEF CheckDrainCompleted
    <2> QED  BY <2>1, <2>2
  <1>2. CASE HandleDrain(n)
    BY <1>2, ForgetLocal DEF HandleDrain
  <1>3. CASE RequestOnNode(n) \/ RequestOnState(n) \/ ReleaseNode(n) \/ ReleaseState(n)
    BY <1>3, ForgetLocal DEF RequestOnNode, RequestOnState, ReleaseNode, ReleaseState
  <1>4. CASE ApplyPlugins(n) \/ RebootLimitReached(n) \/ IncrementRebootCounter(n)
    BY <1>4, ForgetLocal, ZenonT(60) DEF ApplyPlugins, RebootLimitReached, IncrementRebootCounter
  <1>5. CASE RebootNode(n)
    <2>1. PICK after \in Needs : need' = [need EXCEPT ![n] = after]
      BY <1>5 DEF RebootNode
    <2> QED  BY <1>5, <2>1, ForgetLocal, ZenonT(30) DEF RebootNode
  <1>6. CASE PublishStatus(n) \/ RecordApplied(n) \/ DaemonCallFails(n) \/ DaemonRestart(n)
    BY <1>6, ForgetLocal, ZenonT(30) DEF PublishStatus, RecordApplied, DaemonCallFails, DaemonRestart
  <1> QED  BY <1>1, <1>2, <1>3, <1>4, <1>5, <1>6, <1>7, <1>8 DEF DaemonStep

(* Records of the two counters as numbers.                                 *)
LEMMA CountersAreNat ==
    ASSUME DaemonTypeOK, NEW n \in Node
    PROVE  /\ tracker[n].gen \in Nat /\ tracker[n].count \in Nat
           /\ reboots[n].gen \in Nat /\ reboots[n].count \in Nat
           /\ dGen[n] \in Nat /\ gen[n] \in Nat
  <1>1. tracker[n] \in RebootRecord /\ reboots[n] \in RebootRecord
        /\ dGen[n] \in Generation /\ gen[n] \in Generation
    BY DEF DaemonTypeOK
  <1>2. /\ tracker[n].gen \in Generation /\ tracker[n].count \in Nat
        /\ reboots[n].gen \in Generation /\ reboots[n].count \in Nat
    BY <1>1 DEF RebootRecord
  <1> QED  BY <1>1, <1>2, GenerationIsNat

(* The reboot counter while the daemon of n moves: the only steps that     *)
(* change a counter are the increment, the reboot and the reset.           *)
LEMMA TrackerStep ==
    ASSUME TypeOK, DaemonTypeOK, NEW n \in Node, CopyInv(n), TrackerInv(n),
           DaemonStep(n) \/ DaemonCallFails(n) \/ DaemonRestart(n)
    PROVE  TrackerInv(n)'
  <1>a. /\ tracker[n].gen \in Nat /\ tracker[n].count \in Nat
        /\ reboots[n].gen \in Nat /\ reboots[n].count \in Nat
        /\ dGen[n] \in Nat /\ gen[n] \in Nat /\ MaxReboots \in Nat
    BY CountersAreNat, DaemonAssumption
  <1>b. gen' = gen
    BY DaemonFrame
  <1> USE <1>a, <1>b DEF TrackerInv, CopyInv
  <1>1. ASSUME UNCHANGED <<tracker, reboots>>,
               \/ dpc'[n] = "idle"
               \/ dGen'[n] = dGen[n] /\ dpc'[n] # "reboot" /\ dpc[n] # "idle"
        PROVE  TrackerInv(n)'
    BY <1>1
  <1>2. CASE DaemonStart(n)
    <2>1. CASE dpc' = dpc
      BY <1>1, <1>2, <2>1 DEF DaemonStart
    <2>2. CASE dGen' = [dGen EXCEPT ![n] = gen[n]] /\ DGoto(n, "progress")
      <3>1. dGen'[n] = gen[n] /\ dpc'[n] = "progress" /\ UNCHANGED <<tracker, reboots>>
        BY <1>2, <2>2 DEF DaemonTypeOK, DGoto, DaemonStart
      <3> QED  BY <3>1
    <2> QED  BY <1>2, <2>1, <2>2 DEF DaemonStart
  <1>3. CASE IncrementRebootCounter(n)
    <2>1. /\ tracker'[n] = [gen |-> dGen[n], count |-> RebootCount(n) + 1]
          /\ dGen'[n] = dGen[n] /\ dpc'[n] = "reboot" /\ reboots' = reboots
          /\ dpc[n] = "apply"
      BY <1>3 DEF IncrementRebootCounter, DaemonTypeOK, DGoto, KeepCopy
    <2>2. RebootCount(n) < MaxReboots /\ RebootCount(n) \in Nat
      BY <1>3 DEF IncrementRebootCounter, RebootCount
    <2>3. reboots[n].gen = dGen[n] => reboots[n].count <= RebootCount(n)
      BY <2>1, SMTT(30) DEF RebootCount
    <2> DEFINE c == RebootCount(n)
    <2>4. /\ c \in Nat /\ c < MaxReboots
          /\ tracker'[n].gen = dGen[n] /\ tracker'[n].count = c + 1
          /\ reboots[n].gen = dGen[n] => reboots[n].count <= c
      BY <2>1, <2>2, <2>3, SMTT(30)
    <2> HIDE DEF c
    <2> QED  BY <2>1, <2>4, SMTT(30)
  <1>4. CASE RebootNode(n)
    <2> DEFINE c == IF reboots[n].gen = dGen[n] THEN reboots[n].count + 1 ELSE 1
    <2>1. /\ reboots'[n] = [gen |-> dGen[n], count |-> c]
          /\ tracker' = tracker /\ dpc'[n] = "idle" /\ dpc[n] = "reboot"
      BY <1>4 DEF RebootNode, DaemonTypeOK, DRequeue, Forget, DGoto
    <2>2. c \in Nat /\ c <= tracker[n].count
      BY <2>1, SMTT(30)
    <2>3. reboots'[n].gen = dGen[n] /\ reboots'[n].count = c
      BY <2>1, SMTT(30)
    <2> HIDE DEF c
    <2> QED  BY <2>1, <2>2, <2>3, SMTT(30)
  <1>5. CASE RecordApplied(n)
    <2>1. /\ tracker'[n] = [gen |-> dGen[n], count |-> 0]
          /\ reboots'[n] = [gen |-> dGen[n], count |-> 0]
          /\ dpc'[n] = "idle" /\ dpc[n] = "record"
      BY <1>5 DEF RecordApplied, DaemonTypeOK, DRequeue, Forget, DGoto
    <2> QED  BY <2>1, SMTT(30)
  <1>6. CASE MarkInProgress(n) \/ CheckDrainCompleted(n)
    <2>1. CASE Forget(n)
      BY <1>1, <1>6, <2>1, ForgetLocal DEF MarkInProgress, CheckDrainCompleted
    <2>2. CASE ~Forget(n)
      BY <1>1, <1>6, <2>2, ZenonT(60) DEF MarkInProgress, CheckDrainCompleted, DaemonTypeOK, DGoto,
         DRequeue, DReturn, KeepCopy
    <2> QED  BY <2>1, <2>2
  <1>7. CASE HandleDrain(n)
    <2>1. CASE Forget(n)
      BY <1>1, <1>7, <2>1, ForgetLocal DEF HandleDrain
    <2>2. CASE ~Forget(n)
      BY <1>1, <1>7, <2>2 DEF HandleDrain, DaemonTypeOK, DGoto, DRequeue, KeepCopy
    <2> QED  BY <2>1, <2>2
  <1>8. CASE \/ RequestOnNode(n) \/ ReleaseNode(n) \/ ReleaseState(n)
             \/ ApplyPlugins(n) \/ PublishStatus(n)
    BY <1>1, <1>8 DEF RequestOnNode, ReleaseNode, ReleaseState, ApplyPlugins,
       PublishStatus, DaemonTypeOK, DGoto, KeepCopy
  <1>9. CASE RequestOnState(n) \/ RebootLimitReached(n) \/ DaemonCallFails(n) \/ DaemonRestart(n)
    BY <1>1, <1>9, ForgetLocal, ZenonT(60) DEF RequestOnState, RebootLimitReached, DaemonCallFails,
       DaemonRestart, DRequeue, DReturn
  <1> QED  BY <1>2, <1>3, <1>4, <1>5, <1>6, <1>7, <1>8, <1>9 DEF DaemonStep

(* Only apply makes the host what a spec says, and what apply read is      *)
(* what the daemon records.                                                *)
LEMMA AppliedStep ==
    ASSUME TypeOK, DaemonTypeOK, NEW n \in Node, CopyInv(n), AppliedInv(n),
           DaemonStep(n) \/ DaemonCallFails(n) \/ DaemonRestart(n)
    PROVE  AppliedInv(n)'
  <1>a. gen' = gen /\ env' = env /\ gen[n] # 0
    BY DaemonFrame DEF DaemonTypeOK
  <1> USE <1>a DEF AppliedInv
  <1>1. ASSUME need'[n] = need[n], lastApplied'[n] \in {lastApplied[n], 0},
               \/ dpc'[n] \notin Released
               \/ dGen'[n] = dGen[n] /\ dpc[n] \in Released
        PROVE  AppliedInv(n)'
    BY <1>1
  <1>2. CASE DaemonStart(n)
    BY <1>1, <1>2 DEF DaemonStart, DaemonTypeOK, DGoto, Released
  <1>3. CASE ApplyPlugins(n)
    BY <1>3 DEF ApplyPlugins, DaemonTypeOK, DGoto, KeepCopy, Released
  <1>4. CASE RebootNode(n)
    <2>1. dpc'[n] = "idle" /\ lastApplied'[n] = 0
      BY <1>4 DEF RebootNode, DaemonTypeOK, DRequeue, Forget, DGoto
    <2> QED  BY <2>1 DEF Released
  <1>5. CASE RecordApplied(n)
    <2>1. /\ lastApplied'[n] = dGen[n] /\ need' = need
          /\ dpc'[n] = "idle" /\ dpc[n] = "record"
      BY <1>5 DEF RecordApplied, DaemonTypeOK, DRequeue, Forget, DGoto
    <2> QED  BY <2>1 DEF Released
  <1>6. CASE MarkInProgress(n) \/ CheckDrainCompleted(n)
    <2>1. CASE Forget(n)
      BY <1>1, <1>6, <2>1, ForgetLocal DEF MarkInProgress, CheckDrainCompleted, Released, KeepCopy
    <2>2. CASE ~Forget(n)
      BY <1>1, <1>6, <2>2, ZenonT(30) DEF MarkInProgress, CheckDrainCompleted, DaemonTypeOK, DGoto,
         DRequeue, DReturn, KeepCopy, Released
    <2> QED  BY <2>1, <2>2
  <1>7. CASE HandleDrain(n)
    <2>1. CASE Forget(n)
      BY <1>1, <1>7, <2>1, ForgetLocal DEF HandleDrain, Released, KeepCopy
    <2>2. CASE ~Forget(n)
      BY <1>1, <1>7, <2>2 DEF HandleDrain, DaemonTypeOK, DGoto, DRequeue, KeepCopy, Released
    <2> QED  BY <2>1, <2>2
  <1>8. CASE \/ RequestOnNode(n) \/ ReleaseNode(n) \/ ReleaseState(n)
             \/ IncrementRebootCounter(n) \/ PublishStatus(n)
    BY <1>1, <1>8 DEF RequestOnNode, ReleaseNode, ReleaseState, IncrementRebootCounter,
       PublishStatus, DaemonTypeOK, DGoto, KeepCopy, Released
  <1>9. CASE RequestOnState(n) \/ RebootLimitReached(n) \/ DaemonCallFails(n)
    BY <1>1, <1>9, ForgetLocal DEF RequestOnState, RebootLimitReached, DaemonCallFails,
       DRequeue, DReturn, Released
  <1>10. CASE DaemonRestart(n)
    BY <1>1, <1>10, ForgetLocal DEF DaemonRestart, DRequeue, Released, DaemonTypeOK
  <1> QED  BY <1>2, <1>3, <1>4, <1>5, <1>6, <1>7, <1>8, <1>9, <1>10, ZenonT(60) DEF DaemonStep

-----------------------------------------------------------------------------
(* What the controller and its handshake are about stays, up to the count  *)
(* of failures.                                                            *)
ControllerKept == UNCHANGED <<protocolVars, ctrlVars>> /\ faults' \in faults..MaxFaults

LEMMA KeptInv ==
    ASSUME TypeOK, HandshakeInv, ControllerKept
    PROVE  TypeOK' /\ HandshakeInv'
  <1> USE DEF ControllerKept, protocolVars, ctrlVars
  <1>0. faults' \in 0..MaxFaults
    BY ControllerAssumption, SMTT(30) DEF TypeOK
  <1>1. TypeOK'
    BY <1>0 DEF TypeOK, ProtocolTypeOK
  <1>2. \A n \in Node : LocalInv(n)' /\ CountInv(n)'
    BY ZenonT(30) DEF HandshakeInv, LocalInv, WorkerInv, AnnotationInv, CountInv, DrainingIn, InTryDrain
  <1>3. MutexHeldByTryDrain' /\ (own \notin Busy)'
    BY DEF HandshakeInv, MutexHeldByTryDrain, InTryDrain
  <1>4. MaxUnavailableRespected'
    BY DEF HandshakeInv, MaxUnavailableRespected, DrainingIn
  <1> QED  BY <1>1, <1>2, <1>3, <1>4, ZenonT(60) DEF HandshakeInv

LEMMA WatchNothing ==
    ASSUME TypeOK, KeepController, nodeAnno' = nodeAnno
    PROVE  UNCHANGED ctrlVars
  BY DEF TypeOK, KeepController, ControllerWatches, ctrlVars

(* A step of a daemon is one that DrainController allows, or leaves the    *)
(* handshake alone.                                                        *)
LEMMA DaemonStepMaps ==
    ASSUME TypeOK, DaemonTypeOK, NEW n \in Managed, CopyInv(n),
           DaemonStep(n), KeepController, faults' = faults
    PROVE  Next \/ ControllerKept
  <1>0. n \in Node
    BY ProtocolAssumption
  <1>1. CASE UNCHANGED protocolVars
    <2>1. faults' \in faults..MaxFaults
      BY ControllerAssumption, SMT DEF TypeOK
    <2> QED  BY <1>1, <2>1, WatchNothing DEF ControllerKept, protocolVars
  <1>2. ASSUME NEW v \in DaemonValue, nodeAnno' = [nodeAnno EXCEPT ![n] = v],
               UNCHANGED <<desired, current, cond, cordoned, pods>>, dpc[n] # "idle"
        PROVE  Next \/ ControllerKept
    <2>1. CASE nodeAnno[n] = v
      <3>1. nodeAnno' = nodeAnno
        BY <1>0, <1>2, <2>1 DEF TypeOK, ProtocolTypeOK
      <3> QED  BY <1>1, <1>2, <3>1 DEF protocolVars
    <2>2. CASE nodeAnno[n] # v
      <3>1. Enqueue(n)
        BY <1>0, <1>2, <2>2 DEF TypeOK, ProtocolTypeOK, KeepController, ControllerWatches, Enqueue
      <3>2. DaemonAnnotatesNode(n, v)
        BY <1>2, <2>2, <3>1, ZenonT(60) DEF CopyInv, DaemonAnnotatesNode, KeepController
      <3> QED  BY <3>2 DEF Next, Environment
    <2> QED  BY <2>1, <2>2
  <1>3. ASSUME NEW v \in DaemonValue, desired' = [desired EXCEPT ![n] = v],
               UNCHANGED <<nodeAnno, current, cond, cordoned, pods>>, dpc[n] # "idle"
        PROVE  Next \/ ControllerKept
    <2>1. CASE desired[n] = v
      <3>1. desired' = desired
        BY <1>0, <1>3, <2>1 DEF TypeOK, ProtocolTypeOK
      <3> QED  BY <1>1, <1>3, <3>1 DEF protocolVars
    <2>2. CASE desired[n] # v
      <3>1. DaemonAnnotatesState(n, v)
        BY <1>3, <2>2, WatchNothing DEF CopyInv, DaemonAnnotatesState
      <3> QED  BY <3>1 DEF Next, Environment
    <2> QED  BY <2>1, <2>2
  <1>4. CASE RequestOnNode(n)
    <2>1. dVal[n] \in DaemonValue
      BY <1>4, SystemAssumption DEF RequestOnNode, CopyInv
    <2> QED  BY <1>2, <1>4, <2>1 DEF RequestOnNode
  <1>5. CASE RequestOnState(n)
    <2>1. dVal[n] \in DaemonValue
      BY <1>5, SystemAssumption DEF RequestOnState, CopyInv
    <2> QED  BY <1>3, <1>5, <2>1 DEF RequestOnState
  <1>6. CASE ReleaseNode(n)
    BY <1>2, <1>6, SystemAssumption, ZenonT(60) DEF ReleaseNode
  <1>7. CASE ReleaseState(n)
    BY <1>3, <1>7, SystemAssumption DEF ReleaseState
  <1>8. CASE ~(RequestOnNode(n) \/ RequestOnState(n) \/ ReleaseNode(n) \/ ReleaseState(n))
    <2>1. UNCHANGED protocolVars
      BY <1>8 DEF DaemonStep, DaemonStart, MarkInProgress, HandleDrain,
         CheckDrainCompleted, ApplyPlugins, RebootLimitReached, IncrementRebootCounter,
         RebootNode, PublishStatus, RecordApplied
    <2> QED  BY <1>1, <2>1
  <1> QED  BY <1>4, <1>5, <1>6, <1>7, <1>8

LEMMA SysStepMaps ==
    ASSUME SysInv, [SysNext]_sysVars
    PROVE  Next \/ ControllerKept
  <1> USE DEF SysInv, SysTypeOK
  <1>0. Managed \subseteq Node /\ faults \in 0..MaxFaults /\ MaxFaults \in Nat
    BY ProtocolAssumption, ControllerAssumption DEF TypeOK
  <1>1. ASSUME NEW n \in Managed, ControllerTakesStep(n) \/ (ReconcileDelay(n) /\ KeepDaemon)
        PROVE  Next
    BY <1>1 DEF ControllerTakesStep, Next, ControllerNext
  <1>2. ASSUME NEW n \in Managed, DaemonTakesStep(n)
        PROVE  Next \/ ControllerKept
    BY <1>0, <1>2, DaemonStepMaps DEF DaemonTakesStep, DaemonInv
  <1>3. ASSUME NEW n \in Managed, DaemonFault(n)
        PROVE  ControllerKept
    <2>1. UNCHANGED protocolVars
      BY <1>3 DEF DaemonFault, DaemonCallFails, DaemonRestart
    <2>2. UNCHANGED ctrlVars
      BY <1>3, <2>1, WatchNothing DEF DaemonFault, protocolVars
    <2>3. faults' \in faults..MaxFaults
      BY <1>0, <1>3, SMTT(30) DEF DaemonFault
    <2> QED  BY <2>1, <2>2, <2>3 DEF ControllerKept
  <1>4. CASE OperatorRestart /\ KeepDaemon
    BY <1>4 DEF Next, ControllerNext
  <1>5. CASE DaemonEnvironment /\ KeepController /\ UNCHANGED faults
    <2>1. UNCHANGED protocolVars
      BY <1>5 DEF DaemonEnvironment, SpecChange, HostDrift, ToggleDisableDrain
    <2>2. faults' \in faults..MaxFaults
      BY <1>0, <1>5, SMTT(30)
    <2> QED  BY <1>5, <2>1, <2>2, WatchNothing DEF ControllerKept, protocolVars
  <1>6. ASSUME NEW n \in Managed, NEW p \in PodKind,
               SchedulePod(n, p) /\ UNCHANGED <<ctrlVars, faults, daemonVars>>
        PROVE  Next
    BY <1>6 DEF Next, Environment
  <1>7. CASE UNCHANGED sysVars
    <2>1. faults' \in faults..MaxFaults
      BY <1>0, <1>7, SMTT(30) DEF sysVars, vars
    <2> QED  BY <1>7, <2>1 DEF sysVars, vars, ControllerKept
  <1> QED  BY <1>1, <1>2, <1>3, <1>4, <1>5, <1>6, <1>7, ZenonT(60) DEF SysNext

-----------------------------------------------------------------------------
(* Neither the controller nor a daemon removes an annotation.              *)
LEMMA AnnotationsStay ==
    ASSUME SysInv, [SysNext]_sysVars, NEW n \in Node
    PROVE  /\ current[n] # "none" => current'[n] # "none"
           /\ desired[n] # "none" => desired'[n] # "none"
  <1>0. TypeOK /\ HandshakeInv
    BY DEF SysInv, SysTypeOK
  <1>1. CASE ControllerKept
    BY <1>1 DEF ControllerKept, protocolVars
  <1>2. CASE Next
    <2>1. current[n] # "none" => current'[n] # "none"
      BY <1>0, <1>2, OrderStep DEF HandshakeStep, HandshakeEdges
    <2>2. ASSUME NEW m \in Managed, ReconcileStep(m) \/ ReconcileDelay(m)
          PROVE  EnsureDesired(m) \/ UNCHANGED desired
      BY <2>2 DEF ReconcileStep, ReconcileDelay, StartReconcile, GetNodeState, EnsureCurrent,
         EnsureNode, UpdateCondIdle, Lock, PoolNotFound, Scan, DecideSlot, UpdateCondPending,
         UpdateCondDraining, BeforeDrainNode, Cordon, EvictPod, Drained, UpdateCondErrors,
         UpdateCondComplete, AnnotateComplete, Uncordon, AfterCompleteDrainNode, AnnotateIdle,
         BeforeDrainNodeNotReady, AfterCompleteDrainNodeNotReady, EvictionRetried,
         DrainNodeFails, ApiError, protocolVars
    <2>3. ASSUME NEW m \in Managed, EnsureDesired(m)
          PROVE  desired[n] # "none" => desired'[n] # "none"
      BY <1>0, <2>3 DEF EnsureDesired, TypeOK, ProtocolTypeOK
    <2>4. CASE OperatorRestart
      BY <2>4 DEF OperatorRestart, protocolVars
    <2>5. ASSUME NEW m \in Managed, NEW v \in DaemonValue, DaemonAnnotatesState(m, v)
          PROVE  desired[n] # "none" => desired'[n] # "none"
      BY <1>0, <2>5, SystemAssumption DEF DaemonAnnotatesState, TypeOK, ProtocolTypeOK, Request
    <2>6. desired[n] # "none" => desired'[n] # "none"
      BY <1>2, <2>2, <2>3, <2>4, <2>5, ZenonT(60) DEF Next, ControllerNext, Environment,
         DaemonAnnotatesNode, SchedulePod
    <2> QED  BY <2>1, <2>6
  <1> QED  BY <1>1, <1>2, SysStepMaps

(* What is not a step of a daemon leaves the daemons alone, or is the      *)
(* environment that changes a spec, a host or disableDrain.                *)
LocalKept == UNCHANGED <<dpc, lastApplied, dGen, dNeed, dCur, dDes, dVal, tracker, reboots, sync>>

LEMMA SysCases ==
    ASSUME SysInv, [SysNext]_sysVars
    PROVE  \/ \E n \in Node : DaemonStep(n) \/ DaemonCallFails(n) \/ DaemonRestart(n)
           \/ LocalKept /\ UNCHANGED <<gen, need, disableDrain, env>> /\ ddirty' \in [Node -> BOOLEAN]
           \/ \E n \in Node, what \in Needs : SpecChange(n, what) \/ HostDrift(n, what)
           \/ ToggleDisableDrain
  <1>1. KeepDaemon => LocalKept /\ UNCHANGED <<gen, need, disableDrain, env>>
                      /\ ddirty' \in [Node -> BOOLEAN]
    BY DEF KeepDaemon, DaemonWatches, LocalKept, SysInv, SysTypeOK, DaemonTypeOK
  <1>2. UNCHANGED daemonVars => LocalKept /\ UNCHANGED <<gen, need, disableDrain, env>>
                      /\ ddirty' \in [Node -> BOOLEAN]
    BY DEF daemonVars, daemonLocal, LocalKept, SysInv, SysTypeOK, DaemonTypeOK
  <1>3. DaemonEnvironment =>
           \/ \E n \in Node, what \in Needs : SpecChange(n, what) \/ HostDrift(n, what)
           \/ ToggleDisableDrain
    BY ProtocolAssumption DEF DaemonEnvironment
  <1>4. ASSUME NEW n \in Managed, DaemonTakesStep(n) \/ DaemonFault(n)
        PROVE  \E m \in Node : DaemonStep(m) \/ DaemonCallFails(m) \/ DaemonRestart(m)
    BY <1>4, ProtocolAssumption DEF DaemonTakesStep, DaemonFault
  <1> QED  BY <1>1, <1>2, <1>3, <1>4 DEF SysNext, sysVars, ControllerTakesStep

(* The numbers that the environment of the daemons raises.                 *)
LEMMA NextGeneration ==
    ASSUME NEW g \in Generation \ {0}, g < MaxGeneration
    PROVE  g + 1 \in Generation \ {0}
  BY DaemonAssumption, SMTT(30) DEF Generation

LEMMA OneMoreDrift ==
    ASSUME NEW e \in Happened, e.drifts < MaxDrifts
    PROVE  /\ [e EXCEPT !.drifts = @ + 1] \in Happened
           /\ [e EXCEPT !.drifts = @ + 1].drifts # 0
  BY DaemonAssumption, SMT DEF Happened

LEMMA OneMoreToggle ==
    ASSUME NEW e \in Happened, e.toggles < MaxToggles
    PROVE  /\ [e EXCEPT !.toggles = @ + 1] \in Happened
           /\ [e EXCEPT !.toggles = @ + 1].drifts = e.drifts
  BY DaemonAssumption, SMTT(30) DEF Happened

LEMMA SysTypeStep ==
    ASSUME SysInv, [SysNext]_sysVars
    PROVE  SysTypeOK'
  <1>0. TypeOK /\ HandshakeInv /\ DaemonTypeOK
    BY DEF SysInv, SysTypeOK
  <1>1. TypeOK'
    BY <1>0, SysStepMaps, NextInv, KeptInv
  <1>2. ASSUME NEW n \in Node, DaemonStep(n) \/ DaemonCallFails(n) \/ DaemonRestart(n)
        PROVE  DaemonTypeOK'
    BY <1>0, <1>2, DaemonTypeStep
  <1>3. ASSUME LocalKept, UNCHANGED <<gen, need, disableDrain, env>>, ddirty' \in [Node -> BOOLEAN]
        PROVE  DaemonTypeOK'
    BY <1>0, <1>3 DEF DaemonTypeOK, LocalKept
  <1>4. ASSUME NEW n \in Node, NEW what \in Needs, SpecChange(n, what)
        PROVE  DaemonTypeOK'
    <2>1. gen[n] + 1 \in Generation \ {0}
      BY <1>0, <1>4, NextGeneration DEF SpecChange, DaemonTypeOK
    <2>2. gen' \in [Node -> Generation \ {0}]
      BY <1>0, <1>4, <2>1 DEF SpecChange, DaemonTypeOK
    <2> QED  BY <1>0, <1>4, <2>2 DEF SpecChange, DaemonTypeOK
  <1>5. ASSUME NEW n \in Node, NEW what \in Needs, HostDrift(n, what)
        PROVE  DaemonTypeOK'
    <2>1. env' \in Happened
      BY <1>0, <1>5, OneMoreDrift DEF HostDrift, DaemonTypeOK
    <2> QED  BY <1>0, <1>5, <2>1 DEF HostDrift, DaemonTypeOK, daemonLocal
  <1>6. ASSUME ToggleDisableDrain
        PROVE  DaemonTypeOK'
    <2>1. env' \in Happened
      BY <1>0, <1>6, OneMoreToggle DEF ToggleDisableDrain, DaemonTypeOK
    <2> QED  BY <1>0, <1>6, <2>1 DEF ToggleDisableDrain, DaemonTypeOK, daemonLocal
  <1> QED  BY <1>1, <1>2, <1>3, <1>4, <1>5, <1>6, SysCases, ZenonT(60) DEF SysTypeOK

LEMMA DaemonInvStep ==
    ASSUME SysInv, [SysNext]_sysVars
    PROVE  DaemonInv'
  <1>0. TypeOK /\ DaemonTypeOK
    BY DEF SysInv, SysTypeOK
  <1> SUFFICES ASSUME NEW m \in Node
               PROVE  CopyInv(m)' /\ TrackerInv(m)' /\ AppliedInv(m)'
    BY DEF DaemonInv
  <1>a. CopyInv(m) /\ TrackerInv(m) /\ AppliedInv(m)
    BY DEF SysInv, DaemonInv
  <1>b. /\ current[m] # "none" => current'[m] # "none"
        /\ desired[m] # "none" => desired'[m] # "none"
    BY AnnotationsStay
  <1>c. gen[m] \in Nat /\ dGen[m] \in Nat /\ lastApplied[m] \in Nat /\ tracker[m].gen \in Nat
    BY <1>0, CountersAreNat, GenerationIsNat DEF DaemonTypeOK
  <1>1. ASSUME NEW n \in Node, DaemonStep(n) \/ DaemonCallFails(n) \/ DaemonRestart(n)
        PROVE  CopyInv(m)' /\ TrackerInv(m)' /\ AppliedInv(m)'
    <2>1. CopyInv(n) /\ TrackerInv(n) /\ AppliedInv(n)
      BY DEF SysInv, DaemonInv
    <2>2. CopyInv(m)'
      BY <1>0, <1>1, <1>a, <2>1, CopyStep
    <2>3. CASE m = n
      BY <1>0, <1>1, <2>1, <2>2, <2>3, TrackerStep, AppliedStep
    <2>4. CASE m # n
      <3>1. /\ dpc'[m] = dpc[m] /\ dGen'[m] = dGen[m] /\ lastApplied'[m] = lastApplied[m]
            /\ need'[m] = need[m] /\ tracker'[m] = tracker[m] /\ reboots'[m] = reboots[m]
            /\ gen' = gen /\ env' = env
        BY <1>0, <1>1, <2>4, OthersKeep, DaemonFrame
      <3> QED  BY <1>a, <2>2, <3>1 DEF TrackerInv, AppliedInv
    <2> QED  BY <2>3, <2>4
  <1>2. CASE LocalKept /\ UNCHANGED <<gen, need, disableDrain, env>> /\ ddirty' \in [Node -> BOOLEAN]
    BY <1>2, <1>a, <1>b, ZenonT(60) DEF LocalKept, CopyInv, TrackerInv, AppliedInv
  <1>3. ASSUME NEW n \in Node, NEW what \in Needs, SpecChange(n, what)
        PROVE  CopyInv(m)' /\ TrackerInv(m)' /\ AppliedInv(m)'
    <2>1. /\ UNCHANGED <<dpc, lastApplied, dGen, dCur, dVal, tracker, reboots, env>>
          /\ (gen'[m] = gen[m] /\ need'[m] = need[m]) \/ gen'[m] = gen[m] + 1
      BY <1>0, <1>3 DEF SpecChange, DaemonTypeOK
    <2>2. gen[m] <= gen'[m] /\ (gen'[m] # gen[m] => gen[m] < gen'[m]) /\ gen'[m] \in Nat
      BY <1>c, <2>1, SMTT(30)
    <2>3. CopyInv(m)'
      BY <1>a, <1>b, <1>c, <2>1, <2>2, SMTT(30) DEF CopyInv
    <2>4. TrackerInv(m)'
      BY <1>a, <1>c, <2>1, <2>2, SMTT(30) DEF TrackerInv
    <2>5. AppliedInv(m)'
      <3>1. CASE gen'[m] = gen[m]
        <4>1. need'[m] = need[m]
          BY <1>c, <2>1, <3>1, SMTT(30)
        <4> QED  BY <1>a, <2>1, <3>1, <4>1, ZenonT(30) DEF AppliedInv
      <3>2. CASE gen'[m] # gen[m]
        <4>1. lastApplied[m] # gen'[m] /\ dGen[m] # gen'[m]
          BY <1>a, <1>c, <2>2, <3>2, SMTT(30) DEF CopyInv
        <4> QED  BY <2>1, <4>1, ZenonT(60) DEF AppliedInv
      <3> QED  BY <3>1, <3>2
    <2> QED  BY <2>3, <2>4, <2>5
  <1>4. ASSUME NEW n \in Node, NEW what \in Needs, HostDrift(n, what)
        PROVE  CopyInv(m)' /\ TrackerInv(m)' /\ AppliedInv(m)'
    <2>2. env'.drifts # 0
      BY <1>0, <1>4, OneMoreDrift DEF HostDrift, DaemonTypeOK
    <2> QED  BY <1>a, <1>b, <1>4, <2>2
             DEF HostDrift, daemonLocal, CopyInv, TrackerInv, AppliedInv
  <1>5. CASE ToggleDisableDrain
    <2>1. env'.drifts = env.drifts
      BY <1>0, <1>5, OneMoreToggle, ZenonT(60) DEF ToggleDisableDrain, DaemonTypeOK
    <2> QED  BY <1>a, <1>b, <1>5, <2>1, ZenonT(60)
             DEF ToggleDisableDrain, daemonLocal, CopyInv, TrackerInv, AppliedInv
  <1> QED  BY <1>1, <1>2, <1>3, <1>4, <1>5, SysCases

(* The state in which a cluster starts.                                    *)
LEMMA SysInitInv == SysInit => SysInv
  <1> SUFFICES ASSUME SysInit PROVE SysInv
    OBVIOUS
  <1>1. TypeOK /\ HandshakeInv
    BY InitInv DEF SysInit
  <1>2. 0 \in Generation /\ 1 \in Generation \ {0} /\ "none" \in Needs /\ MaxReboots \in Nat
    BY DaemonAssumption, SMTT(30) DEF Generation
  <1>3. [gen |-> 0, count |-> 0] \in RebootRecord /\ [drifts |-> 0, toggles |-> 0] \in Happened
    BY <1>2, DaemonAssumption, SMTT(30) DEF RebootRecord, Happened
  <1>4. DaemonTypeOK
    BY <1>2, <1>3 DEF SysInit, DaemonInit, DaemonBoot, DaemonTypeOK, DPC, CurrentValue,
       NodeAnnoValue
  <1>5. ASSUME NEW n \in Node
        PROVE  CopyInv(n) /\ TrackerInv(n) /\ AppliedInv(n)
    <2>1. /\ dpc[n] = "idle" /\ dGen[n] = 0 /\ lastApplied[n] = 0 /\ gen[n] = 1
          /\ tracker[n].gen = 0 /\ tracker[n].count = 0
          /\ reboots[n].gen = 0 /\ reboots[n].count = 0
      BY DEF SysInit, DaemonInit, DaemonBoot
    <2> QED  BY <1>2, <2>1, SMTT(30) DEF CopyInv, TrackerInv, AppliedInv, Released
  <1> QED  BY <1>1, <1>4, <1>5 DEF SysInv, SysTypeOK, DaemonInv

LEMMA SysNextInv == SysInv /\ [SysNext]_sysVars => SysInv'
  <1> SUFFICES ASSUME SysInv, [SysNext]_sysVars PROVE SysInv'
    OBVIOUS
  <1>1. HandshakeInv'
    BY SysStepMaps, NextInv, KeptInv DEF SysInv, SysTypeOK
  <1> QED  BY <1>1, SysTypeStep, DaemonInvStep DEF SysInv

(* The whole system keeps the handshake's invariant and its own.           *)
THEOREM SystemSafety == SysSpec => []SysInv
  BY SysInitInv, SysNextInv, PTL DEF SysSpec

(* No node is rebooted more than MaxReboots times for one generation,      *)
(* wherever the daemon or its calls fail.                                  *)
THEOREM RebootsLimited == SysSpec => []RebootLimit
  <1>1. SysInv => RebootLimit
    BY DEF SysInv, DaemonInv, TrackerInv, RebootLimit
  <1> QED  BY <1>1, SystemSafety, PTL

(* The generation a daemon remembers as applied is the one on the host.    *)
THEOREM RecordedIsApplied == SysSpec => []RecordedMeansApplied
  <1>1. SysInv => RecordedMeansApplied
    BY DEF SysInv, DaemonInv, AppliedInv, RecordedMeansApplied
  <1> QED  BY <1>1, SystemSafety, PTL

(* What is proved of the controller holds with the real daemons: never     *)
(* more than maxUnavailable nodes of a pool are Draining or DrainComplete. *)
THEOREM SystemLimitHolds == SysSpec => []MaxUnavailableRespected
  BY SystemSafety, PTL DEF SysInv, HandshakeInv

(* A node whose pool is ambiguous or invalid is not drained.               *)
THEOREM SystemConflictsNotDrained == SysSpec => []ConflictingNodesNotDrained
  <1>1. SysInv => ConflictingNodesNotDrained
    BY DEF SysInv, HandshakeInv, LocalInv, ConflictingNodesNotDrained, PoolError
  <1> QED  BY <1>1, SystemSafety, PTL

(* current-state moves along the handshake in the whole system.            *)
THEOREM SystemHandshakeOrdered == SysSpec => [][HandshakeStep]_sysVars
  <1>1. SysInv /\ [SysNext]_sysVars => HandshakeStep
    <2> SUFFICES ASSUME SysInv, [SysNext]_sysVars PROVE HandshakeStep
      OBVIOUS
    <2>1. CASE ControllerKept
      BY <2>1 DEF ControllerKept, protocolVars, HandshakeStep
    <2>2. CASE Next
      BY <2>2, OrderStep DEF SysInv, SysTypeOK
    <2> QED  BY <2>1, <2>2, SysStepMaps
  <1> QED  BY <1>1, SystemSafety, PTL DEF SysSpec

(* The whole system implements the abstract slots of DrainSlots.           *)
THEOREM SystemImplementsSlots == SysSpec => ImplementsSlots
  <1>1. SysInit => Slots!SlotInit
    BY SlotStart DEF SysInit
  <1>2. SysInv /\ [SysNext]_sysVars => [Slots!SlotNext]_(DrainingIn(Node))
    <2> SUFFICES ASSUME SysInv, [SysNext]_sysVars
                 PROVE  [Slots!SlotNext]_(DrainingIn(Node))
      OBVIOUS
    <2>1. CASE ControllerKept
      BY <2>1 DEF ControllerKept, protocolVars, DrainingIn
    <2>2. CASE Next
      BY <2>2, SlotStep, ZenonT(60) DEF SysInv, SysTypeOK
    <2> QED  BY <2>1, <2>2, SysStepMaps
  <1> QED  BY <1>1, <1>2, SystemSafety, PTL DEF SysSpec, ImplementsSlots, Slots!SlotSpec

-----------------------------------------------------------------------------
(* The controller writes the condition and the annotation of a drain with  *)
(* two calls, and must not fail between them: at the start of a drain the  *)
(* condition may be the one of the last drain, at its end the annotation   *)
(* is behind.  Any other call may fail, and the operator may restart at    *)
(* any other point.                                                        *)
BetweenWrites == {"condDraining", "annotateComplete"}
CutShort == \E n \in Node : pc[n] \in BetweenWrites /\ (ApiError(n) \/ OperatorRestart)

(* If it is never cut short there, a condition that says Complete on a     *)
(* node that is Draining is the one of the present drain.                  *)
WorkDoneInv(n) ==
    /\ pc[n] = "evict" => cordoned[n]
    /\ pc[n] \in {"condComplete", "annotateComplete"} =>
          SingleNode \/ (cordoned[n] /\ "sriov" \notin pods[n])
    /\ cond[n] = "Complete" /\ current[n] = "Draining" => pc[n] \in BetweenWrites

(* The pods of a node.                                                     *)
LEMMA OtherPods ==
    ASSUME TypeOK, NEW n \in Node, NEW m \in Node, m # n, ReconcileStep(n) \/ ReconcileDelay(n)
    PROVE  pods'[m] = pods[m]
  BY ZenonT(60) DEF TypeOK, ProtocolTypeOK, protocolVars,
     ReconcileStep, ReconcileDelay, StartReconcile, GetNodeState, EnsureCurrent,
     EnsureDesired, EnsureNode, UpdateCondIdle, Lock, PoolNotFound, Scan, DecideSlot,
     UpdateCondPending, UpdateCondDraining, BeforeDrainNode, Cordon, EvictPod, Drained,
     UpdateCondErrors, UpdateCondComplete, AnnotateComplete, Uncordon,
     AfterCompleteDrainNode, AnnotateIdle, BeforeDrainNodeNotReady,
     AfterCompleteDrainNodeNotReady, EvictionRetried, DrainNodeFails, ApiError

(* One step of the worker of the node.                                     *)
LEMMA WorkDoneWorker ==
    ASSUME TypeOK, HandshakeInv, NEW n \in Node, WorkDoneInv(n), ~CutShort,
           ReconcileStep(n) \/ ReconcileDelay(n)
    PROVE  WorkDoneInv(n)'
  <1>0. WorkerInv(n)
    BY DEF HandshakeInv, LocalInv
  <1> USE <1>0 DEF TypeOK, ProtocolTypeOK, protocolVars, ctrlVars, Goto, Return, Requeue,
        WorkDoneInv, BetweenWrites, WorkerInv, WhileIdle, WhileDraining, WhileUndraining, Busy
  <1>1. CASE GetNodeState(n)
    <2>1. UNCHANGED protocolVars /\ pc[n] = "getState"
      BY <1>1 DEF GetNodeState
    <2>2. NextCall(n) \notin {"evict", "condComplete", "annotateComplete"}
      <3>1. cond[n] = "Complete" => current[n] # "Draining"
        BY <2>1
      <3> QED  BY <3>1, ZenonT(60) DEF NextCall, Handler, NodeAnnoValue, CurrentValue, Request
    <2>3. pc'[n] \in {"idle", NextCall(n)}
      BY <1>1 DEF GetNodeState
    <2> QED  BY <2>1, <2>2, <2>3
  <1>2. CASE StartReconcile(n) \/ EnsureCurrent(n) \/ EnsureDesired(n) \/ EnsureNode(n)
    BY <1>2 DEF StartReconcile, EnsureCurrent, EnsureDesired, EnsureNode
  <1>3. CASE UpdateCondIdle(n) \/ Lock(n) \/ PoolNotFound(n)
    BY <1>3 DEF UpdateCondIdle, Lock, PoolNotFound
  <1>4. ASSUME NEW k \in Node, Scan(n, k) PROVE WorkDoneInv(n)'
    BY <1>4 DEF Scan
  <1>5. CASE DecideSlot(n)
    BY <1>5 DEF DecideSlot
  <1>6. CASE UpdateCondPending(n) \/ UpdateCondDraining(n)
    BY <1>6 DEF UpdateCondPending, UpdateCondDraining
  <1>14. CASE BeforeDrainNode(n)
    <2>1. UNCHANGED protocolVars /\ pc[n] = "beforeDrain"
      BY <1>14 DEF BeforeDrainNode
    <2>2. pc'[n] = "cordon" \/ (pc'[n] = "condComplete" /\ SingleNode)
      BY <1>14 DEF BeforeDrainNode
    <2> QED  BY <2>1, <2>2
  <1>7. CASE Cordon(n)
    BY <1>7 DEF Cordon
  <1>8. ASSUME NEW p \in PodKind, EvictPod(n, p) PROVE WorkDoneInv(n)'
    BY <1>8 DEF EvictPod
  <1>9. CASE Drained(n)
    <2>1. cordoned[n] /\ "sriov" \notin pods[n]
      BY <1>9 DEF Drained, PodsToEvict
    <2> QED  BY <1>9, <2>1, ZenonT(60) DEF Drained
  <1>10. CASE UpdateCondErrors(n) \/ UpdateCondComplete(n) \/ AnnotateComplete(n)
    BY <1>10 DEF UpdateCondErrors, UpdateCondComplete, AnnotateComplete
  <1>11. CASE Uncordon(n) \/ AfterCompleteDrainNode(n) \/ AnnotateIdle(n)
    BY <1>11 DEF Uncordon, AfterCompleteDrainNode, AnnotateIdle
  <1>12. CASE BeforeDrainNodeNotReady(n) \/ AfterCompleteDrainNodeNotReady(n) \/ EvictionRetried(n)
    BY <1>12 DEF BeforeDrainNodeNotReady, AfterCompleteDrainNodeNotReady, EvictionRetried
  <1>13. CASE DrainNodeFails(n)
    BY <1>13 DEF DrainNodeFails
  <1>15. CASE ApiError(n)
    <2>1. pc[n] \notin BetweenWrites
      BY <1>15 DEF CutShort
    <2> QED  BY <1>15, <2>1 DEF ApiError
  <1> HIDE DEF WorkDoneInv
  <1> QED  BY <1>1, <1>2, <1>3, <1>4, <1>5, <1>6, <1>7, <1>8, <1>9, <1>10, <1>11, <1>12, <1>13,
              <1>14, <1>15, SMTT(30)
           DEF ReconcileStep, ReconcileDelay

(* The number of failures only grows.                                      *)
LEMMA FaultsGrow ==
    ASSUME TypeOK, Next \/ ControllerKept, faults' = 0
    PROVE  faults = 0 /\ ~OperatorRestart
  <1>0. faults \in Nat /\ MaxFaults \in Nat
    BY ControllerAssumption, SMTT(30) DEF TypeOK
  <1>1. CASE ControllerKept
    BY <1>0, <1>1, SMTT(30) DEF ControllerKept, OperatorRestart
  <1>2. ASSUME NEW n \in Managed, ReconcileStep(n) \/ ReconcileDelay(n)
        PROVE  UNCHANGED faults \/ faults' = faults + 1
    BY <1>2 DEF ReconcileStep, ReconcileDelay, StartReconcile, GetNodeState, EnsureCurrent,
     EnsureDesired, EnsureNode, UpdateCondIdle, Lock, PoolNotFound, Scan, DecideSlot,
     UpdateCondPending, UpdateCondDraining, BeforeDrainNode, Cordon, EvictPod, Drained,
     UpdateCondErrors, UpdateCondComplete, AnnotateComplete, Uncordon,
     AfterCompleteDrainNode, AnnotateIdle, BeforeDrainNodeNotReady,
     AfterCompleteDrainNodeNotReady, EvictionRetried, DrainNodeFails, ApiError
  <1>3. Environment => UNCHANGED faults
    BY DEF Environment, DaemonAnnotatesNode, DaemonAnnotatesState
  <1>4. OperatorRestart => faults' = faults + 1
    BY DEF OperatorRestart
  <1>5. Next => UNCHANGED faults \/ faults' = faults + 1
    BY <1>2, <1>3, <1>4 DEF Next, ControllerNext
  <1> QED  BY <1>0, <1>1, <1>4, <1>5, SMTT(30)

LEMMA CutShortFails ==
    ASSUME TypeOK, CutShort
    PROVE  faults' # faults /\ faults' # 0
  <1>1. faults' = faults + 1
    BY DEF CutShort, ApiError, OperatorRestart
  <1>2. faults \in Nat
    BY ControllerAssumption, SMTT(30) DEF TypeOK
  <1> QED  BY <1>1, <1>2, SMTT(30)

WorkDone == \A n \in Node : WorkDoneInv(n)

(* Whatever the daemons do.                                                *)
LEMMA WorkDoneStep ==
    ASSUME SysInv, WorkDone, [SysNext]_sysVars, ~CutShort
    PROVE  WorkDone'
  <1>0. TypeOK /\ HandshakeInv /\ (Next \/ ControllerKept)
    BY SysStepMaps DEF SysInv, SysTypeOK
  <1> SUFFICES ASSUME NEW m \in Node PROVE WorkDoneInv(m)'
    BY DEF WorkDone
  <1>1. WorkDoneInv(m)
    BY DEF WorkDone
  <1>2. ASSUME pc'[m] = pc[m], current'[m] = current[m], cond'[m] = cond[m],
               cordoned'[m] = cordoned[m],
               pods'[m] = pods[m] \/ (~cordoned[m] /\ pc[m] \notin {"condComplete", "annotateComplete"})
        PROVE  WorkDoneInv(m)'
    BY <1>1, <1>2 DEF WorkDoneInv
  <1>3. CASE ControllerKept
    BY <1>2, <1>3 DEF ControllerKept, protocolVars, ctrlVars
  <1>4. ASSUME NEW n \in Managed, ReconcileStep(n) \/ ReconcileDelay(n)
        PROVE  WorkDoneInv(m)'
    <2>0. n \in Node
      BY ProtocolAssumption
    <2>1. CASE n = m
      BY <1>0, <1>1, <1>4, <2>1, WorkDoneWorker
    <2>2. CASE n # m
      BY <1>0, <1>2, <1>4, <2>0, <2>2, OtherWorkers, OtherPods, ZenonT(60)
    <2> QED  BY <2>1, <2>2
  <1>5. ASSUME NEW n \in Managed, NEW v \in DaemonValue,
               DaemonAnnotatesNode(n, v) \/ DaemonAnnotatesState(n, v)
        PROVE  WorkDoneInv(m)'
    BY <1>2, <1>5 DEF DaemonAnnotatesNode, DaemonAnnotatesState, ctrlVars
  <1>6. ASSUME NEW n \in Managed, NEW p \in PodKind, SchedulePod(n, p),
               UNCHANGED <<ctrlVars, faults>>
        PROVE  WorkDoneInv(m)'
    <2>1. UNCHANGED <<pc, current, cond, cordoned>>
      BY <1>6 DEF SchedulePod, ctrlVars
    <2>2. CASE n = m /\ ~SingleNode
      <3>1. ~cordoned[m]
        BY <1>6, <2>2 DEF SchedulePod
      <3>2. pc[m] \notin {"condComplete", "annotateComplete"}
        BY <1>1, <2>2, <3>1 DEF WorkDoneInv
      <3> QED  BY <1>2, <2>1, <3>1, <3>2, ZenonT(60)
    <2>3. CASE n # m
      <3>1. pods'[m] = pods[m]
        BY <1>0, <1>6, <2>3, ProtocolAssumption, ZenonT(60) DEF SchedulePod, TypeOK, ProtocolTypeOK
      <3> QED  BY <1>2, <2>1, <3>1, ZenonT(60)
    <2>4. CASE SingleNode
      BY <1>1, <2>1, <2>4 DEF WorkDoneInv
    <2> QED  BY <2>2, <2>3, <2>4
  <1>7. CASE OperatorRestart
    <2>1. pc[m] \notin BetweenWrites
      BY <1>7 DEF CutShort
    <2>2. pc'[m] = "idle" /\ UNCHANGED protocolVars
      BY <1>7 DEF OperatorRestart
    <2> QED  BY <1>1, <2>1, <2>2 DEF WorkDoneInv, protocolVars
  <1> QED  BY <1>0, <1>3, <1>4, <1>5, <1>6, <1>7, ZenonT(60) DEF Next, ControllerNext, Environment

(* Then a node is reported DrainComplete only when it is cordoned and free *)
(* of SR-IOV pods.                                                         *)
LEMMA CompleteDrained ==
    ASSUME SysInv, WorkDone, [SysNext]_sysVars
    PROVE  CompleteStep
  <1>0. TypeOK /\ HandshakeInv
    BY DEF SysInv, SysTypeOK
  <1> SUFFICES ASSUME NEW m \in Node, current[m] # "DrainComplete", current'[m] = "DrainComplete"
               PROVE  SingleNode \/ (cordoned[m] /\ "sriov" \notin pods[m])
    BY DEF CompleteStep
  <1>1. Next
    BY SysStepMaps DEF ControllerKept, protocolVars
  <1>2. PICK n \in Managed : ReconcileStep(n) \/ ReconcileDelay(n)
    BY <1>1 DEF Next, ControllerNext, Environment, OperatorRestart, DaemonAnnotatesNode,
       DaemonAnnotatesState, SchedulePod, protocolVars
  <1>3. n = m
    BY <1>0, <1>2, OtherWorkers, ProtocolAssumption, ZenonT(30)
  <1>4. AnnotateComplete(m)
    BY <1>0, <1>2, <1>3, ZenonT(30) DEF TypeOK, ProtocolTypeOK, protocolVars,
       ReconcileStep, ReconcileDelay, StartReconcile, GetNodeState, EnsureCurrent,
       EnsureDesired, EnsureNode, UpdateCondIdle, Lock, PoolNotFound, Scan, DecideSlot,
       UpdateCondPending, UpdateCondDraining, BeforeDrainNode, Cordon, EvictPod, Drained,
       UpdateCondErrors, UpdateCondComplete, Uncordon,
       AfterCompleteDrainNode, AnnotateIdle, BeforeDrainNodeNotReady,
       AfterCompleteDrainNodeNotReady, EvictionRetried, DrainNodeFails, ApiError
  <1> QED  BY <1>4 DEF AnnotateComplete, WorkDone, WorkDoneInv

LEMMA WorkDoneInit == ASSUME SysInit PROVE WorkDone
  BY DEF SysInit, Init, ProtocolInit, ControllerInit, WorkDone, WorkDoneInv

(* A drain that did not happen is never reported complete, whatever the    *)
(* daemons do and whichever calls fail, except for those between the two   *)
(* writes of handleNodeDrainOrReboot and of tryDrainNode.                  *)
THEOREM CompleteUnlessCutShort ==
    SysSpec /\ [][~CutShort]_sysVars => CompleteOnlyWhenDrained
  <1>1. SysInit => WorkDone
    BY WorkDoneInit
  <1>2. SysInv /\ UNCHANGED sysVars => ~CutShort
    BY CutShortFails DEF sysVars, vars, SysInv, SysTypeOK
  <1>3. SysInv /\ WorkDone /\ [SysNext]_sysVars /\ [~CutShort]_sysVars =>
          WorkDone' /\ [CompleteStep]_sysVars
    BY <1>2, WorkDoneStep, CompleteDrained
  <1> QED  BY <1>1, <1>3, SystemSafety, PTL DEF SysSpec, CompleteOnlyWhenDrained

(* Up to the first failure of any kind a node is reported DrainComplete    *)
(* only when DrainNode did its work on it.                                 *)
THEOREM CompleteWhileFaultFree == SysSpec => [][faults = 0 => CompleteStep]_sysVars
  <1> DEFINE J == faults = 0 => WorkDone
  <1>1. SysInit => J
    BY WorkDoneInit
  <1>2. SysInv /\ J /\ [SysNext]_sysVars => J' /\ (faults = 0 => CompleteStep)
    <2> SUFFICES ASSUME SysInv, J, [SysNext]_sysVars
                 PROVE  J' /\ (faults = 0 => CompleteStep)
      OBVIOUS
    <2>1. ASSUME faults' = 0 PROVE WorkDone'
      <3>1. faults = 0 /\ ~CutShort
        BY <2>1, FaultsGrow, CutShortFails, SysStepMaps DEF SysInv, SysTypeOK
      <3> QED  BY <3>1, WorkDoneStep
    <2> QED  BY <2>1, CompleteDrained
  <1> HIDE DEF J
  <1>3. SysSpec => [](SysInv /\ J)
    BY <1>1, <1>2, SystemSafety, PTL DEF SysSpec
  <1> QED  BY <1>2, <1>3, PTL DEF SysSpec

(* So a system without failures never reports a drain that did not happen. *)
THEOREM CompleteWithoutFaults == MaxFaults = 0 => (SysSpec => CompleteOnlyWhenDrained)
  <1> SUFFICES ASSUME MaxFaults = 0 PROVE SysSpec => CompleteOnlyWhenDrained
    OBVIOUS
  <1>1. SysInv => faults = 0
    BY SMTT(30) DEF SysInv, SysTypeOK, TypeOK
  <1> QED  BY <1>1, CompleteWhileFaultFree, SystemSafety, PTL DEF CompleteOnlyWhenDrained

-----------------------------------------------------------------------------
(* Requests.  A daemon takes back a request that was not served in three   *)
(* cases only: a call failed, drains were disabled, or a spec that needs a *)
(* reboot came to a node that is drained for less.                         *)
PlainRequests ==
    /\ ~disableDrain
    /\ \A n \in Node : dpc[n] = "drain" /\ dCur[n] \in Busy => ~Escalate(n)

(* The request that a reconcile read still stands, up to the end of the    *)
(* drain, and a node that is released stays so until the drain is undone.  *)
ServesRequest == WhileDraining \cup {"lock", "scan", "condPending"}
WorkerStand(n) ==
    /\ rNode[n] \in Request /\ current[n] # "DrainComplete" => nodeAnno[n] \in Request
    /\ rNode[n] = "Idle" /\ current[n] \in Busy => nodeAnno[n] \notin Request
    /\ pc[n] \in ServesRequest => rNode[n] \in Request
    /\ pc[n] \in WhileUndraining => rNode[n] = "Idle"

(* Why the daemon lets it stand: the NodeState says Idle only when the     *)
(* Node does, and the copy it acts on is right about a complete drain.     *)
Copied == {"drain", "check", "apply", "relNode"}
DaemonStand(n) ==
    /\ dpc[n] \in {"reqNode", "reqState"} => dVal[n] \in Request
    /\ dpc[n] = "relState" => nodeAnno[n] \notin Request
    /\ desired[n] \in {"none", "Idle"} /\ dpc[n] # "reqState" => nodeAnno[n] \notin Request
    /\ dpc[n] \in Copied /\ dDes[n] = "Idle" => nodeAnno[n] \notin Request
    /\ dpc[n] \in Copied /\ dCur[n] = "DrainComplete" /\ nodeAnno[n] \in Request =>
          current[n] = "DrainComplete"
    /\ dpc[n] \in {"apply", "relNode"} => dCur[n] = "DrainComplete" \/ dDes[n] = "Idle"
    /\ current[n] \in Busy /\ nodeAnno[n] \notin Request =>
          dpc[n] # "reqNode" /\ (dpc[n] = "drain" => dCur[n] # "Idle")

(* A request is taken back only while the un-drain of its node lies ahead. *)
TakesBack(n) == nodeAnno[n] \in Request /\ nodeAnno'[n] \notin Request
StillToUndrain(n) == current[n] \in Busy /\ pc[n] \notin WhileUndraining

(* The worker of the node.                                                 *)
LEMMA StandWorker ==
    ASSUME TypeOK, HandshakeInv, NEW n \in Node, WorkerStand(n), DaemonStand(n),
           faults' = 0, faults = 0, UNCHANGED <<dpc, dCur, dDes, dVal>>,
           ReconcileStep(n) \/ ReconcileDelay(n)
    PROVE  WorkerStand(n)' /\ DaemonStand(n)'
  <1>0. WorkerInv(n)
    BY DEF HandshakeInv, LocalInv
  <1>a. /\ "Draining" \in Busy /\ "DrainComplete" \in Busy /\ "Idle" \notin Busy /\ "none" \notin Busy
        /\ "Idle" \notin Request /\ "none" \notin Request
    BY DEF Busy, Request
  <1> USE <1>0, <1>a DEF TypeOK, ProtocolTypeOK, protocolVars, ctrlVars, Goto, Return, Requeue,
        WorkerStand, DaemonStand, WorkerInv, WhileIdle, WhileDraining, WhileUndraining,
        ServesRequest
  <1>1. CASE GetNodeState(n)
    <2>1. UNCHANGED protocolVars /\ pc[n] = "getState"
      BY <1>1 DEF GetNodeState
    <2>2. /\ NextCall(n) \in ServesRequest => rNode[n] \in Request
          /\ NextCall(n) \in WhileUndraining => rNode[n] = "Idle"
      BY ZenonT(60) DEF NextCall, Handler, NodeAnnoValue, CurrentValue, Request, Busy
    <2>3. \/ pc'[n] = "idle" /\ rNode'[n] = "none"
          \/ pc'[n] = NextCall(n) /\ rNode' = rNode
      BY <1>1 DEF GetNodeState
    <2> QED  BY <2>1, <2>2, <2>3, ZenonT(60)
  <1>2. CASE StartReconcile(n)
    BY <1>2 DEF StartReconcile
  <1>3. CASE EnsureCurrent(n) \/ EnsureDesired(n)
    BY <1>3, ZenonT(60) DEF EnsureCurrent, EnsureDesired
  <1>15. CASE EnsureNode(n)
    BY <1>15 DEF EnsureNode
  <1>16. CASE UpdateCondIdle(n) \/ Lock(n) \/ PoolNotFound(n)
    BY <1>16, ZenonT(60) DEF UpdateCondIdle, Lock, PoolNotFound
  <1>4. ASSUME NEW k \in Node, Scan(n, k) PROVE WorkerStand(n)' /\ DaemonStand(n)'
    BY <1>4 DEF Scan
  <1>5. CASE DecideSlot(n)
    BY <1>5 DEF DecideSlot
  <1>6. CASE UpdateCondPending(n) \/ UpdateCondDraining(n)
    BY <1>6, ZenonT(60) DEF UpdateCondPending, UpdateCondDraining
  <1>14. CASE BeforeDrainNode(n)
    <2>1. UNCHANGED <<protocolVars, rNode>> /\ pc[n] = "beforeDrain"
      BY <1>14 DEF BeforeDrainNode
    <2>2. pc'[n] \in {"cordon", "condComplete"}
      BY <1>14 DEF BeforeDrainNode
    <2> QED  BY <2>1, <2>2
  <1>7. CASE Cordon(n)
    BY <1>7 DEF Cordon
  <1>8. ASSUME NEW p \in PodKind, EvictPod(n, p) PROVE WorkerStand(n)' /\ DaemonStand(n)'
    BY <1>8 DEF EvictPod
  <1>9. CASE Drained(n)
    BY <1>9 DEF Drained
  <1>10. CASE UpdateCondErrors(n) \/ UpdateCondComplete(n) \/ AnnotateComplete(n)
    BY <1>10, ZenonT(60) DEF UpdateCondErrors, UpdateCondComplete, AnnotateComplete
  <1>11. CASE Uncordon(n) \/ AfterCompleteDrainNode(n)
    BY <1>11, ZenonT(60) DEF Uncordon, AfterCompleteDrainNode
  <1>17. CASE AnnotateIdle(n)
    BY <1>17 DEF AnnotateIdle
  <1>12. CASE BeforeDrainNodeNotReady(n) \/ AfterCompleteDrainNodeNotReady(n) \/ EvictionRetried(n)
    BY <1>12, ZenonT(60) DEF BeforeDrainNodeNotReady, AfterCompleteDrainNodeNotReady, EvictionRetried
  <1>13. ~DrainNodeFails(n) /\ ~ApiError(n)
    BY SMT DEF DrainNodeFails, ApiError
  <1> HIDE DEF WorkerStand, DaemonStand
  <1> QED  BY <1>1, <1>2, <1>3, <1>4, <1>5, <1>6, <1>7, <1>8, <1>9, <1>10, <1>11, <1>12, <1>13,
              <1>14, <1>15, <1>16, <1>17, SMTT(30)
           DEF ReconcileStep, ReconcileDelay

(* What handleDrain decides when requests are plain.                       *)
LEMMA PlainVerdict ==
    ASSUME NEW n \in Node, dCur[n] \in CurrentValue \ {"none"}, dNeed[n] \in Needs,
           PlainRequests, dpc[n] = "drain"
    PROVE  /\ DrainVerdict(n) = "go" => dCur[n] = "DrainComplete" \/ (dNeed[n] = "none" /\ dCur[n] = "Idle")
           /\ DrainVerdict(n) \in NodeAnnoValue => DrainVerdict(n) \in Request /\ dCur[n] = "Idle"
  <1>1. ~disableDrain /\ (dCur[n] \in Busy => ~Escalate(n))
    BY DEF PlainRequests
  <1> QED  BY <1>1, DaemonAssumption
           DEF DrainVerdict, CurrentValue, Busy, NodeAnnoValue, Request, AllNeeds

(* The daemon of the node.                                                 *)
LEMMA StandDaemon ==
    ASSUME TypeOK, DaemonTypeOK, NEW n \in Node, CopyInv(n), WorkerStand(n), DaemonStand(n),
           PlainRequests, DaemonStep(n), UNCHANGED <<pc, rNode>>
    PROVE  /\ WorkerStand(n)' /\ DaemonStand(n)'
           /\ TakesBack(n) => StillToUndrain(n)
  <1>a. /\ "Draining" \in Busy /\ "DrainComplete" \in Busy /\ "Idle" \notin Busy /\ "none" \notin Busy
        /\ "Idle" \notin Request /\ "none" \notin Request
    BY DEF Busy, Request
  <1>b. current' = current
    BY DaemonFrame
  <1>c. ~disableDrain
    BY DEF PlainRequests
  <1>1. ASSUME UNCHANGED <<nodeAnno, desired>>, dpc[n] # "reqState",
               dpc'[n] \in {"idle", "progress", "reboot", "record"}
        PROVE  WorkerStand(n)' /\ DaemonStand(n)' /\ (TakesBack(n) => StillToUndrain(n))
    BY <1>1, <1>b DEF WorkerStand, DaemonStand, Copied, TakesBack
  <1>2. CASE DaemonStart(n)
    <2>1. UNCHANGED <<nodeAnno, desired>> /\ dpc[n] = "idle"
      BY <1>2 DEF DaemonStart, protocolVars
    <2>2. dpc'[n] \in {"idle", "progress"}
      BY <1>2 DEF DaemonStart, DGoto, DaemonTypeOK
    <2> QED  BY <1>1, <2>1, <2>2
  <1>3. CASE MarkInProgress(n)
    <2>1. UNCHANGED <<nodeAnno, desired>> /\ dpc[n] = "progress"
      BY <1>3 DEF MarkInProgress, protocolVars
    <2>2. CASE gen[n] # dGen[n]
      <3>1. dpc'[n] = "idle"
        BY <1>3, <2>2, ForgetLocal DEF MarkInProgress, DRequeue
      <3> QED  BY <1>1, <2>1, <3>1
    <2>3. CASE gen[n] = dGen[n]
      <3>0. /\ dpc' = [dpc EXCEPT ![n] = "drain"]
            /\ dCur' = [dCur EXCEPT ![n] = current[n]]
            /\ dDes' = [dDes EXCEPT ![n] = desired[n]]
        BY <1>3, <2>3 DEF MarkInProgress, DGoto
      <3>1. dpc'[n] = "drain" /\ dCur'[n] = current[n] /\ dDes'[n] = desired[n]
        BY <3>0 DEF DaemonTypeOK
      <3> QED  BY <1>a, <1>b, <2>1, <3>1 DEF WorkerStand, DaemonStand, Copied, TakesBack
    <2> QED  BY <2>2, <2>3
  <1>4. CASE HandleDrain(n)
    <2>1. UNCHANGED <<nodeAnno, desired>> /\ dpc[n] = "drain"
      BY <1>4 DEF HandleDrain, protocolVars
    <2>0. dCur[n] \in CurrentValue \ {"none"} /\ dNeed[n] \in Needs
      BY <2>1 DEF DaemonTypeOK, CopyInv
    <2>2. CASE DrainVerdict(n) = "go" /\ DGoto(n, "check") /\ KeepCopy /\ UNCHANGED <<ddirty, dVal>>
      <3>1. dpc'[n] = "check" /\ UNCHANGED <<dCur, dDes, dVal>>
        BY <2>2 DEF DGoto, KeepCopy, DaemonTypeOK
      <3> QED  BY <1>b, <2>1, <3>1 DEF WorkerStand, DaemonStand, Copied, TakesBack
    <2>3. CASE DrainVerdict(n) = "wait" /\ DRequeue(n) /\ UNCHANGED lastApplied
      <3>1. dpc'[n] = "idle"
        BY <2>3, ForgetLocal DEF DRequeue
      <3> QED  BY <1>1, <2>1, <3>1
    <2>4. CASE /\ DrainVerdict(n) \in NodeAnnoValue
               /\ dVal' = [dVal EXCEPT ![n] = DrainVerdict(n)]
               /\ DGoto(n, "reqNode") /\ KeepCopy /\ UNCHANGED ddirty
      <3>1. DrainVerdict(n) \in Request /\ dCur[n] = "Idle"
        BY <2>0, <2>1, <2>4, PlainVerdict
      <3>2. dpc'[n] = "reqNode" /\ dVal'[n] = DrainVerdict(n)
        BY <2>4 DEF DGoto, DaemonTypeOK
      <3> QED  BY <1>b, <2>1, <3>1, <3>2 DEF WorkerStand, DaemonStand, Copied, TakesBack
    <2> QED  BY <1>4, <2>2, <2>3, <2>4 DEF HandleDrain
  <1>5. CASE RequestOnNode(n)
    <2>1. /\ dpc[n] = "reqNode" /\ dpc'[n] = "reqState" /\ UNCHANGED <<desired, dVal>>
          /\ nodeAnno'[n] = dVal[n]
      BY <1>5 DEF RequestOnNode, DGoto, DaemonTypeOK, TypeOK, ProtocolTypeOK
    <2> QED  BY <1>a, <1>b, <2>1, ZenonT(60) DEF WorkerStand, DaemonStand, Copied, TakesBack
  <1>6. CASE RequestOnState(n)
    <2>1. /\ dpc[n] = "reqState" /\ dpc'[n] = "idle" /\ UNCHANGED nodeAnno
          /\ desired'[n] = dVal[n]
      BY <1>6, ForgetLocal, ZenonT(60) DEF RequestOnState, DRequeue, TypeOK, ProtocolTypeOK
    <2> QED  BY <1>a, <1>b, <2>1, ZenonT(60) DEF WorkerStand, DaemonStand, Copied, TakesBack
  <1>7. CASE CheckDrainCompleted(n)
    <2>1. UNCHANGED <<nodeAnno, desired>> /\ dpc[n] = "check"
      BY <1>7 DEF CheckDrainCompleted, protocolVars
    <2>2. CASE IsDrainCompleted(n)
      <3>1. dpc'[n] = "apply" /\ UNCHANGED <<dCur, dDes, dVal>>
        BY <1>7, <2>2 DEF CheckDrainCompleted, DGoto, KeepCopy, DaemonTypeOK
      <3>2. dCur[n] = "DrainComplete" \/ dDes[n] = "Idle"
        BY <1>c, <2>2 DEF IsDrainCompleted
      <3> QED  BY <1>b, <2>1, <3>1, <3>2 DEF WorkerStand, DaemonStand, Copied, TakesBack
    <2>3. CASE ~IsDrainCompleted(n)
      <3>1. dpc'[n] = "idle"
        BY <1>7, <2>3, ForgetLocal DEF CheckDrainCompleted, DReturn
      <3> QED  BY <1>1, <2>1, <3>1
    <2> QED  BY <2>2, <2>3
  <1>8. CASE ApplyPlugins(n)
    <2>1. /\ dpc[n] = "apply" /\ dpc'[n] = "relNode"
          /\ UNCHANGED <<nodeAnno, desired, dCur, dDes, dVal>>
      BY <1>8 DEF ApplyPlugins, DGoto, KeepCopy, DaemonTypeOK, protocolVars
    <2> QED  BY <1>b, <2>1 DEF WorkerStand, DaemonStand, Copied, TakesBack
  <1>9. CASE ReleaseNode(n)
    <2>1. /\ dpc[n] = "relNode" /\ dpc'[n] = "relState" /\ UNCHANGED desired
          /\ nodeAnno'[n] = "Idle"
      BY <1>9 DEF ReleaseNode, DGoto, DaemonTypeOK, TypeOK, ProtocolTypeOK
    <2>2. nodeAnno[n] \in Request => current[n] = "DrainComplete"
      BY <2>1 DEF DaemonStand, Copied
    <2>3. nodeAnno[n] \in Request => StillToUndrain(n)
      BY <1>a, <2>2 DEF WorkerStand, StillToUndrain
    <2> QED  BY <1>a, <1>b, <2>1, <2>2, <2>3, ZenonT(60) DEF WorkerStand, DaemonStand, Copied, TakesBack
  <1>10. CASE ReleaseState(n)
    <2>1. dpc[n] = "relState" /\ dpc'[n] = "status" /\ UNCHANGED nodeAnno
      BY <1>10 DEF ReleaseState, DGoto, DaemonTypeOK
    <2> QED  BY <1>a, <1>b, <2>1 DEF WorkerStand, DaemonStand, Copied, TakesBack
  <1>11. CASE RebootLimitReached(n) \/ RebootNode(n) \/ RecordApplied(n)
    <2>1. UNCHANGED <<nodeAnno, desired>> /\ dpc'[n] = "idle" /\ dpc[n] # "reqState"
      BY <1>11, ForgetLocal DEF RebootLimitReached, RebootNode, RecordApplied, DRequeue, DReturn,
         protocolVars
    <2> QED  BY <1>1, <2>1
  <1>12. CASE IncrementRebootCounter(n) \/ PublishStatus(n)
    <2>1. /\ UNCHANGED <<nodeAnno, desired>>
          /\ dpc[n] # "reqState" /\ dpc'[n] \in {"reboot", "record"}
      BY <1>12 DEF IncrementRebootCounter, PublishStatus, DGoto, DaemonTypeOK, protocolVars
    <2> QED  BY <1>1, <2>1
  <1> QED  BY <1>2, <1>3, <1>4, <1>5, <1>6, <1>7, <1>8, <1>9, <1>10, <1>11, <1>12,
              ZenonT(60)
           DEF DaemonStep

(* The daemons of other nodes.                                             *)
LEMMA OtherDaemons ==
    ASSUME TypeOK, DaemonTypeOK, NEW n \in Node, NEW m \in Node, m # n, DaemonStep(n)
    PROVE  /\ nodeAnno'[m] = nodeAnno[m] /\ desired'[m] = desired[m] /\ dpc'[m] = dpc[m]
           /\ dCur'[m] = dCur[m] /\ dDes'[m] = dDes[m] /\ dVal'[m] = dVal[m]
  <1>0. ASSUME Forget(n)
        PROVE  /\ dpc'[m] = dpc[m] /\ dCur'[m] = dCur[m]
               /\ dDes'[m] = dDes[m] /\ dVal'[m] = dVal[m]
    BY <1>0 DEF DaemonTypeOK, Forget, DGoto
  <1>1. CASE DaemonStart(n)
    BY <1>1 DEF DaemonStart, DaemonTypeOK, DGoto, protocolVars
  <1>2. CASE MarkInProgress(n)
    <2>1. CASE gen[n] # dGen[n]
      BY <1>0, <1>2, <2>1 DEF MarkInProgress, DRequeue, protocolVars
    <2>2. CASE gen[n] = dGen[n]
      <3>1. /\ dpc' = [dpc EXCEPT ![n] = "drain"]
            /\ dCur' = [dCur EXCEPT ![n] = current[n]]
            /\ dDes' = [dDes EXCEPT ![n] = desired[n]]
            /\ UNCHANGED <<nodeAnno, desired, dVal>>
        BY <1>2, <2>2 DEF MarkInProgress, DGoto, protocolVars
      <3> QED  BY <3>1 DEF DaemonTypeOK
    <2> QED  BY <2>1, <2>2
  <1>3. CASE HandleDrain(n)
    BY <1>0, <1>3 DEF HandleDrain, DaemonTypeOK, DGoto, DRequeue, KeepCopy, protocolVars
  <1>4. CASE RequestOnNode(n) \/ ReleaseNode(n) \/ ReleaseState(n)
    BY <1>4, ZenonT(60) DEF RequestOnNode, ReleaseNode, ReleaseState, DaemonTypeOK, DGoto, KeepCopy,
       TypeOK, ProtocolTypeOK
  <1>5. CASE RequestOnState(n)
    BY <1>0, <1>5 DEF RequestOnState, DRequeue, TypeOK, ProtocolTypeOK
  <1>6. CASE CheckDrainCompleted(n)
    BY <1>0, <1>6 DEF CheckDrainCompleted, DaemonTypeOK, DGoto, DReturn, KeepCopy, protocolVars
  <1>7. CASE ApplyPlugins(n) \/ IncrementRebootCounter(n) \/ PublishStatus(n)
    BY <1>7 DEF ApplyPlugins, IncrementRebootCounter, PublishStatus, DaemonTypeOK, DGoto,
       KeepCopy, protocolVars
  <1>8. CASE RebootLimitReached(n) \/ RebootNode(n) \/ RecordApplied(n)
    BY <1>0, <1>8 DEF RebootLimitReached, RebootNode, RecordApplied, DRequeue, DReturn,
       protocolVars
  <1> QED  BY <1>1, <1>2, <1>3, <1>4, <1>5, <1>6, <1>7, <1>8, ZenonT(60) DEF DaemonStep

(* Steps of the system without failures.                                   *)
LEMMA FaultFreeCases ==
    ASSUME SysInv, [SysNext]_sysVars, faults' = 0, NEW m \in Node
    PROVE  /\ faults = 0
           /\ \/ /\ ReconcileStep(m) \/ ReconcileDelay(m)
                 /\ UNCHANGED <<dpc, dCur, dDes, dVal>>
              \/ DaemonStep(m) /\ UNCHANGED <<pc, rNode>>
              \/ /\ nodeAnno'[m] = nodeAnno[m] /\ desired'[m] = desired[m]
                 /\ current'[m] = current[m] /\ pc'[m] = pc[m] /\ rNode'[m] = rNode[m]
                 /\ dpc'[m] = dpc[m] /\ dCur'[m] = dCur[m]
                 /\ dDes'[m] = dDes[m] /\ dVal'[m] = dVal[m]
  <1>0. TypeOK /\ DaemonTypeOK /\ Managed \subseteq Node
    BY ProtocolAssumption DEF SysInv, SysTypeOK
  <1>1. faults = 0 /\ ~OperatorRestart
    BY <1>0, SysStepMaps, FaultsGrow
  <1> DEFINE Same == /\ nodeAnno'[m] = nodeAnno[m] /\ desired'[m] = desired[m]
                     /\ current'[m] = current[m] /\ pc'[m] = pc[m] /\ rNode'[m] = rNode[m]
                     /\ dpc'[m] = dpc[m] /\ dCur'[m] = dCur[m]
                     /\ dDes'[m] = dDes[m] /\ dVal'[m] = dVal[m]
             Worker == (ReconcileStep(m) \/ ReconcileDelay(m)) /\ UNCHANGED <<dpc, dCur, dDes, dVal>>
             Daemon == DaemonStep(m) /\ UNCHANGED <<pc, rNode>>
  <1>2. ASSUME NEW n \in Managed, ReconcileStep(n) \/ ReconcileDelay(n), KeepDaemon
        PROVE  Worker \/ Same
    <2>1. UNCHANGED <<dpc, dCur, dDes, dVal>>
      BY <1>2 DEF KeepDaemon
    <2>2. CASE n = m
      BY <1>2, <2>1, <2>2
    <2>3. CASE n # m
      BY <1>0, <1>2, <2>1, <2>3, OtherWorkers, ZenonT(60)
    <2> QED  BY <2>2, <2>3
  <1>3. ASSUME NEW n \in Managed, DaemonStep(n), KeepController
        PROVE  Daemon \/ Same
    <2>1. UNCHANGED <<pc, rNode>> /\ current' = current
      BY <1>0, <1>3, DaemonFrame DEF KeepController
    <2>2. CASE n = m
      BY <1>3, <2>1, <2>2
    <2>3. CASE n # m
      BY <1>0, <1>3, <2>1, <2>3, OtherDaemons, ZenonT(60)
    <2> QED  BY <2>2, <2>3
  <1>4. ASSUME NEW n \in Managed, DaemonFault(n)
        PROVE  FALSE
    BY <1>1, <1>4, SMTT(30) DEF DaemonFault
  <1>5. DaemonEnvironment /\ KeepController => Same
    BY DEF DaemonEnvironment, KeepController, SpecChange, HostDrift, ToggleDisableDrain,
       protocolVars, daemonLocal
  <1>6. ASSUME NEW n \in Managed, NEW p \in PodKind, SchedulePod(n, p),
               UNCHANGED <<ctrlVars, faults, daemonVars>>
        PROVE  Same
    BY <1>6 DEF SchedulePod, ctrlVars, daemonVars, daemonLocal
  <1>7. UNCHANGED sysVars => Same
    BY DEF sysVars, vars, protocolVars, ctrlVars, daemonVars, daemonLocal
  <1> HIDE DEF Same, Worker, Daemon
  <1>8. Worker \/ Daemon \/ Same
    BY <1>1, <1>2, <1>3, <1>4, <1>5, <1>6, <1>7, ZenonT(60) DEF SysNext, ControllerTakesStep, DaemonTakesStep
  <1> QED  BY <1>1, <1>8 DEF Same, Worker, Daemon

Stand == faults = 0 => \A n \in Node : WorkerStand(n) /\ DaemonStand(n)

LEMMA StandStep ==
    ASSUME SysInv, Stand, PlainRequests, [SysNext]_sysVars
    PROVE  Stand'
  <1>0. TypeOK /\ HandshakeInv /\ DaemonTypeOK
    BY DEF SysInv, SysTypeOK
  <1> SUFFICES ASSUME faults' = 0, NEW m \in Node
               PROVE  WorkerStand(m)' /\ DaemonStand(m)'
    BY DEF Stand
  <1>1. faults = 0 /\ WorkerStand(m) /\ DaemonStand(m) /\ CopyInv(m)
    BY FaultFreeCases DEF Stand, SysInv, DaemonInv
  <1>2. CASE /\ ReconcileStep(m) \/ ReconcileDelay(m)
             /\ UNCHANGED <<dpc, dCur, dDes, dVal>>
    BY <1>0, <1>1, <1>2, StandWorker, ZenonT(60)
  <1>3. CASE DaemonStep(m) /\ UNCHANGED <<pc, rNode>>
    BY <1>0, <1>1, <1>3, StandDaemon, ZenonT(60)
  <1>4. CASE /\ nodeAnno'[m] = nodeAnno[m] /\ desired'[m] = desired[m]
             /\ current'[m] = current[m] /\ pc'[m] = pc[m] /\ rNode'[m] = rNode[m]
             /\ dpc'[m] = dpc[m] /\ dCur'[m] = dCur[m]
             /\ dDes'[m] = dDes[m] /\ dVal'[m] = dVal[m]
    BY <1>1, <1>4 DEF WorkerStand, DaemonStand
  <1> QED  BY <1>2, <1>3, <1>4, FaultFreeCases, ZenonT(60)

(* The annotations of a new Node: until the controller created it no       *)
(* daemon has begun to work on the node, so that the controller, which     *)
(* writes Idle on a Node that had no annotation when it looked, overwrites *)
(* no request.                                                             *)
AnnotatedFirst == \A n \in Node : nodeAnno[n] = "none" => dpc[n] = "idle"

Creating == {"getState", "ensureCurrent", "ensureDesired", "ensureNode"}
FirstInv(n) == pc[n] \in Creating /\ rNode[n] = "none" => nodeAnno[n] = "none"
First == faults = 0 => \A n \in Node : FirstInv(n)

(* A daemon takes back its request only when the un-drain lies ahead.      *)
RequestsStand == \A n \in Node : TakesBack(n) => StillToUndrain(n)

LEMMA WorkerAnnotates ==
    ASSUME TypeOK, NEW n \in Node, FirstInv(n), ReconcileStep(n) \/ ReconcileDelay(n)
    PROVE  FirstInv(n)' /\ ~TakesBack(n)
  <1> USE DEF TypeOK, ProtocolTypeOK, protocolVars, ctrlVars, Goto, Return, Requeue, FirstInv,
        Creating, TakesBack
  <1>1. CASE StartReconcile(n)
    BY <1>1 DEF StartReconcile
  <1>2. CASE GetNodeState(n) \/ EnsureCurrent(n) \/ EnsureDesired(n)
    BY <1>2 DEF GetNodeState, EnsureCurrent, EnsureDesired
  <1>3. CASE EnsureNode(n)
    BY <1>3 DEF EnsureNode, Request
  <1>4. CASE ~(StartReconcile(n) \/ GetNodeState(n) \/ EnsureCurrent(n) \/ EnsureDesired(n)
               \/ EnsureNode(n))
    <2>1. nodeAnno' = nodeAnno /\ ((pc'[n] = pc[n] /\ rNode' = rNode) \/ pc'[n] \notin Creating)
      BY <1>4, ZenonT(60) DEF ReconcileStep, ReconcileDelay, UpdateCondIdle, Lock, PoolNotFound, Scan,
         DecideSlot, UpdateCondPending, UpdateCondDraining, BeforeDrainNode, Cordon, EvictPod,
         Drained, UpdateCondErrors, UpdateCondComplete, AnnotateComplete, Uncordon,
         AfterCompleteDrainNode, AnnotateIdle, BeforeDrainNodeNotReady,
         AfterCompleteDrainNodeNotReady, EvictionRetried, DrainNodeFails, ApiError
    <2> QED  BY <2>1, ZenonT(60)
  <1> QED  BY <1>1, <1>2, <1>3, <1>4, ZenonT(60)

LEMMA DaemonAnnotates ==
    ASSUME NEW n \in Node, AnnotatedFirst, FirstInv(n), DaemonStep(n), UNCHANGED <<pc, rNode>>
    PROVE  FirstInv(n)'
  <1>1. nodeAnno' = nodeAnno \/ dpc[n] # "idle"
    BY DEF DaemonStep, DaemonStart, MarkInProgress, HandleDrain, RequestOnNode, RequestOnState,
       CheckDrainCompleted, ApplyPlugins, RebootLimitReached, IncrementRebootCounter,
       RebootNode, ReleaseNode, ReleaseState, PublishStatus, RecordApplied, protocolVars
  <1> QED  BY <1>1 DEF AnnotatedFirst, FirstInv

LEMMA TakenBack ==
    ASSUME SysInv, Stand, First, PlainRequests, AnnotatedFirst, [SysNext]_sysVars
    PROVE  First' /\ (faults' = 0 => RequestsStand)
  <1>0. TypeOK /\ DaemonTypeOK
    BY DEF SysInv, SysTypeOK
  <1> SUFFICES ASSUME faults' = 0, NEW m \in Node
               PROVE  FirstInv(m)' /\ (TakesBack(m) => StillToUndrain(m))
    BY DEF First, RequestsStand
  <1>1. faults = 0 /\ WorkerStand(m) /\ DaemonStand(m) /\ CopyInv(m) /\ FirstInv(m)
    BY FaultFreeCases DEF Stand, First, SysInv, DaemonInv
  <1>2. CASE ReconcileStep(m) \/ ReconcileDelay(m)
    BY <1>0, <1>1, <1>2, WorkerAnnotates
  <1>3. CASE DaemonStep(m) /\ UNCHANGED <<pc, rNode>>
    BY <1>0, <1>1, <1>3, StandDaemon, DaemonAnnotates, ZenonT(60)
  <1>4. CASE nodeAnno'[m] = nodeAnno[m] /\ pc'[m] = pc[m] /\ rNode'[m] = rNode[m]
    BY <1>1, <1>4 DEF FirstInv, TakesBack
  <1> QED  BY <1>2, <1>3, <1>4, FaultFreeCases

LEMMA StandInit == SysInit => Stand /\ First
  <1> SUFFICES ASSUME SysInit, NEW n \in Node
               PROVE  WorkerStand(n) /\ DaemonStand(n) /\ FirstInv(n)
    BY DEF Stand, First
  <1>1. pc[n] = "idle" /\ rNode[n] = "none" /\ nodeAnno[n] = "none" /\ dpc[n] = "idle"
    BY DEF SysInit, Init, ProtocolInit, ControllerInit, DaemonInit, DaemonBoot
  <1>2. current[n] = "none"
    BY DEF SysInit, Init, ProtocolInit
  <1> QED  BY <1>1, <1>2 DEF WorkerStand, DaemonStand, FirstInv, ServesRequest, WhileDraining,
           WhileUndraining, Copied, Request, Busy

(* As long as no call failed, a daemon takes back its request only after   *)
(* the drain, with the un-drain ahead, if drains stay enabled, no drain is *)
(* escalated to a reboot and the controller is done with a new Node first. *)
THEOREM RequestsKept ==
    SysSpec /\ []PlainRequests /\ []AnnotatedFirst =>
        [][faults' = 0 => RequestsStand]_sysVars
  <1>1. SysInv /\ Stand /\ First /\ PlainRequests /\ AnnotatedFirst /\ [SysNext]_sysVars =>
           Stand' /\ First' /\ (faults' = 0 => RequestsStand)
    BY StandStep, TakenBack
  <1> QED  BY <1>1, StandInit, SystemSafety, PTL DEF SysSpec
=============================================================================
