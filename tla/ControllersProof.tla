--------------------------- MODULE ControllersProof ---------------------------
(***************************************************************************)
(* Proofs about the controllers of the operator's process: those of the    *)
(* pool config and of the operator config, and those of the networks, for  *)
(* any number of objects, namespaces, specs and failures.                  *)
(***************************************************************************)
EXTENDS PoolConfig, NetworkController, TLAPS

(* Most leaves are first-order: Zenon proves them, SMT those that cite it.  *)
USE Zenon

controllerVars == <<opVars, poolVars>>

-----------------------------------------------------------------------------
(* The pool config. A worker that has seen the finalizer holds the pool:   *)
(* only the worker itself lets it go.                                      *)
NoOffload == ~Openshift \/ Hypershift
HeldPool ==
    /\ pool # NoPool /\ pool.fin
    /\ ~renamed => pool.name = psnap.name
PoolInv ==
    /\ pool = NoPool \/ (pool \in Pool /\ (pool.deleting => pool.fin))
    /\ ppc \in {"idle", "finalizer", "sync", "write", "done"}
    /\ mcs \in [Mcp -> OvsConfig \cup {""}]
    /\ renamed \in BOOLEAN
    /\ ppc # "idle" =>
          /\ psnap \in Pool /\ (psnap.deleting => psnap.fin)
          /\ ppc # "finalizer" => psnap.fin
          /\ psnap.fin => HeldPool
    /\ \A m \in Mcp : mcs[m] # "" => ~NoOffload /\ m # "master"
    /\ ~renamed => \A m \in Mcp : mcs[m] # "" => pool # NoPool /\ pool.fin /\ pool.name = m
    /\ ppc = "write" => /\ psnap.name \in Mcp /\ ~NoOffload /\ psnap.name # "master"
                        /\ pfound = "" => mcs[psnap.name] = ""
    /\ ppc = "done" /\ psnap.deleting /\ psnap.name \in Mcp => mcs[psnap.name] = ""

LEMMA PoolWorkerStep ==
    ASSUME PoolInv, PoolStep
    PROVE  PoolInv'
  <1> USE DEF PoolElsewhere, opVars, NoOffload, Openshift, Hypershift, HeldPool
  <1>1. CASE PoolGet
    <2>1. CASE pool = NoPool \/ ~UsesOffload(pool)
      BY <1>1, <2>1 DEF PoolGet, PoolInv, poolWorker
    <2>2. CASE pool # NoPool /\ UsesOffload(pool)
      BY <1>1, <2>2 DEF PoolGet, PoolInv
    <2> QED  BY <2>1, <2>2
  <1>2. CASE PoolFinalizer
    <2>1. CASE psnap.deleting \/ psnap.fin
      BY <1>2, <2>1 DEF PoolFinalizer, PoolInv
    <2>2. CASE ~psnap.deleting /\ ~psnap.fin /\ pool = psnap
      <3>1. pool \in Pool
        BY <1>2, <2>2 DEF PoolFinalizer, PoolInv
      <3>2. /\ pool' = [pool EXCEPT !.fin = TRUE] /\ psnap' = pool' /\ ppc' = "sync"
            /\ UNCHANGED <<mcs, pfound, renamed, flavor>>
        BY <1>2, <2>2 DEF PoolFinalizer
      <3>3. pool' \in Pool /\ pool'.fin /\ pool'.name = pool.name /\ pool'.deleting = pool.deleting
        BY <3>1, <3>2 DEF Pool
      <3> QED  BY <2>2, <3>1, <3>2, <3>3, PoolAssumption DEF PoolInv
    <2>3. CASE ~psnap.deleting /\ ~psnap.fin /\ pool # psnap
      BY <1>2, <2>3 DEF PoolFinalizer, PoolInv, PoolError, PoolIdle
    <2> QED  BY <2>1, <2>2, <2>3
  <1>3. CASE SyncOffload
    <2>1. UNCHANGED <<pool, mcs, renamed, flavor>> /\ ppc = "sync"
      BY <1>3 DEF SyncOffload
    <2>2. \/ /\ NoOffload \/ psnap.name = "master"
             /\ ppc' = "done" /\ UNCHANGED <<psnap, pfound>>
          \/ ppc' = "idle"
          \/ /\ ~NoOffload /\ psnap.name # "master" /\ psnap.name \in Mcp
             /\ pfound' = mcs[psnap.name] /\ ppc' = "write" /\ UNCHANGED psnap
      BY <1>3 DEF SyncOffload, PoolError, PoolIdle
    <2> QED  BY <2>1, <2>2 DEF PoolInv
  <1>4. CASE WriteOffload
    <2>0. /\ ppc = "write" /\ psnap \in Pool /\ psnap.fin /\ HeldPool
          /\ psnap.name \in Mcp /\ ~NoOffload /\ psnap.name # "master"
          /\ psnap.conf \in OvsConfig /\ psnap.deleting \in BOOLEAN
          /\ UNCHANGED <<pool, renamed, flavor>>
      BY <1>4 DEF WriteOffload, PoolInv, Pool
    <2>1. CASE pfound = Offload(psnap)
      <3>1. UNCHANGED <<mcs, psnap, pfound>> /\ ppc' = "done"
        BY <1>4, <2>1 DEF WriteOffload
      <3>2. psnap.deleting => mcs[psnap.name] = ""
        BY <2>0, <2>1 DEF PoolInv, Offload
      <3> QED  BY <2>0, <3>1, <3>2 DEF PoolInv
    <2>2. CASE pfound # Offload(psnap) /\ mcs[psnap.name] = pfound
      <3>1. mcs' = [mcs EXCEPT ![psnap.name] = Offload(psnap)] /\ ppc' = "done" /\ UNCHANGED psnap
        BY <1>4, <2>2 DEF WriteOffload
      <3>2. Offload(psnap) \in OvsConfig \cup {""} /\ (psnap.deleting => Offload(psnap) = "")
        BY <2>0 DEF Offload
      <3> QED  BY <2>0, <3>1, <3>2 DEF PoolInv
    <2>3. CASE pfound # Offload(psnap) /\ mcs[psnap.name] # pfound
      <3>1. UNCHANGED mcs /\ ppc' = "idle"
        BY <1>4, <2>3 DEF WriteOffload, PoolError, PoolIdle
      <3> QED  BY <2>0, <3>1 DEF PoolInv
    <2> QED  BY <2>1, <2>2, <2>3
  <1>5. CASE PoolDone
    <2>1. CASE psnap.deleting /\ pool = psnap
      BY <1>5, <2>1 DEF PoolDone, PoolInv, PoolIdle, Pool
    <2>2. CASE ~(psnap.deleting /\ pool = psnap)
      <3>1. UNCHANGED <<pool, mcs, renamed, flavor>> /\ ppc' = "idle"
        BY <1>5, <2>2 DEF PoolDone, PoolIdle, PoolError
      <3> QED  BY <3>1 DEF PoolInv
    <2> QED  BY <2>1, <2>2
  <1> QED  BY <1>1, <1>2, <1>3, <1>4, <1>5 DEF PoolStep

LEMMA PoolEvents ==
    ASSUME PoolInv, PoolNext, ~PoolStep
    PROVE  PoolInv'
  <1> USE DEF PoolElsewhere, PoolEvent, opVars, NoOffload, Openshift, Hypershift, HeldPool, poolWorker
  <1>1. CASE PoolRequeue
    BY <1>1 DEF PoolRequeue, PoolInv
  <1>2. CASE PoolFail
    BY <1>2 DEF PoolFail, PoolInv, PoolError, PoolIdle
  <1>3. CASE DeletePool
    <2>1. pool \in Pool /\ pool # NoPool
      BY <1>3 DEF DeletePool, PoolInv
    <2>2. [pool EXCEPT !.deleting = TRUE] \in Pool /\ [pool EXCEPT !.deleting = TRUE].name = pool.name
          /\ [pool EXCEPT !.deleting = TRUE].fin = pool.fin
      BY <2>1 DEF Pool
    <2>3. CASE pool.fin
      BY <1>3, <2>1, <2>2, <2>3, PoolAssumption DEF DeletePool, PoolInv
    <2>4. CASE ~pool.fin
      BY <1>3, <2>1, <2>4 DEF DeletePool, PoolInv
    <2> QED  BY <2>3, <2>4
  <1>4. ASSUME NEW n \in PoolName, NEW c \in OvsConfig, CreatePool(n, c)
        PROVE  PoolInv'
    <2>1. pool' \in Pool /\ ~pool'.deleting /\ pool = NoPool
          /\ UNCHANGED <<mcs, ppc, psnap, pfound, renamed, flavor>>
      BY <1>4 DEF CreatePool, Pool
    <2> QED  BY <2>1, PoolAssumption DEF PoolInv
  <1>5. ASSUME NEW n \in PoolName, NEW c \in OvsConfig, EditPool(n, c)
        PROVE  PoolInv'
    <2>1. pool \in Pool
      BY <1>5 DEF EditPool, PoolInv
    <2>2. /\ pool' \in Pool /\ pool'.name = n /\ pool'.fin = pool.fin /\ pool'.deleting = pool.deleting
          /\ renamed' = (renamed \/ n # pool.name)
          /\ UNCHANGED <<mcs, ppc, psnap, pfound, flavor>>
      BY <1>5, <2>1 DEF EditPool, Pool
    <2> QED  BY <2>1, <2>2, PoolAssumption DEF PoolInv
  <1>6. ASSUME NEW m \in Mcp, RemoveMC(m) PROVE PoolInv'
    BY <1>6 DEF RemoveMC, PoolInv
  <1> QED  BY <1>1, <1>2, <1>3, <1>4, <1>5, <1>6 DEF PoolNext

LEMMA OperatorKeepsFlavor == OperatorNext => UNCHANGED flavor
  BY DEF OperatorNext, OperatorStep, Get, SyncOperatorConfigFinalizers, Refresh, SyncWebhookObjs, Read,
         Write, Finish, DeleteAllWebhooks, RemoveFinalizer, Requeue, DeleteConfig, Fail, CreateConfig,
         EditConfig, SetProfile, Fill, Remove, GarbageCollect, CleanupGet, CleanupDelete, CleanupPoll,
         Elsewhere, Event

LEMMA PoolInvStep == PoolInv /\ [ControllersNext]_controllerVars => PoolInv'
  <1> SUFFICES ASSUME PoolInv, [ControllersNext]_controllerVars PROVE PoolInv'
    OBVIOUS
  <1>1. CASE PoolNext
    BY <1>1, PoolWorkerStep, PoolEvents
  <1>2. CASE UNCHANGED poolVars /\ UNCHANGED flavor
    BY <1>2 DEF PoolInv, HeldPool, NoOffload, Openshift, Hypershift, poolVars, poolWorker
  <1> QED  BY <1>1, <1>2, OperatorKeepsFlavor DEF ControllersNext, controllerVars, opVars

(* Whatever failed, was edited or removed before, a SriovNetworkPoolConfig *)
(* that is gone has left no MachineConfig behind: the finalizer goes last, *)
(* and only once the MachineConfig was seen to be gone.                    *)
THEOREM PoolLeavesNothing == ControllersSpec => []NoOrphanMachineConfig
  <1>1. ControllersInit => PoolInv
    BY DEF ControllersInit, PoolInit, PoolInv
  <1>2. PoolInv => NoOrphanMachineConfig
    BY DEF PoolInv, NoOrphanMachineConfig
  <1> QED  BY <1>1, <1>2, PoolInvStep, PTL DEF ControllersSpec, controllerVars

-----------------------------------------------------------------------------
(* The operator config. A worker that has seen the finalizer holds the     *)
(* config until it removes the finalizer itself; then it has no object     *)
(* left to write.                                                          *)
HeldConfig == config # NoConfig /\ config.fin
Cleared(o) == objects[o] = NoObject
OperatorInv ==
    /\ OperatorTypeOK
    /\ DOMAIN objects = Object /\ nextUid \in Nat
    /\ snap = NoConfig \/ (snap \in Config /\ (snap.deleting => snap.fin))
    /\ pc = "finalizer" /\ snap.fin => HeldConfig
    /\ pc \in {"sync", "write", "delete"} => HeldConfig
    /\ pc = "read" /\ plan # <<>> => HeldConfig
    /\ pc = "delete" =>
          \/ plan = <<"operatorHook", "injectorHook">>
          \/ plan = <<"injectorHook">> /\ Cleared("operatorHook")
          \/ plan = <<>> /\ Cleared("operatorHook") /\ Cleared("injectorHook")
    /\ ~HeldConfig => \A o \in Hooks : Cleared(o)

LEMMA ConfigEdits ==
    ASSUME NEW c \in Config, NEW s \in OpSpec, NEW g \in Nat
    PROVE  /\ c.gen + 1 \in Nat
           /\ [c EXCEPT !.fin = TRUE] \in Config /\ [c EXCEPT !.fin = TRUE].fin
           /\ [c EXCEPT !.spec = s, !.gen = g] \in Config
           /\ [c EXCEPT !.spec = s, !.gen = g].fin = c.fin
           /\ [c EXCEPT !.spec = s, !.gen = g].deleting = c.deleting
           /\ [c EXCEPT !.deleting = TRUE, !.gen = g] \in Config
           /\ [c EXCEPT !.deleting = TRUE, !.gen = g].fin = c.fin
  <1>1. c.gen + 1 \in Nat
    BY SMT DEF Config
  <1>2. /\ [c EXCEPT !.fin = TRUE] \in Config /\ [c EXCEPT !.fin = TRUE].fin
    BY DEF Config
  <1>3. /\ [c EXCEPT !.spec = s, !.gen = g] \in Config
        /\ [c EXCEPT !.spec = s, !.gen = g].fin = c.fin
        /\ [c EXCEPT !.spec = s, !.gen = g].deleting = c.deleting
    BY DEF Config
  <1>4. /\ [c EXCEPT !.deleting = TRUE, !.gen = g] \in Config
        /\ [c EXCEPT !.deleting = TRUE, !.gen = g].fin = c.fin
    BY DEF Config
  <1> QED  BY <1>1, <1>2, <1>3, <1>4

LEMMA ReadyWritten ==
    ASSUME OperatorInv, snap # NoConfig, NEW ok \in BOOLEAN, ApplyReadyCondition(ok)
    PROVE  IF config = NoConfig THEN config' = NoConfig
           ELSE /\ config' \in Config /\ config' # NoConfig
                /\ config'.fin = config.fin /\ config'.deleting = config.deleting
  <1>1. snap \in Config /\ (config # NoConfig => config \in Config)
    BY DEF OperatorInv, OperatorTypeOK
  <1>2. [uid |-> snap.uid, gen |-> snap.gen, ok |-> ok] \in [uid : Nat, gen : Nat, ok : BOOLEAN]
    BY <1>1 DEF Config
  <1>3. CASE config' = config
    BY <1>1, <1>3
  <1>4. CASE config # NoConfig /\ config' = [config EXCEPT !.ready =
                [uid |-> snap.uid, gen |-> snap.gen, ok |-> ok]]
    <2> DEFINE r == [uid |-> snap.uid, gen |-> snap.gen, ok |-> ok]
    <2>1. config \in Config /\ r \in [uid : Nat, gen : Nat, ok : BOOLEAN] /\ config' = [config EXCEPT !.ready = r]
      BY <1>1, <1>2, <1>4
    <2> HIDE DEF r
    <2>2. /\ [config EXCEPT !.ready = r] \in Config
          /\ [config EXCEPT !.ready = r].fin = config.fin
          /\ [config EXCEPT !.ready = r].deleting = config.deleting
      BY <2>1 DEF Config
    <2> QED  BY <1>4, <2>1, <2>2, OperatorAssumption
  <1> QED  BY <1>3, <1>4 DEF ApplyReadyCondition

(* The worker gives up; the config keeps its finalizer.                    *)
LEMMA GivesUp ==
    ASSUME OperatorInv, pc # "idle", Idle, UNCHANGED <<profile, cleanup, nextUid>>,
           UNCHANGED config \/ \E ok \in BOOLEAN : ApplyReadyCondition(ok),
           UNCHANGED objects
    PROVE  OperatorInv'
  <1>1. snap # NoConfig
    BY DEF OperatorInv, OperatorTypeOK
  <1>2. IF config = NoConfig THEN config' = NoConfig
        ELSE /\ config' \in Config /\ config' # NoConfig
             /\ config'.fin = config.fin /\ config'.deleting = config.deleting
    BY <1>1, ReadyWritten DEF OperatorInv, OperatorTypeOK
  <1> QED  BY <1>2 DEF OperatorInv, OperatorTypeOK, Idle, Cleared, HeldConfig

(* What Deleted makes of a config.                                         *)
LEMMA DeletedConfig ==
    ASSUME config \in Config
    PROVE  IF config.fin THEN Deleted \in Config /\ Deleted.fin ELSE Deleted = NoConfig
  <1> SUFFICES ASSUME config.fin PROVE Deleted \in Config /\ Deleted.fin
    BY DEF Deleted
  <1> DEFINE g == IF config.deleting THEN config.gen ELSE config.gen + 1
  <1>1. g \in Nat
    BY SMT DEF Config
  <1>2. Deleted = [config EXCEPT !.deleting = TRUE, !.gen = g]
    BY DEF Deleted
  <1> HIDE DEF g
  <1>3. [config EXCEPT !.deleting = TRUE, !.gen = g] \in Config
        /\ [config EXCEPT !.deleting = TRUE, !.gen = g].fin = config.fin
    BY <1>1 DEF Config
  <1> QED  BY <1>2, <1>3

LEMMA OperatorWorkerStep ==
    ASSUME OperatorInv, OperatorStep
    PROVE  OperatorInv'
  <1> USE DEF Elsewhere, HeldConfig, Cleared
  <1>1. CASE Get
    <2>1. CASE config = NoConfig
      BY <1>1, <2>1 DEF Get, OperatorInv, OperatorTypeOK, worker
    <2>2. CASE config # NoConfig
      <3>1. /\ snap' = config /\ UNCHANGED <<config, objects, profile, cleanup, nextUid>>
            /\ pc' = IF config.deleting THEN "delete" ELSE "finalizer"
            /\ config.deleting /\ config.fin => plan' = <<"operatorHook", "injectorHook">>
        BY <1>1, <2>2 DEF Get
      <3>2. config \in Config /\ (config.deleting => config.fin) /\ config.deleting \in BOOLEAN
        BY <2>2 DEF OperatorInv, OperatorTypeOK, Config
      <3> QED  BY <2>2, <3>1, <3>2 DEF OperatorInv, OperatorTypeOK
    <2> QED  BY <2>1, <2>2
  <1>2. CASE SyncOperatorConfigFinalizers
    <2>0. pc = "finalizer" /\ snap # NoConfig /\ snap \in Config
          /\ UNCHANGED <<objects, profile, cleanup, nextUid>>
      BY <1>2 DEF SyncOperatorConfigFinalizers, OperatorInv, OperatorTypeOK
    <2>1. CASE snap.fin
      BY <1>2, <2>0, <2>1 DEF SyncOperatorConfigFinalizers, OperatorInv, OperatorTypeOK
    <2>2. CASE ~snap.fin /\ config # NoConfig
      <3>1. config \in Config /\ config' = [config EXCEPT !.fin = TRUE] /\ pc' = "refresh" /\ UNCHANGED snap
        BY <1>2, <2>2 DEF SyncOperatorConfigFinalizers, OperatorInv, OperatorTypeOK
      <3>2. config' \in Config /\ config'.fin
        BY <3>1, ConfigEdits DEF Config
      <3>3. config' # NoConfig
        BY <3>2, OperatorAssumption
      <3> QED  BY <2>0, <3>1, <3>2, <3>3 DEF OperatorInv, OperatorTypeOK
    <2>3. CASE ~snap.fin /\ config = NoConfig
      BY <1>2, <2>0, <2>3, GivesUp DEF SyncOperatorConfigFinalizers, ReturnError
    <2> QED  BY <2>1, <2>2, <2>3
  <1>3. CASE Refresh
    BY <1>3 DEF Refresh, OperatorInv, OperatorTypeOK
  <1>4. CASE SyncWebhookObjs
    BY <1>4 DEF SyncWebhookObjs, OperatorInv, OperatorTypeOK
  <1>5. CASE Read
    <2>1. pc = "read" /\ plan # <<>> /\ UNCHANGED <<objects, profile, cleanup, nextUid>>
      BY <1>5 DEF Read
    <2>2. CASE ReturnError
      BY <2>1, <2>2, GivesUp DEF ReturnError
    <2>3. CASE pc' = "write" /\ UNCHANGED <<config, snap, plan>>
      BY <2>1, <2>3 DEF OperatorInv, OperatorTypeOK
    <2> QED  BY <1>5, <2>2, <2>3 DEF Read
  <1>6. CASE Write
    <2>1. pc = "write" /\ UNCHANGED <<profile, cleanup, nextUid>>
      BY <1>6 DEF Write
    <2>2. CASE ReturnError /\ UNCHANGED objects
      BY <2>1, <2>2, GivesUp DEF ReturnError
    <2>3. ASSUME NEW o, NEW v, objects' = [objects EXCEPT ![o] = v], pc' = "read",
                 UNCHANGED <<config, snap>>
          PROVE  OperatorInv'
      BY <2>1, <2>3 DEF OperatorInv, OperatorTypeOK
    <2> QED  BY <1>6, <2>2, <2>3 DEF Write
  <1>7. CASE Finish
    <2>1. pc = "read"
      BY <1>7 DEF Finish
    <2> QED  BY <1>7, <2>1, GivesUp DEF Finish
  <1>8. CASE DeleteAllWebhooks
    <2>1. /\ pc = "delete" /\ plan # <<>> /\ objects' = [objects EXCEPT ![Head(plan)] = NoObject]
          /\ plan' = Tail(plan) /\ UNCHANGED <<config, pc, snap, profile, cleanup, nextUid>>
      BY <1>8 DEF DeleteAllWebhooks
    <2>2. HeldConfig /\ DOMAIN objects = Object
      BY <2>1 DEF OperatorInv
    <2>3. CASE plan = <<"operatorHook", "injectorHook">>
      <3>1. Head(plan) = "operatorHook" /\ plan' = <<"injectorHook">>
        BY <2>1, <2>3, SMT
      <3>2. objects'["operatorHook"] = NoObject /\ DOMAIN objects' = Object
        BY <2>1, <2>2, <3>1 DEF Object
      <3> QED  BY <2>1, <2>2, <3>1, <3>2 DEF OperatorInv, OperatorTypeOK
    <2>4. CASE plan = <<"injectorHook">> /\ Cleared("operatorHook")
      <3>1. Head(plan) = "injectorHook" /\ plan' = <<>>
        BY <2>1, <2>4, SMT
      <3>2. objects'["operatorHook"] = NoObject /\ objects'["injectorHook"] = NoObject
            /\ DOMAIN objects' = Object
        BY <2>1, <2>2, <2>4, <3>1 DEF Object
      <3> QED  BY <2>1, <2>2, <3>1, <3>2 DEF OperatorInv, OperatorTypeOK
    <2> QED  BY <2>1, <2>3, <2>4 DEF OperatorInv
  <1>9. CASE RemoveFinalizer
    <2>1. pc = "delete" /\ plan = <<>> /\ UNCHANGED <<objects, profile, cleanup, nextUid>>
      BY <1>9 DEF RemoveFinalizer
    <2>2. CASE config = snap
      <3>1. config' = NoConfig /\ pc' = "read" /\ UNCHANGED <<snap, plan>>
        BY <1>9, <2>2 DEF RemoveFinalizer
      <3>2. \A o \in Hooks : Cleared(o)
        BY <2>1 DEF OperatorInv, Hooks
      <3> QED  BY <2>1, <3>1, <3>2 DEF OperatorInv, OperatorTypeOK
    <2>3. CASE config # snap
      BY <1>9, <2>1, <2>3, GivesUp DEF RemoveFinalizer, ReturnError
    <2> QED  BY <2>2, <2>3
  <1> QED  BY <1>1, <1>2, <1>3, <1>4, <1>5, <1>6, <1>7, <1>8, <1>9 DEF OperatorStep

(* Users, other controllers, failures and the clean-up command.            *)
LEMMA OperatorEvents ==
    ASSUME OperatorInv, OperatorNext, ~OperatorStep
    PROVE  OperatorInv'
  <1> USE DEF Elsewhere, Event, HeldConfig, Cleared, worker
  <1>0. config # NoConfig => config \in Config
    BY DEF OperatorInv, OperatorTypeOK
  <1>1. CASE Requeue
    BY <1>1 DEF Requeue, OperatorInv, OperatorTypeOK
  <1>2. CASE Fail
    BY <1>2, GivesUp DEF Fail
  <1>3. ASSUME config # NoConfig, config' = Deleted,
               UNCHANGED <<objects, profile, pc, snap, plan, nextUid>>,
               cleanup' \in {"idle", "delete", "poll", "done", "failed"}
        PROVE  OperatorInv'
    <2>1. CASE config.fin
      <3>1. config' \in Config /\ config'.fin
        BY <1>0, <1>3, <2>1, DeletedConfig
      <3>2. config' # NoConfig
        BY <3>1, OperatorAssumption
      <3> QED  BY <1>3, <2>1, <3>1, <3>2 DEF OperatorInv, OperatorTypeOK
    <2>2. CASE ~config.fin
      <3>1. config' = NoConfig
        BY <1>0, <1>3, <2>2, DeletedConfig
      <3>2. \A o \in Hooks : Cleared(o)
        BY <1>3, <2>2 DEF OperatorInv
      <3> QED  BY <1>3, <2>2, <3>1, <3>2 DEF OperatorInv, OperatorTypeOK
    <2> QED  BY <2>1, <2>2
  <1>4. CASE DeleteConfig
    <2>1. cleanup' \in {"idle", "delete", "poll", "done", "failed"}
      BY <1>4 DEF DeleteConfig, OperatorInv, OperatorTypeOK
    <2> QED  BY <1>3, <1>4, <2>1 DEF DeleteConfig
  <1>5. ASSUME NEW s \in OpSpec, CreateConfig(s) PROVE OperatorInv'
    <2>1. config' \in Config /\ ~config'.deleting /\ ~config'.fin /\ nextUid' \in Nat
      BY <1>5, SMT DEF CreateConfig, OperatorInv, Config, NotReady
    <2>2. config = NoConfig /\ UNCHANGED <<objects, profile, pc, snap, plan, cleanup>>
      BY <1>5 DEF CreateConfig
    <2>3. config' # NoConfig
      BY <2>1, OperatorAssumption
    <2> QED  BY <2>1, <2>2, <2>3 DEF OperatorInv, OperatorTypeOK
  <1>6. ASSUME NEW s \in OpSpec, EditConfig(s) PROVE OperatorInv'
    <2>1. config # NoConfig /\ UNCHANGED <<objects, profile, pc, snap, plan, cleanup, nextUid>>
      BY <1>6 DEF EditConfig
    <2>2. config' \in Config /\ config'.fin = config.fin /\ config'.deleting = config.deleting
      <3> DEFINE g == config.gen + 1
      <3>1. config' = [config EXCEPT !.spec = s, !.gen = g]
        BY <1>6 DEF EditConfig
      <3>2. g \in Nat /\ config \in Config
        BY <1>0, <2>1, SMT DEF Config
      <3> HIDE DEF g
      <3> QED  BY <3>1, <3>2 DEF Config
    <2>3. config' # NoConfig
      BY <2>2, OperatorAssumption
    <2> QED  BY <2>1, <2>2, <2>3 DEF OperatorInv, OperatorTypeOK
  <1>7. ASSUME NEW p \in Profiles, SetProfile(p) PROVE OperatorInv'
    BY <1>7 DEF SetProfile, OperatorInv, OperatorTypeOK
  <1>8. ASSUME NEW o, Fill(o) PROVE OperatorInv'
    <2>1. /\ objects' = [objects EXCEPT ![o].kept = "filled"] /\ objects[o] # NoObject
          /\ UNCHANGED <<config, profile, pc, snap, plan, cleanup, nextUid>>
      BY <1>8 DEF Fill
    <2>2. DOMAIN objects' = Object /\ \A h \in Object : objects[h] = NoObject => objects'[h] = NoObject
      BY <2>1 DEF OperatorInv
    <2> QED  BY <2>1, <2>2, ZenonT(60) DEF OperatorInv, OperatorTypeOK, Hooks, Object
  <1>9. ASSUME NEW o, Remove(o) \/ GarbageCollect(o) PROVE OperatorInv'
    <2>1. /\ objects' = [objects EXCEPT ![o] = NoObject]
          /\ UNCHANGED <<config, profile, pc, snap, plan, cleanup, nextUid>>
      BY <1>9 DEF Remove, GarbageCollect
    <2>2. DOMAIN objects' = Object /\ \A h \in Object : objects[h] = NoObject => objects'[h] = NoObject
      BY <2>1 DEF OperatorInv
    <2> QED  BY <2>1, <2>2, SMT DEF OperatorInv, OperatorTypeOK, Hooks, Object
  <1>10. ASSUME UNCHANGED <<config, objects, profile, pc, snap, plan, nextUid>>,
                cleanup' \in {"idle", "delete", "poll", "done", "failed"}
         PROVE  OperatorInv'
    BY <1>10 DEF OperatorInv, OperatorTypeOK
  <1>11. CASE CleanupGet
    BY <1>10, <1>11 DEF CleanupGet
  <1>12. CASE CleanupDelete
    BY <1>3, <1>10, <1>12 DEF CleanupDelete
  <1>13. CASE CleanupPoll
    BY <1>10, <1>13 DEF CleanupPoll
  <1> QED  BY <1>1, <1>2, <1>4, <1>5, <1>6, <1>7, <1>8, <1>9, <1>11, <1>12, <1>13 DEF OperatorNext

LEMMA OperatorInvStep == OperatorInv /\ [ControllersNext]_controllerVars => OperatorInv'
  <1> SUFFICES ASSUME OperatorInv, [ControllersNext]_controllerVars PROVE OperatorInv'
    OBVIOUS
  <1>1. CASE OperatorNext
    BY <1>1, OperatorWorkerStep, OperatorEvents
  <1>2. CASE UNCHANGED opVars
    BY <1>2 DEF OperatorInv, OperatorTypeOK, HeldConfig, Cleared, opVars, worker
  <1>3. PoolNext => UNCHANGED opVars
    BY DEF PoolNext, PoolStep, PoolGet, PoolFinalizer, SyncOffload, WriteOffload, PoolDone, PoolRequeue,
           CreatePool, EditPool, DeletePool, RemoveMC, PoolFail, PoolElsewhere, PoolEvent
  <1> QED  BY <1>1, <1>2, <1>3 DEF ControllersNext, controllerVars

LEMMA OperatorSafety == ControllersSpec => []OperatorInv
  <1>1. ControllersInit => OperatorInv
    <2> SUFFICES ASSUME OperatorInit PROVE OperatorInv
      BY DEF ControllersInit
    <2>1. DOMAIN objects = Object /\ \A o \in Hooks : Cleared(o)
      BY DEF OperatorInit, Cleared, Object, Hooks
    <2>2. OperatorTypeOK
      BY OperatorAssumption DEF OperatorInit, OperatorTypeOK
    <2> QED  BY <2>1, <2>2 DEF OperatorInit, OperatorInv
  <1> QED  BY <1>1, OperatorInvStep, PTL DEF ControllersSpec, controllerVars

(* While there is no SriovOperatorConfig none of the operator's webhook    *)
(* configurations is left, whatever was edited, failed or was under way    *)
(* when it was deleted.                                                    *)
THEOREM WebhooksGoFirst == ControllersSpec => []NoOrphanWebhook
  <1>1. OperatorInv => NoOrphanWebhook
    BY DEF OperatorInv, NoOrphanWebhook, Cleared, HeldConfig
  <1> QED  BY <1>1, OperatorSafety, PTL

(* ApplyObject writes at the version it read, so that what another         *)
(* controller wrote into the object, even after the read, is not wiped.    *)
THEOREM ForeignKept == ControllersSpec => NeverDropsForeign
  <1> DEFINE Keeps == \A o \in Object \ {"devicePlugin"} :
                        (objects[o] # NoObject /\ objects'[o] # NoObject)
                          => (objects[o].kept = "filled" => objects'[o].kept # "")
  <1>1. ASSUME OperatorInv, [ControllersNext]_controllerVars PROVE [Keeps]_opVars
    <2>1. UNCHANGED objects => Keeps
      BY Zenon
    <2>2. ASSUME NEW v, NEW h, objects' = [objects EXCEPT ![h] = v],
                 h \in Object \ {"devicePlugin"} /\ objects[h] # NoObject /\ v # NoObject
                   => (objects[h].kept = "filled" => v.kept # "")
          PROVE  Keeps
      BY <1>1, <2>2 DEF OperatorInv
    <2>3. CASE Write
      <3> DEFINE o == Head(plan)
                 new == Rendered(snap, tls, o)
      <3>1. CASE UNCHANGED objects \/ objects' = [objects EXCEPT ![o] = NoObject]
                 \/ objects' = [objects EXCEPT ![o] = objects[o]]
        BY <2>1, <2>2, <3>1
      <3>2. CASE ~Fails(o, new) /\ objects' = [objects EXCEPT ![o] = Result(o, new)]
        <4>1. CASE found = NoObject
          <5>1. objects[o] = NoObject
            BY <3>2, <4>1 DEF Fails
          <5> QED  BY <2>2, <3>2, <5>1
        <4>2. CASE found # NoObject /\ Unchanged(o, new)
          BY <2>2, <3>2, <4>2 DEF Result
        <4>3. CASE found # NoObject /\ ~Unchanged(o, new) /\ o # "devicePlugin"
          <5>1. objects[o] = found /\ Result(o, new) = MergeObjectForUpdate(o, found, new)
            BY <3>2, <4>3 DEF Fails, Result
          <5>2. MergeObjectForUpdate(o, found, new).kept = MergeKept(found, new)
            BY DEF MergeObjectForUpdate, Rendered
          <5>3. found.kept = "filled" => MergeKept(found, new) # ""
            BY DEF MergeKept
          <5> HIDE DEF o, new
          <5> QED  BY <2>2, <3>2, <5>1, <5>2, <5>3
        <4>4. CASE o = "devicePlugin"
          BY <2>2, <3>2, <4>4
        <4> QED  BY <4>1, <4>2, <4>3, <4>4
      <3> QED  BY <2>3, <3>1, <3>2 DEF Write
    <2>4. ASSUME NEW o, Fill(o) PROVE Keeps
      <3>1. objects' = [objects EXCEPT ![o] = [objects[o] EXCEPT !.kept = "filled"]]
            /\ objects[o].kept = ""
        BY <2>4 DEF Fill
      <3> QED  BY <2>2, <3>1
    <2>5. ASSUME NEW o, Remove(o) \/ GarbageCollect(o) PROVE Keeps
      BY <2>2, <2>5 DEF Remove, GarbageCollect
    <2>6. CASE DeleteAllWebhooks
      BY <2>2, <2>6 DEF DeleteAllWebhooks
    <2>7. CASE Get \/ SyncOperatorConfigFinalizers \/ Refresh \/ SyncWebhookObjs \/ Read \/ Finish \/ RemoveFinalizer
      BY <2>1, <2>7 DEF Get, SyncOperatorConfigFinalizers, Refresh, SyncWebhookObjs, Read,
         Finish, RemoveFinalizer
    <2>8. CASE \/ Requeue \/ DeleteConfig \/ Fail \/ CleanupGet \/ CleanupDelete \/ CleanupPoll
               \/ \E s \in OpSpec : CreateConfig(s) \/ EditConfig(s)
               \/ \E p \in Profiles : SetProfile(p)
      BY <2>1, <2>8 DEF Requeue, DeleteConfig, Fail, CleanupGet, CleanupDelete, CleanupPoll, CreateConfig,
                        EditConfig, SetProfile
    <2>9. CASE OperatorNext
      BY <2>3, <2>4, <2>5, <2>6, <2>7, <2>8, <2>9 DEF OperatorNext, OperatorStep
    <2>10. PoolNext => UNCHANGED opVars
      BY DEF PoolNext, PoolStep, PoolGet, PoolFinalizer, SyncOffload, WriteOffload, PoolDone, PoolRequeue,
             CreatePool, EditPool, DeletePool, RemoveMC, PoolFail, PoolElsewhere, PoolEvent
    <2> QED  BY <1>1, <2>9, <2>10 DEF ControllersNext, controllerVars
  <1> QED  BY <1>1, OperatorSafety, PTL DEF ControllersSpec, controllerVars, NeverDropsForeign

-----------------------------------------------------------------------------
(* The networks. What a reconcile of network n holds between its calls: a  *)
(* network of the operator's namespace it works for has the finalizer, and *)
(* only this reconcile takes it away.                                      *)
Valid(c) == c \in CR /\ c.uid \in 1..ops
Clean(f) == \A o \in DOMAIN f : f[o] # "invalid"
Writing == {"deleteOld", "clearLast", "get", "create", "update"}
HeldNet(n) ==
    /\ cr[n] # NoCR /\ cr[n].finalizer
    /\ ~moved => want[n].ns = Target(n, cr[n].spec)
Unref(n, ns) == nad[ns] # NoNad /\ nad[ns].owner = n /\ nad[ns].ref = 0
Work(n) ==
    /\ cr[n] = NoCR \/ Valid(cr[n])
    /\ npc[n] # "idle" => Valid(mine[n])
    /\ want[n].ns \in Namespace
    /\ npc[n] = "addFinalizer" => want[n] = RenderedNad(n, mine[n]) /\ Home[n] = OperatorNs
    /\ npc[n] \in Writing =>
          /\ Clean(want[n].config)
          /\ IF Home[n] = OperatorNs THEN HeldNet(n) ELSE want[n].ns = Home[n]
    /\ npc[n] = "update" => nfound[n] # NoNad /\ nfound[n].owner \in {n, "user"}
    /\ npc[n] \in {"deleteNad", "removeFinalizer"} => HeldNet(n)
    /\ npc[n] = "removeFinalizer" /\ ~moved => \A ns \in Namespace : ~Unref(n, ns)

(* A NAD without an owner reference is where its network's target is.      *)
Anchored(n, ns) ==
    /\ Home[n] = OperatorNs /\ cr[n] # NoCR /\ cr[n].finalizer
    /\ ns = Target(n, cr[n].spec)
NetState ==
    /\ DOMAIN cr = Net /\ DOMAIN nad = Namespace
    /\ DOMAIN npc = Net /\ DOMAIN mine = Net /\ DOMAIN want = Net /\ DOMAIN nfound = Net
    /\ namespaces \subseteq Namespace /\ queue \subseteq Net
    /\ ops \in 0..MaxOps /\ moved \in BOOLEAN
NadsInv ==
    /\ \A ns \in Namespace : nad[ns] # NoNad => NadOK(nad[ns])
    /\ ~moved => \A n \in Net, ns \in Namespace : Unref(n, ns) => Anchored(n, ns)
NetInv == NetState /\ NadsInv /\ \A n \in Net : Work(n)

LEMMA TargetExists ==
    ASSUME NEW n \in Net, NEW s \in NetSpec
    PROVE  Target(n, s) \in Namespace /\ Home[n] \in Namespace
  BY NetworkAssumption DEF Target

(* RenderNetAttDef drops or refuses what it should.                        *)
LEMMA RenderedClean ==
    ASSUME NEW n \in Net, NEW s \in NetSpec, ~BadJson(s.content)
    PROVE  Clean(RenderNetAttDef(n, s.content))
  <1>1. \A o \in DOMAIN s.content : o \in Verbatim \cup Unchecked => s.content[o] # "invalid"
    BY NetworkAssumption DEF BadJson
  <1>2. ASSUME NEW checked, NEW plain \in SUBSET Unchecked
        PROVE  Clean(Kept(s.content, checked, plain))
    BY <1>1, <1>2 DEF Clean, Kept
  <1>3. /\ {"vlan", "vlanProto", "logLevel", "logFile"} \in SUBSET Unchecked
        /\ {"bridge", "vlan", "mtu", "trunk", "interfaceType"} \in SUBSET Unchecked
        /\ {} \in SUBSET Unchecked
    BY DEF Unchecked
  <1> QED  BY <1>2, <1>3 DEF RenderNetAttDef, SriovNetworkConfig, SriovIBNetworkConfig, OVSNetworkConfig

LEMMA QueueOfNets ==
    ASSUME queue \subseteq Net, NEW taken, NEW again \in SUBSET Net, Events(taken, again)
    PROVE  queue' \subseteq Net
  BY DEF Events

LEMMA LaterIsValid ==
    ASSUME NEW o \in Nat, NEW p \in Nat, o <= p, NEW u \in 1..o
    PROVE  u \in 1..p
  BY SMT

(* A network whose reconcile and object are left alone.                    *)
LEMMA WorkKept ==
    ASSUME NEW m \in Net, Work(m), ops \in Nat, ops' \in Nat, ops <= ops',
           UNCHANGED <<cr[m], npc[m], mine[m], want[m], nfound[m]>>, moved => moved',
           \A ns \in Namespace : Unref(m, ns)' => Unref(m, ns)
    PROVE  Work(m)'
  <1>1. /\ cr'[m] = NoCR \/ Valid(cr[m])'
        /\ npc'[m] # "idle" => Valid(mine[m])'
    BY LaterIsValid DEF Work, Valid
  <1>2. HeldNet(m) => HeldNet(m)'
    BY DEF HeldNet
  <1> QED  BY <1>1, <1>2 DEF Work

LEMMA OpsBounded ==
    ASSUME NetState
    PROVE  ops \in Nat /\ MaxOps \in Nat /\ ops <= MaxOps
  <1>1. MaxOps \in Nat
    BY NetworkAssumption
  <1>2. ops \in 0..MaxOps
    BY DEF NetState
  <1> QED  BY <1>1, <1>2, SMT

(* NADs disappear, and objects change without losing what holds them.      *)
LEMMA NadsKept ==
    ASSUME NadsInv, moved => moved',
           \A ns \in Namespace : nad'[ns] \in {nad[ns], NoNad},
           \A m \in Net : \/ moved' \/ cr'[m] = cr[m]
                          \/ \A ns \in Namespace : ~Unref(m, ns)
                          \/ /\ cr'[m] # NoCR /\ (cr[m].finalizer => cr'[m].finalizer)
                             /\ Target(m, cr'[m].spec) = Target(m, cr[m].spec)
    PROVE  NadsInv'
  <1>1. \A m \in Net, ns \in Namespace : Unref(m, ns)' => Unref(m, ns)
    BY DEF Unref
  <1>2. ASSUME ~moved', NEW m \in Net, NEW ns \in Namespace, Unref(m, ns)' PROVE Anchored(m, ns)'
    <2>1. Unref(m, ns) /\ Anchored(m, ns)
      BY <1>1, <1>2 DEF NadsInv
    <2> QED  BY <1>2, <2>1 DEF Anchored
  <1>3. \A ns \in Namespace : nad'[ns] # NoNad => NadOK(nad'[ns])
    BY DEF NadsInv
  <1> QED  BY <1>2, <1>3 DEF NadsInv

(* A NAD as CreateNetAttDef or UpdateNetAttDef write it.                   *)
LEMMA NadWritten ==
    ASSUME NetInv, NEW n \in Net, npc[n] \in {"create", "update"}, UNCHANGED <<cr, moved>>,
           nad' = [nad EXCEPT ![want[n].ns] = Written(n)]
    PROVE  /\ NadsInv'
           /\ \A m \in Net \ {n}, ns \in Namespace : Unref(m, ns)' => Unref(m, ns)
  <1>1. /\ Work(n) /\ want[n].ns \in Namespace /\ DOMAIN nad = Namespace /\ ops \in 0..MaxOps
        /\ Valid(mine[n]) /\ Clean(want[n].config)
        /\ IF Home[n] = OperatorNs THEN HeldNet(n) ELSE want[n].ns = Home[n]
    BY DEF NetInv, NetState, Work, Writing
  <1>2. /\ \A ns \in Namespace \ {want[n].ns} : nad'[ns] = nad[ns]
        /\ nad'[want[n].ns] = Written(n)
    BY <1>1
  <1>3. /\ Written(n).owner = n /\ Written(n).config = want[n].config
        /\ Written(n).ref = IF Home[n] = want[n].ns THEN mine[n].uid ELSE 0
    BY DEF Written
  <1>4. mine[n].uid \in 1..MaxOps
    <2>1. mine[n].uid \in 1..ops
      BY <1>1 DEF Valid
    <2> QED  BY <2>1, LaterIsValid, OpsBounded DEF NetInv
  <1>5. /\ mine[n].uid # 0 /\ mine[n].uid \in 0..MaxOps /\ 0 \in 0..MaxOps
    BY <1>4, OpsBounded, SMT DEF NetInv
  <1>10. NadOK(Written(n))
    BY <1>1, <1>3, <1>5 DEF NadOK, Clean
  <1>6. \A ns \in Namespace : ns = want[n].ns /\ Unref(n, ns)' => Home[n] # ns
    BY <1>2, <1>3, <1>5 DEF Unref
  <1>7. \A m \in Net \ {n}, ns \in Namespace : Unref(m, ns)' => Unref(m, ns)
    BY <1>2, <1>3 DEF Unref
  <1>8. ASSUME ~moved, NEW m \in Net, NEW ns \in Namespace, Unref(m, ns)' PROVE Anchored(m, ns)'
    <2>1. CASE ns = want[n].ns
      <3>1. m = n
        BY <1>2, <1>3, <1>8, <2>1 DEF Unref
      <3>2. Home[n] = OperatorNs /\ HeldNet(n)
        <4>1. Home[n] # want[n].ns
          BY <1>6, <1>8, <2>1, <3>1
        <4> QED  BY <1>1, <4>1
      <3> QED  BY <1>8, <2>1, <3>1, <3>2 DEF HeldNet, Anchored
    <2>2. CASE ns # want[n].ns
      <3>1. Unref(m, ns)
        BY <1>2, <1>8, <2>2 DEF Unref
      <3>2. Anchored(m, ns)
        BY <1>8, <3>1 DEF NetInv, NadsInv
      <3> QED  BY <3>2 DEF Anchored
    <2> QED  BY <2>1, <2>2
  <1>9. \A ns \in Namespace : nad'[ns] # NoNad => NadOK(nad'[ns])
    BY <1>2, <1>10 DEF NetInv, NadsInv
  <1> QED  BY <1>7, <1>8, <1>9 DEF NadsInv

(* A reconcile of one network leaves the others' alone.                    *)
OnlyNet(n) ==
    /\ \A m \in Net \ {n} : UNCHANGED <<cr[m], npc[m], mine[m], want[m], nfound[m]>>
    /\ UNCHANGED <<moved, ops>> /\ NetState'
LEMMA OneNetMoves ==
    ASSUME NetInv, NEW n \in Net, OnlyNet(n), Work(n)', NadsInv',
           \A m \in Net \ {n}, ns \in Namespace : Unref(m, ns)' => Unref(m, ns)
    PROVE  NetInv'
  <1>1. ops \in Nat /\ ops' \in Nat /\ ops <= ops'
    BY OpsBounded, SMT DEF NetInv, OnlyNet
  <1>2. ASSUME NEW m \in Net \ {n} PROVE Work(m)'
    BY <1>1, <1>2, WorkKept DEF NetInv, OnlyNet
  <1> QED  BY <1>2 DEF NetInv, OnlyNet

LEMMA NetReturns ==
    ASSUME NetInv, NEW n \in Net, Reset(n), UNCHANGED <<namespaces, ops, moved>>, queue' \subseteq Net,
           \A ns \in Namespace : nad'[ns] = nad[ns], DOMAIN nad' = Namespace, DOMAIN cr' = Net,
           \A m \in Net \ {n} : cr'[m] = cr[m],
           \/ cr'[n] = cr[n]
           \/ cr'[n] = NoCR /\ (~moved => \A ns \in Namespace : ~Unref(n, ns))
           \/ /\ cr'[n] \in CR /\ cr'[n].uid = cr[n].uid /\ cr'[n] # NoCR /\ cr[n] # NoCR
              /\ cr'[n].finalizer = cr[n].finalizer /\ cr'[n].spec = cr[n].spec
    PROVE  NetInv'
  <1>1. /\ npc'[n] = "idle" /\ want'[n] = NoWant /\ want'[n].ns \in Namespace
        /\ \A m \in Net \ {n} : UNCHANGED <<npc[m], mine[m], want[m], nfound[m]>>
        /\ DOMAIN npc' = Net /\ DOMAIN mine' = Net /\ DOMAIN want' = Net /\ DOMAIN nfound' = Net
    BY NetworkAssumption DEF NetInv, NetState, Reset, NoWant
  <1>2. OnlyNet(n)
    BY <1>1 DEF OnlyNet, NetInv, NetState
  <1>3. NadsInv'
    BY NadsKept DEF NetInv
  <1>4. \A m \in Net, ns \in Namespace : Unref(m, ns)' => Unref(m, ns)
    BY DEF Unref
  <1>5. cr'[n] = NoCR \/ Valid(cr[n])'
    BY DEF NetInv, Work, Valid
  <1>6. Work(n)'
    BY <1>1, <1>5 DEF Work, Writing
  <1> QED  BY <1>2, <1>3, <1>4, <1>6, OneNetMoves

(* Where a reconcile goes on with an object that needs no finalizer, or    *)
(* has it.                                                                 *)
LEMMA GoesOn ==
    ASSUME NEW n \in Net, NEW c \in CR, NEW call, call = AfterFinalizer(n, c)
    PROVE  /\ call \in {"condRender", "deleteOld", "get"}
           /\ call \in Writing => Clean(RenderedNad(n, c).config)
           /\ RenderedNad(n, c).ns = Target(n, c.spec) /\ RenderedNad(n, c).ns \in Namespace
  <1>1. c.spec \in NetSpec
    BY DEF CR
  <1>2. call \in Writing => ~BadJson(c.spec.content)
    BY DEF AfterFinalizer, Writing
  <1>3. /\ RenderedNad(n, c).ns = Target(n, c.spec)
        /\ RenderedNad(n, c).config = RenderNetAttDef(n, c.spec.content)
    BY DEF RenderedNad
  <1> QED  BY <1>1, <1>2, <1>3, RenderedClean, TargetExists DEF AfterFinalizer

LEMMA StartsWell ==
    ASSUME NetInv, NEW n \in Net, StartReconcile(n)
    PROVE  NetInv'
  <1> DEFINE call == FirstCall(n, cr[n])
  <1>1. /\ npc'[n] = call
        /\ call # "idle" => mine'[n] = cr[n] /\ want'[n] = RenderedNad(n, cr[n])
        /\ call = "idle" => want'[n] = NoWant
        /\ \A m \in Net \ {n} : UNCHANGED <<npc[m], mine[m], want[m], nfound[m]>>
        /\ UNCHANGED <<cr, nad, namespaces, moved, ops, nfound>>
        /\ DOMAIN npc' = Net /\ DOMAIN mine' = Net /\ DOMAIN want' = Net
    BY DEF StartReconcile, netObjects, bounds, NetInv, NetState
  <1>2. queue' \subseteq Net
    BY QueueOfNets DEF StartReconcile, NetInv, NetState
  <1>3. OnlyNet(n)
    BY <1>1, <1>2 DEF OnlyNet, NetInv, NetState
  <1>4. NadsInv'
    BY <1>1, NadsKept DEF NetInv
  <1>5. \A m \in Net, ns \in Namespace : Unref(m, ns)' => Unref(m, ns)
    BY <1>1 DEF Unref
  <1>6. cr[n] = NoCR \/ (Valid(cr[n]) /\ cr[n] \in CR)
    BY DEF NetInv, Work, Valid
  <1>7. Work(n)'
    <2>1. CASE call = "idle"
      <3>1. want'[n].ns \in Namespace
        <4>1. NoWant.ns \in Namespace
          BY NetworkAssumption DEF NoWant
        <4> QED  BY <1>1, <2>1, <4>1
      <3>2. cr'[n] = NoCR \/ Valid(cr[n])'
        BY <1>1, <1>6 DEF Valid
      <3> QED  BY <1>1, <2>1, <3>1, <3>2 DEF Work, Writing
    <2>2. CASE call # "idle"
      <3>1. cr[n] # NoCR /\ Valid(cr[n])' /\ Valid(mine[n])' /\ cr[n] \in CR
        BY <1>1, <1>6, <2>2 DEF FirstCall, Valid
      <3>2. want'[n].ns = Target(n, cr[n].spec) /\ want'[n].ns \in Namespace
        <4>1. cr[n].spec \in NetSpec
          BY <3>1 DEF CR
        <4> QED  BY <1>1, <2>2, <4>1, TargetExists, SMT DEF RenderedNad
      <3>3. \/ call = "condInvalid"
            \/ ~Misplaced(n, cr[n]) /\ cr[n].finalizer /\ call = "deleteNad"
            \/ Home[n] = OperatorNs /\ call = "addFinalizer"
            \/ /\ ~Misplaced(n, cr[n]) /\ (Home[n] = OperatorNs => cr[n].finalizer)
               /\ call = AfterFinalizer(n, cr[n])
        BY <2>2, <3>1 DEF FirstCall
      <3>4. cr[n].finalizer => HeldNet(n)'
        BY <1>1, <3>1, <3>2 DEF HeldNet
      <3>5. CASE call = "condInvalid"
        BY <1>1, <3>1, <3>2, <3>5 DEF Work, Writing
      <3>6. CASE call = "deleteNad" /\ cr[n].finalizer
        BY <1>1, <3>1, <3>2, <3>4, <3>6 DEF Work, Writing
      <3>7. CASE call = "addFinalizer" /\ Home[n] = OperatorNs
        <4>1. want'[n] = RenderedNad(n, mine[n])'
          BY <1>1, <3>7 DEF RenderedNad, RenderNetAttDef, Target
        <4> QED  BY <1>1, <3>1, <3>2, <3>7, <4>1 DEF Work, Writing
      <3>8. CASE /\ ~Misplaced(n, cr[n]) /\ (Home[n] = OperatorNs => cr[n].finalizer)
                 /\ call = AfterFinalizer(n, cr[n])
        <4>1. /\ call \in {"condRender", "deleteOld", "get"}
              /\ call \in Writing => Clean(want'[n].config)
          BY <1>1, <2>2, <3>1, <3>8, GoesOn
        <4>2. Home[n] # OperatorNs => want'[n].ns = Home[n]
          BY <3>2, <3>8 DEF Misplaced, Target
        <4> QED  BY <1>1, <3>1, <3>2, <3>4, <3>8, <4>1, <4>2 DEF Work, Writing, Clean
      <3> QED  BY <3>3, <3>5, <3>6, <3>7, <3>8
    <2> QED  BY <2>1, <2>2
  <1> QED  BY <1>3, <1>4, <1>5, <1>7, OneNetMoves

LEMMA FinalizerAdded ==
    ASSUME NetInv, NEW n \in Net, UpdateFinalizers(n)
    PROVE  NetInv'
  <1>1. /\ npc[n] = "addFinalizer" /\ UNCHANGED <<nad, namespaces, moved, ops>>
        /\ Work(n) /\ Valid(mine[n]) /\ mine[n] \in CR
        /\ want[n] = RenderedNad(n, mine[n]) /\ Home[n] = OperatorNs
    BY DEF UpdateFinalizers, NetInv, Work, Valid, Goto, NetError, bounds
  <1>2. queue' \subseteq Net
    BY QueueOfNets DEF UpdateFinalizers, Goto, NetError, NetInv, NetState
  <1>3. CASE cr[n] # mine[n]
    BY <1>1, <1>2, <1>3, NetReturns DEF UpdateFinalizers, NetError, NetInv, NetState
  <1>4. CASE cr[n] = mine[n]
    <2>1. PICK new : new = [cr[n] EXCEPT !.finalizer = TRUE]
      OBVIOUS
    <2>2. /\ cr' = [cr EXCEPT ![n] = new] /\ mine' = [mine EXCEPT ![n] = new]
          /\ npc' = [npc EXCEPT ![n] = AfterFinalizer(n, new)] /\ UNCHANGED <<want, nfound>>
      BY <1>4, <2>1 DEF UpdateFinalizers, Goto
    <2>3. /\ new \in CR /\ new.finalizer /\ new.spec = cr[n].spec /\ new.uid = cr[n].uid /\ new # NoCR
      <3>1. cr[n] \in CR
        BY <1>1, <1>4
      <3>2. NoCR \notin CR
        BY NetworkAssumption
      <3> QED  BY <2>1, <3>1, <3>2 DEF CR
    <2>4. /\ cr'[n] = new /\ mine'[n] = new /\ npc'[n] = AfterFinalizer(n, new)
          /\ \A m \in Net \ {n} : UNCHANGED <<cr[m], npc[m], mine[m], want[m], nfound[m]>>
          /\ DOMAIN npc' = Net /\ DOMAIN mine' = Net /\ DOMAIN cr' = Net
      BY <2>2 DEF NetInv, NetState
    <2>5. OnlyNet(n)
      BY <1>1, <1>2, <2>2, <2>4 DEF OnlyNet, NetInv, NetState
    <2>6. NadsInv'
      BY <1>1, <2>3, <2>4, NadsKept, SMT DEF NetInv
    <2>7. \A m \in Net, ns \in Namespace : Unref(m, ns)' => Unref(m, ns)
      BY <1>1 DEF Unref
    <2>8. Valid(cr[n])' /\ Valid(mine[n])'
      BY <1>1, <1>4, <2>3, <2>4 DEF Valid
    <2>9. RenderedNad(n, new) = want[n]
      BY <1>1, <1>4, <2>3 DEF RenderedNad
    <2>10. /\ npc'[n] \in {"condRender", "deleteOld", "get"}
           /\ npc'[n] \in Writing => Clean(want'[n].config)
           /\ want'[n].ns = Target(n, new.spec) /\ want'[n].ns \in Namespace
      BY <2>2, <2>3, <2>4, <2>9, GoesOn, SMT
    <2>11. HeldNet(n)'
      BY <2>3, <2>4, <2>10 DEF HeldNet
    <2>12. Work(n)'
      BY <1>1, <2>8, <2>10, <2>11 DEF Work, Writing, Clean
    <2> QED  BY <2>5, <2>6, <2>7, <2>12, OneNetMoves
  <1> QED  BY <1>3, <1>4

(* A step that goes on with the same rendered NAD and, at most, another    *)
(* annotation on the object.                                               *)
LEMMA GoesOnHeld ==
    ASSUME NetInv, NEW n \in Net, npc[n] # "idle", NEW call, NEW x \in Namespace \cup {"", "absent"},
           npc' = [npc EXCEPT ![n] = call], UNCHANGED <<namespaces, want, moved, ops>>,
           DOMAIN nfound' = Net, \A m \in Net \ {n} : nfound'[m] = nfound[m],
           queue' \subseteq Net, DOMAIN nad' = Namespace,
           \A ns \in Namespace : nad'[ns] \in {nad[ns], NoNad},
           \/ UNCHANGED <<cr, mine>>
           \/ /\ cr[n] # NoCR
              /\ cr' = [cr EXCEPT ![n] = [cr[n] EXCEPT !.last = x]]
              /\ mine' = [mine EXCEPT ![n] = [cr[n] EXCEPT !.last = x]],
           call \notin {"idle", "addFinalizer", "deleteNad"},
           call \in Writing => npc[n] \in Writing,
           call = "update" => nfound'[n] # NoNad /\ nfound'[n].owner \in {n, "user"},
           call = "removeFinalizer" => /\ npc[n] = "deleteNad"
                                       /\ ~moved => \A ns \in Namespace : ~Unref(n, ns)'
    PROVE  NetInv'
  <1>1. Work(n)
    BY DEF NetInv
  <1>2. /\ \A m \in Net \ {n} : UNCHANGED <<cr[m], npc[m], mine[m], want[m], nfound[m]>>
        /\ DOMAIN npc' = Net /\ DOMAIN mine' = Net /\ DOMAIN cr' = Net /\ npc'[n] = call
        /\ want'[n] = want[n]
    BY DEF NetInv, NetState
  <1>13. moved' <=> moved
    OBVIOUS
  <1>3. OnlyNet(n)
    BY <1>2 DEF OnlyNet, NetInv, NetState
  <1>4. \A m \in Net, ns \in Namespace : Unref(m, ns)' => Unref(m, ns)
    BY DEF Unref
  <1>5. \/ cr'[n] = cr[n] /\ mine'[n] = mine[n]
        \/ /\ cr[n] # NoCR /\ cr'[n] # NoCR /\ cr'[n] \in CR /\ mine'[n] = cr'[n]
           /\ cr'[n].finalizer = cr[n].finalizer /\ cr'[n].spec = cr[n].spec /\ cr'[n].uid = cr[n].uid
    <2>1. CASE UNCHANGED <<cr, mine>>
      BY <2>1
    <2>2. CASE /\ cr[n] # NoCR
               /\ cr' = [cr EXCEPT ![n] = [cr[n] EXCEPT !.last = x]]
               /\ mine' = [mine EXCEPT ![n] = [cr[n] EXCEPT !.last = x]]
      <3>1. cr[n] \in CR
        BY <1>1, <2>2 DEF Work, Valid
      <3>2. cr'[n] = [cr[n] EXCEPT !.last = x] /\ mine'[n] = cr'[n]
        BY <2>2 DEF NetInv, NetState
      <3>3. /\ [cr[n] EXCEPT !.last = x] \in CR /\ [cr[n] EXCEPT !.last = x] # NoCR
            /\ [cr[n] EXCEPT !.last = x].finalizer = cr[n].finalizer
            /\ [cr[n] EXCEPT !.last = x].spec = cr[n].spec
            /\ [cr[n] EXCEPT !.last = x].uid = cr[n].uid
        <4>1. NoCR \notin CR
          BY NetworkAssumption
        <4>2. [cr[n] EXCEPT !.last = x] \in CR
          BY <3>1 DEF CR
        <4>3. /\ [cr[n] EXCEPT !.last = x].finalizer = cr[n].finalizer
              /\ [cr[n] EXCEPT !.last = x].spec = cr[n].spec
              /\ [cr[n] EXCEPT !.last = x].uid = cr[n].uid
          BY <3>1 DEF CR
        <4> QED  BY <4>1, <4>2, <4>3
      <3> QED  BY <2>2, <3>2, <3>3
    <2> QED  BY <2>1, <2>2
  <1>6. NadsInv'
    <2>1. \A m \in Net : \/ cr'[m] = cr[m]
                         \/ /\ cr'[m] # NoCR /\ (cr[m].finalizer => cr'[m].finalizer)
                            /\ Target(m, cr'[m].spec) = Target(m, cr[m].spec)
      BY <1>2, <1>5
    <2> QED  BY <2>1, NadsKept DEF NetInv
  <1>7. (cr'[n] = NoCR \/ Valid(cr[n])') /\ Valid(mine[n])'
    BY <1>1, <1>5 DEF Work, Valid
  <1>8. HeldNet(n) => HeldNet(n)'
    <2>1. CASE cr'[n] = cr[n]
      BY <1>2, <1>13, <2>1 DEF HeldNet
    <2>2. CASE /\ cr'[n] # NoCR /\ cr'[n].finalizer = cr[n].finalizer /\ cr'[n].spec = cr[n].spec
      BY <1>2, <1>13, <2>2 DEF HeldNet
    <2> QED  BY <1>5, <2>1, <2>2
  <1>9. want'[n].ns \in Namespace
    BY <1>1, <1>2 DEF Work
  <1>10. call \in Writing => /\ Clean(want'[n].config)
                             /\ IF Home[n] = OperatorNs THEN HeldNet(n)' ELSE want'[n].ns = Home[n]
    BY <1>1, <1>2, <1>8 DEF Work
  <1>11. call = "removeFinalizer" => HeldNet(n)'
    BY <1>1, <1>8 DEF Work
  <1>12. Work(n)'
    <2>1. /\ npc'[n] # "addFinalizer" /\ npc'[n] # "deleteNad"
          /\ npc'[n] = "update" => nfound'[n] # NoNad /\ nfound'[n].owner \in {n, "user"}
          /\ npc'[n] = "removeFinalizer" /\ ~moved' => \A ns \in Namespace : ~Unref(n, ns)'
      BY <1>2, <1>13
    <2>2. (npc[n] \in Writing)' => call \in Writing
      BY <1>2 DEF Writing
    <2> QED  BY <1>2, <1>7, <1>9, <1>10, <1>11, <2>1, <2>2 DEF Work, Clean
  <1> QED  BY <1>3, <1>4, <1>6, <1>12, OneNetMoves

LEMMA OldNadDeleted ==
    ASSUME NetInv, NEW n \in Net, DeleteOldNad(n)
    PROVE  NetInv'
  <1>1. npc[n] = "deleteOld" /\ UNCHANGED <<cr, namespaces, moved, ops>>
    BY DEF DeleteOldNad, Goto, NetError, bounds
  <1>2. queue' \subseteq Net
    BY QueueOfNets DEF DeleteOldNad, Goto, NetError, NetInv, NetState
  <1>3. CASE mine[n].last = ""
    BY <1>1, <1>2, <1>3, NetReturns DEF DeleteOldNad, NetError, NetInv, NetState
  <1>4. CASE mine[n].last # ""
    <2>1. /\ \A ns \in Namespace : nad'[ns] \in {nad[ns], NoNad}
          /\ DOMAIN nad' = Namespace /\ UNCHANGED <<cr, mine, want, nfound>> /\ DOMAIN nfound' = Net
          /\ npc' = [npc EXCEPT ![n] = "clearLast"]
      BY <1>4 DEF DeleteOldNad, Goto, NetInv, NetState
    <2>2. npc[n] # "idle" /\ npc[n] \in Writing
      BY <1>1 DEF Writing
    <2> QED  BY <1>1, <1>2, <2>1, <2>2, GoesOnHeld
  <1> QED  BY <1>3, <1>4

LEMMA Annotated ==
    ASSUME NetInv, NEW n \in Net, NEW x \in Namespace \cup {"", "absent"}, NEW call,
           npc[n] # "idle", AnnotateObject(n, x, call),
           call = "condReady" \/ (call = "get" /\ npc[n] \in Writing)
    PROVE  NetInv'
  <1>1. UNCHANGED <<nad, namespaces, moved, ops>>
    BY DEF AnnotateObject, Goto, NetError, bounds
  <1>2. queue' \subseteq Net
    BY QueueOfNets DEF AnnotateObject, Goto, NetError, NetInv, NetState
  <1>3. CASE mine[n].last # x /\ cr[n] = NoCR
    BY <1>1, <1>2, <1>3, NetReturns DEF AnnotateObject, NetError, NetInv, NetState
  <1>4. CASE ~(mine[n].last # x /\ cr[n] = NoCR)
    <2>1. /\ npc' = [npc EXCEPT ![n] = call] /\ UNCHANGED <<want, nfound>>
          /\ \/ UNCHANGED <<cr, mine>>
             \/ /\ cr[n] # NoCR
                /\ cr' = [cr EXCEPT ![n] = [cr[n] EXCEPT !.last = x]]
                /\ mine' = [mine EXCEPT ![n] = [cr[n] EXCEPT !.last = x]]
      BY <1>4 DEF AnnotateObject, Goto
    <2>2. /\ \A ns \in Namespace : nad'[ns] \in {nad[ns], NoNad}
          /\ DOMAIN nad' = Namespace /\ DOMAIN nfound' = Net
          /\ \A m \in Net \ {n} : nfound'[m] = nfound[m]
      BY <1>1, <2>1 DEF NetInv, NetState
    <2>3. /\ call \notin {"idle", "addFinalizer", "deleteNad", "update", "removeFinalizer"}
          /\ call \in Writing => npc[n] \in Writing
      BY DEF Writing
    <2> QED  BY <1>1, <1>2, <2>1, <2>2, <2>3, GoesOnHeld
  <1> QED  BY <1>3, <1>4

LEMMA LastAnnotated ==
    ASSUME NetInv, NEW n \in Net, ClearLastNamespace(n) \/ SetLastNamespace(n)
    PROVE  NetInv'
  <1>1. CASE ClearLastNamespace(n)
    BY <1>1, Annotated DEF ClearLastNamespace, Writing
  <1>2. CASE SetLastNamespace(n)
    <2>1. want[n].ns \in Namespace
      BY DEF NetInv, Work
    <2> QED  BY <1>2, <2>1, Annotated DEF SetLastNamespace
  <1> QED  BY <1>1, <1>2

LEMMA NadRead ==
    ASSUME NetInv, NEW n \in Net, GetNetAttDef(n)
    PROVE  NetInv'
  <1> DEFINE there == nad[want[n].ns]
  <1>1. PICK call : /\ npc' = [npc EXCEPT ![n] = call]
                    /\ call \in {"create", "condFalse", "update", "condReady"}
                    /\ call = "update" => there # NoNad /\ there.owner \in {n, "user"}
    <2> DEFINE next == IF there = NoNad
                       THEN IF want[n].ns \in namespaces THEN "create" ELSE "condFalse"
                       ELSE IF there.owner \notin {n, "user"} THEN "condFalse"
                       ELSE IF there.owner # n \/ there.config # want[n].config THEN "update"
                       ELSE "condReady"
    <2>1. npc' = [npc EXCEPT ![n] = next]
      BY DEF GetNetAttDef
    <2>2. next \in {"create", "condFalse", "update", "condReady"}
      OBVIOUS
    <2>3. next = "update" => there # NoNad /\ there.owner \in {n, "user"}
      OBVIOUS
    <2> HIDE DEF next
    <2> QED  BY <2>1, <2>2, <2>3
  <1>2. /\ npc[n] = "get" /\ UNCHANGED <<cr, nad, namespaces, mine, want, moved, ops>>
        /\ nfound' = [nfound EXCEPT ![n] = there]
    BY DEF GetNetAttDef, netObjects, bounds
  <1>3. queue' \subseteq Net
    BY QueueOfNets DEF GetNetAttDef, NetInv, NetState
  <1>4. /\ nfound'[n] = there /\ DOMAIN nfound' = Net /\ \A m \in Net \ {n} : nfound'[m] = nfound[m]
        /\ DOMAIN nad' = Namespace /\ \A ns \in Namespace : nad'[ns] \in {nad[ns], NoNad}
    BY <1>2 DEF NetInv, NetState
  <1>5. npc[n] # "idle" /\ npc[n] \in Writing
    BY <1>2 DEF Writing
  <1> QED  BY <1>1, <1>2, <1>3, <1>4, <1>5, GoesOnHeld, ZenonT(30)

LEMMA NadWriteKeeps ==
    ASSUME NetInv, NEW n \in Net, CreateNetAttDef(n) \/ UpdateNetAttDef(n)
    PROVE  NetInv'
  <1>1. /\ npc[n] \in {"create", "update"}
        /\ UNCHANGED <<cr, namespaces, mine, want, nfound, moved, ops>>
    BY DEF CreateNetAttDef, UpdateNetAttDef, Goto, bounds
  <1>2. queue' \subseteq Net
    BY QueueOfNets DEF CreateNetAttDef, UpdateNetAttDef, Goto, NetInv, NetState
  <1>3. PICK call \in {"setLast", "condReady", "condError"} : npc' = [npc EXCEPT ![n] = call]
    BY DEF CreateNetAttDef, UpdateNetAttDef, Goto
  <1>4. CASE UNCHANGED nad
    <2>1. /\ DOMAIN nfound' = Net /\ \A m \in Net \ {n} : nfound'[m] = nfound[m]
          /\ DOMAIN nad' = Namespace /\ \A ns \in Namespace : nad'[ns] \in {nad[ns], NoNad}
      BY <1>1, <1>4 DEF NetInv, NetState
    <2>2. npc[n] # "idle" /\ npc[n] \in Writing
      BY <1>1 DEF Writing
    <2> QED  BY <1>1, <1>2, <1>3, <1>4, <2>1, <2>2, GoesOnHeld
  <1>5. CASE nad' = [nad EXCEPT ![want[n].ns] = Written(n)]
    <2>1. /\ NadsInv'
          /\ \A m \in Net \ {n}, ns \in Namespace : Unref(m, ns)' => Unref(m, ns)
      BY <1>1, <1>5, NadWritten
    <2>2. /\ \A m \in Net \ {n} : UNCHANGED <<cr[m], npc[m], mine[m], want[m], nfound[m]>>
          /\ DOMAIN npc' = Net /\ DOMAIN nad' = Namespace /\ npc'[n] = call
      BY <1>1, <1>3, <1>5 DEF NetInv, NetState
    <2>3. OnlyNet(n)
      BY <1>1, <1>2, <2>2 DEF OnlyNet, NetInv, NetState
    <2>4. /\ cr'[n] = NoCR \/ Valid(cr[n])'
          /\ Valid(mine[n])' /\ want'[n].ns \in Namespace
      BY <1>1 DEF NetInv, Work, Valid
    <2>5. Work(n)'
      BY <2>2, <2>4 DEF Work, Writing
    <2> QED  BY <2>1, <2>3, <2>5, OneNetMoves
  <1> QED  BY <1>4, <1>5 DEF CreateNetAttDef, UpdateNetAttDef

LEMMA ConditionApplied ==
    ASSUME NetInv, NEW n \in Net, ApplyCondition(n)
    PROVE  NetInv'
  <1> DEFINE cond == [ready |-> IF npc[n] = "condReady" THEN "True" ELSE "False", spec |-> mine[n].spec]
  <1>1. /\ npc[n] \in {"condReady", "condFalse", "condInvalid", "condRender", "condError"}
        /\ UNCHANGED <<nad, namespaces, moved, ops>> /\ Reset(n)
        /\ \/ UNCHANGED cr
           \/ cr[n] # NoCR /\ cr' = [cr EXCEPT ![n].cond = cond]
    BY DEF ApplyCondition, NetError, Return, bounds
  <1>2. queue' \subseteq Net
    BY QueueOfNets DEF ApplyCondition, NetError, Return, NetInv, NetState
  <1>3. CASE UNCHANGED cr
    BY <1>1, <1>2, <1>3, NetReturns DEF NetInv, NetState
  <1>4. CASE cr[n] # NoCR /\ cr' = [cr EXCEPT ![n].cond = cond]
    <2>1. cr[n] \in CR /\ mine[n] \in CR
      BY <1>1, <1>4 DEF NetInv, Work, Valid
    <2>2. cond \in Condition
      BY <2>1 DEF CR, Condition
    <2> HIDE DEF cond
    <2>3. /\ cr'[n] = [cr[n] EXCEPT !.cond = cond] /\ DOMAIN cr' = Net
          /\ \A m \in Net \ {n} : cr'[m] = cr[m]
      BY <1>4 DEF NetInv, NetState
    <2>4. NoCR \notin CR
      BY NetworkAssumption
    <2>5. /\ cr'[n] \in CR /\ cr'[n].uid = cr[n].uid /\ cr'[n] # NoCR
          /\ cr'[n].finalizer = cr[n].finalizer /\ cr'[n].spec = cr[n].spec
      <3>1. /\ [cr[n] EXCEPT !.cond = cond] \in CR /\ [cr[n] EXCEPT !.cond = cond] # NoCR
            /\ [cr[n] EXCEPT !.cond = cond].uid = cr[n].uid
            /\ [cr[n] EXCEPT !.cond = cond].finalizer = cr[n].finalizer
            /\ [cr[n] EXCEPT !.cond = cond].spec = cr[n].spec
        BY <2>1, <2>2, <2>4 DEF CR
      <3> QED  BY <2>3, <3>1
    <2>6. DOMAIN nad' = Namespace /\ \A ns \in Namespace : nad'[ns] = nad[ns]
      BY <1>1 DEF NetInv, NetState
    <2> QED  BY <1>1, <1>2, <1>4, <2>3, <2>5, <2>6, NetReturns
  <1> QED  BY <1>1, <1>3, <1>4

LEMMA NadDeleted ==
    ASSUME NetInv, NEW n \in Net, DeleteNetAttDef(n)
    PROVE  NetInv'
  <1>1. /\ npc[n] = "deleteNad" /\ UNCHANGED <<cr, namespaces, mine, want, nfound, moved, ops>>
        /\ nad' = [nad EXCEPT ![want[n].ns] = NoNad]
        /\ npc' = [npc EXCEPT ![n] = "removeFinalizer"]
    BY DEF DeleteNetAttDef, Goto, bounds
  <1>2. queue' \subseteq Net
    BY QueueOfNets DEF DeleteNetAttDef, Goto, NetInv, NetState
  <1>3. /\ \A ns \in Namespace : nad'[ns] \in {nad[ns], NoNad}
        /\ DOMAIN nad' = Namespace /\ DOMAIN nfound' = Net
        /\ \A m \in Net \ {n} : nfound'[m] = nfound[m]
    BY <1>1 DEF NetInv, NetState
  <1>4. HeldNet(n) /\ want[n].ns \in Namespace
    BY <1>1 DEF NetInv, Work
  <1>5. nad'[want[n].ns] = NoNad
    BY <1>1, <1>4 DEF NetInv, NetState
  <1>6. ASSUME ~moved, NEW ns \in Namespace, Unref(n, ns)' PROVE FALSE
    <2>1. Unref(n, ns) /\ nad'[ns] # NoNad
      BY <1>3, <1>6 DEF Unref
    <2>2. ns = Target(n, cr[n].spec)
      BY <1>6, <2>1 DEF NetInv, NadsInv, Anchored
    <2>3. ns = want[n].ns
      BY <1>4, <1>6, <2>2 DEF HeldNet
    <2> QED  BY <1>5, <2>1, <2>3
  <1>7. "removeFinalizer" \notin Writing
    BY DEF Writing
  <1> QED  BY <1>1, <1>2, <1>3, <1>6, <1>7, GoesOnHeld

LEMMA FinalizerRemoved ==
    ASSUME NetInv, NEW n \in Net, RemoveNetFinalizer(n)
    PROVE  NetInv'
  <1>1. /\ npc[n] = "removeFinalizer" /\ Reset(n) /\ UNCHANGED <<nad, namespaces, moved, ops>>
        /\ UNCHANGED cr \/ cr' = [cr EXCEPT ![n] = NoCR]
    BY DEF RemoveNetFinalizer, NetError, Return, bounds
  <1>2. queue' \subseteq Net
    BY QueueOfNets DEF RemoveNetFinalizer, NetError, Return, NetInv, NetState
  <1>3. ~moved => \A ns \in Namespace : ~Unref(n, ns)
    BY <1>1 DEF NetInv, Work
  <1>4. /\ DOMAIN nad' = Namespace /\ \A ns \in Namespace : nad'[ns] = nad[ns]
        /\ DOMAIN cr' = Net /\ \A m \in Net \ {n} : cr'[m] = cr[m]
        /\ cr'[n] = cr[n] \/ cr'[n] = NoCR
    BY <1>1 DEF NetInv, NetState
  <1> QED  BY <1>1, <1>2, <1>3, <1>4, NetReturns

LEMMA ReconcileKeeps ==
    ASSUME NetInv, NEW n \in Net, StartReconcile(n) \/ ReconcileStep(n) \/ ReconcileFails(n)
    PROVE  NetInv'
  <1>1. CASE ReconcileFails(n)
    <2>1. queue' \subseteq Net
      BY <1>1, QueueOfNets DEF ReconcileFails, NetInv, NetState
    <2>2. Reset(n) /\ UNCHANGED <<cr, nad, namespaces, moved, ops>>
      BY <1>1 DEF ReconcileFails, netObjects
    <2> QED  BY <2>1, <2>2, NetReturns DEF NetInv, NetState
  <1> QED  BY <1>1, StartsWell, FinalizerAdded, OldNadDeleted, LastAnnotated, NadRead, NadWriteKeeps,
              ConditionApplied, NadDeleted, FinalizerRemoved DEF ReconcileStep

(* What users do: no local of a reconcile changes.                         *)
LEMMA UsersKeep ==
    ASSUME NetInv, UserDoes, NetState', NadsInv', moved => moved',
           \A m \in Net, ns \in Namespace : Unref(m, ns)' => Unref(m, ns),
           \A m \in Net : \/ cr'[m] = cr[m]
                          \/ /\ cr'[m] = NoCR \/ Valid(cr[m])'
                             /\ HeldNet(m) => HeldNet(m)'
    PROVE  NetInv'
  <1>1. ops \in Nat /\ ops' \in Nat /\ ops <= ops'
    BY OpsBounded, SMT DEF NetInv, UserDoes
  <1>2. UNCHANGED <<npc, mine, want, nfound>>
    BY DEF UserDoes, locals
  <1>3. ASSUME NEW m \in Net PROVE Work(m)'
    <2>1. Work(m)
      BY DEF NetInv
    <2>2. CASE cr'[m] = cr[m]
      BY <1>1, <1>2, <2>1, <2>2, WorkKept
    <2>3. CASE (cr'[m] = NoCR \/ Valid(cr[m])') /\ (HeldNet(m) => HeldNet(m)')
      <3>1. npc'[m] # "idle" => Valid(mine[m])'
        BY <1>1, <1>2, <2>1, LaterIsValid DEF Work, Valid
      <3>2. npc'[m] = "removeFinalizer" /\ ~moved' => \A ns \in Namespace : ~Unref(m, ns)'
        BY <1>2, <2>1 DEF Work
      <3> QED  BY <1>2, <2>1, <2>3, <3>1, <3>2 DEF Work
    <2> QED  BY <2>2, <2>3
  <1> QED  BY <1>3 DEF NetInv

LEMMA OpsCounted ==
    ASSUME NetState, UserDoes
    PROVE  ops' \in 0..MaxOps /\ ops' \in 1..ops' /\ ops \in Nat /\ ops <= ops'
  <1>1. ops \in Nat /\ MaxOps \in Nat
    BY OpsBounded
  <1> QED  BY <1>1, SMT DEF UserDoes

LEMMA UserEditsKeep ==
    ASSUME NetInv, NEW n \in Net, CreateNetwork(n) \/ EditNetwork(n) \/ DeleteNetwork(n)
    PROVE  NetInv'
  <1>1. UserDoes /\ UNCHANGED <<nad, namespaces>>
    BY DEF CreateNetwork, EditNetwork, DeleteNetwork
  <1>2. queue' \subseteq Net
    BY QueueOfNets DEF CreateNetwork, EditNetwork, DeleteNetwork, NetInv, NetState
  <1>3. moved' \in BOOLEAN /\ (moved => moved')
    BY DEF CreateNetwork, EditNetwork, DeleteNetwork, NetInv, NetState
  <1>4. DOMAIN cr' = Net /\ \A m \in Net \ {n} : cr'[m] = cr[m]
    BY DEF CreateNetwork, EditNetwork, DeleteNetwork, NetInv, NetState
  <1>5. NetState'
    BY <1>1, <1>2, <1>3, <1>4, OpsCounted DEF NetInv, NetState, UserDoes, locals
  <1>6. \A ns \in Namespace : Unref(n, ns) => moved \/ (cr[n] # NoCR /\ cr[n].finalizer)
    BY DEF NetInv, NadsInv, Anchored
  <1>7. cr[n] = NoCR \/ (cr[n] \in CR /\ cr[n].uid \in 1..ops)
    BY DEF NetInv, Work, Valid
  <1>8. NoCR \notin CR
    BY NetworkAssumption
  <1>9. /\ \/ cr'[n] = NoCR
           \/ Valid(cr[n])'
        /\ \/ ~(cr[n] # NoCR /\ cr[n].finalizer)
           \/ /\ cr'[n] # NoCR /\ cr'[n].finalizer
              /\ moved' \/ Target(n, cr'[n].spec) = Target(n, cr[n].spec)
    <2>1. CASE CreateNetwork(n)
      <3>1. PICK s \in NetSpec :
               cr' = [cr EXCEPT ![n] = [spec |-> s, uid |-> ops + 1, deleting |-> FALSE,
                                   finalizer |-> FALSE, last |-> "absent",
                                   cond |-> [ready |-> "Unknown", spec |-> s]]]
        BY <2>1 DEF CreateNetwork
      <3>2. ops' \in 1..ops' /\ ops' = ops + 1 /\ ops' \in Nat
        BY <1>1, OpsCounted, OpsBounded, SMT DEF NetInv, UserDoes
      <3>3. cr'[n] \in CR /\ cr'[n].uid = ops'
        BY <3>1, <3>2 DEF CR, Condition, NetInv, NetState
      <3> QED  BY <2>1, <3>2, <3>3 DEF Valid, CreateNetwork
    <2>2. CASE EditNetwork(n)
      <3>1. PICK s \in NetSpec : /\ cr' = [cr EXCEPT ![n].spec = s]
                                 /\ moved' = (moved \/ Target(n, s) # Target(n, cr[n].spec))
        BY <2>2 DEF EditNetwork
      <3>2. cr[n] # NoCR /\ cr[n] \in CR /\ cr[n].uid \in 1..ops'
        BY <1>1, <1>5, <1>7, <2>2, LaterIsValid, OpsCounted, OpsBounded, SMTT(30) DEF EditNetwork, NetInv
      <3>3. cr'[n] = [cr[n] EXCEPT !.spec = s]
        BY <3>1 DEF NetInv, NetState
      <3>4. /\ [cr[n] EXCEPT !.spec = s] \in CR /\ [cr[n] EXCEPT !.spec = s].spec = s
            /\ [cr[n] EXCEPT !.spec = s].uid = cr[n].uid
            /\ [cr[n] EXCEPT !.spec = s].finalizer = cr[n].finalizer
        BY <3>2 DEF CR
      <3>5. moved' \/ Target(n, s) = Target(n, cr[n].spec)
        BY <3>1
      <3> QED  BY <1>8, <3>2, <3>3, <3>4, <3>5 DEF Valid
    <2>3. CASE DeleteNetwork(n)
      <3>1. cr[n] # NoCR /\ cr[n] \in CR /\ cr[n].uid \in 1..ops'
        BY <1>1, <1>5, <1>7, <2>3, LaterIsValid, OpsCounted, OpsBounded, SMTT(30) DEF DeleteNetwork, NetInv
      <3>2. cr'[n] = IF cr[n].finalizer THEN [cr[n] EXCEPT !.deleting = TRUE] ELSE NoCR
        BY <2>3 DEF DeleteNetwork, NetInv, NetState
      <3>3. /\ [cr[n] EXCEPT !.deleting = TRUE] \in CR
            /\ [cr[n] EXCEPT !.deleting = TRUE].spec = cr[n].spec
            /\ [cr[n] EXCEPT !.deleting = TRUE].uid = cr[n].uid
            /\ [cr[n] EXCEPT !.deleting = TRUE].finalizer = cr[n].finalizer
        BY <3>1 DEF CR
      <3> QED  BY <1>8, <3>1, <3>2, <3>3 DEF Valid
    <2> QED  BY <2>1, <2>2, <2>3
  <1>10. HeldNet(n) => HeldNet(n)'
    BY <1>1, <1>3, <1>9 DEF HeldNet, UserDoes, locals
  <1>11. NadsInv'
    <2>1. \/ moved' \/ cr'[n] = cr[n]
          \/ \A ns \in Namespace : ~Unref(n, ns)
          \/ /\ cr'[n] # NoCR /\ (cr[n].finalizer => cr'[n].finalizer)
             /\ Target(n, cr'[n].spec) = Target(n, cr[n].spec)
      BY <1>3, <1>6, <1>9
    <2>2. \A ns \in Namespace : nad'[ns] \in {nad[ns], NoNad}
      BY <1>1
    <2> QED  BY <1>3, <1>4, <2>1, <2>2, NadsKept DEF NetInv
  <1>12. \A m \in Net, ns \in Namespace : Unref(m, ns)' => Unref(m, ns)
    BY <1>1 DEF Unref
  <1>13. \A m \in Net : \/ cr'[m] = cr[m]
                        \/ /\ cr'[m] = NoCR \/ Valid(cr[m])'
                           /\ HeldNet(m) => HeldNet(m)'
    BY <1>4, <1>9, <1>10
  <1> QED  BY <1>1, <1>3, <1>5, <1>11, <1>12, <1>13, UsersKeep

LEMMA ClusterKeeps ==
    ASSUME NetInv, NEW ns \in Namespace, CreateNamespace(ns) \/ UserWritesNad(ns) \/ GarbageCollectNad(ns)
    PROVE  NetInv'
  <1>1. UNCHANGED <<cr, npc, mine, want, nfound, moved>>
    BY DEF CreateNamespace, UserWritesNad, GarbageCollectNad, UserDoes, locals, bounds
  <1>2. queue' \subseteq Net
    BY QueueOfNets DEF CreateNamespace, UserWritesNad, GarbageCollectNad, NetInv, NetState
  <1>3. DOMAIN nad' = Namespace /\ namespaces' \subseteq Namespace
    BY DEF CreateNamespace, UserWritesNad, GarbageCollectNad, NetInv, NetState
  <1>4. ops' \in 0..MaxOps /\ ops \in Nat /\ ops' \in Nat /\ ops <= ops'
    <2>1. CASE GarbageCollectNad(ns)
      <3>1. ops' = ops
        BY <2>1 DEF GarbageCollectNad, bounds
      <3> QED  BY <3>1, OpsBounded, SMT DEF NetInv, NetState
    <2>2. CASE CreateNamespace(ns) \/ UserWritesNad(ns)
      <3>1. UserDoes
        BY <2>2 DEF CreateNamespace, UserWritesNad
      <3> QED  BY <3>1, OpsCounted, SMT DEF NetInv
    <2> QED  BY <2>1, <2>2
  <1>5. NetState'
    BY <1>1, <1>2, <1>3, <1>4 DEF NetInv, NetState
  <1>6. PICK user : user = [owner |-> "user", config |-> <<>>, ref |-> 0]
    OBVIOUS
  <1>7. /\ user.owner = "user" /\ NadOK(user)
    <2>1. user.owner = "user" /\ user.ref = 0 /\ user.config = <<>>
      BY <1>6
    <2>2. DOMAIN user.config = {}
      BY <2>1, SMT
    <2>3. 0 \in 0..MaxOps
      BY OpsBounded, SMT DEF NetInv
    <2> QED  BY <2>1, <2>2, <2>3 DEF NadOK
  <1>8. \A x \in Namespace : nad'[x] \in {nad[x], NoNad, user}
    BY <1>6 DEF CreateNamespace, UserWritesNad, GarbageCollectNad, NetInv, NetState
  <1>9. \A m \in Net, x \in Namespace : Unref(m, x)' => Unref(m, x)
    <2>1. "user" \notin Net
      BY NetworkAssumption
    <2> QED  BY <1>7, <1>8, <2>1 DEF Unref
  <1>10. NadsInv'
    <2>1. \A x \in Namespace : nad'[x] # NoNad => NadOK(nad'[x])
      BY <1>7, <1>8 DEF NetInv, NadsInv
    <2>2. \A m \in Net, x \in Namespace : Anchored(m, x) => Anchored(m, x)'
      BY <1>1 DEF Anchored
    <2> QED  BY <1>1, <1>9, <2>1, <2>2 DEF NetInv, NadsInv
  <1>11. ASSUME NEW m \in Net PROVE Work(m)'
    BY <1>1, <1>4, <1>9, WorkKept DEF NetInv
  <1> QED  BY <1>5, <1>10, <1>11 DEF NetInv

(* NetInv holds in every state of the network controllers.                 *)
THEOREM NetworkSafety == NetworkSpec => []NetInv
  <1>1. NetworkInit => NetInv
    <2> SUFFICES ASSUME NetworkInit PROVE NetInv
      OBVIOUS
    <2>1. NoWant.ns \in Namespace
      BY NetworkAssumption DEF NoWant
    <2>2. 0 \in 0..MaxOps
      <3>1. MaxOps \in Nat
        BY NetworkAssumption
      <3> QED  BY <3>1, SMT
    <2>6. {OperatorNs} \cup {Home[n] : n \in Net} \subseteq Namespace
      <3>1. OperatorNs \in Namespace /\ Home \in [Net -> Namespace]
        BY NetworkAssumption
      <3> QED  BY <3>1
    <2>3. NetState
      BY <2>2, <2>6 DEF NetworkInit, NetState
    <2>4. NadsInv
      BY DEF NetworkInit, NadsInv, Unref
    <2>5. \A n \in Net : Work(n)
      BY <2>1 DEF NetworkInit, Work, Writing
    <2> QED  BY <2>3, <2>4, <2>5 DEF NetInv
  <1>2. NetInv /\ [NetworkNext]_netVars => NetInv'
    <2> SUFFICES ASSUME NetInv, [NetworkNext]_netVars PROVE NetInv'
      OBVIOUS
    <2>1. CASE NetworkNext
      BY <2>1, ReconcileKeeps, UserEditsKeep, ClusterKeeps DEF NetworkNext
    <2>2. CASE UNCHANGED netVars
      <3>1. UNCHANGED <<cr, nad, namespaces, queue, npc, mine, want, nfound, moved, ops>>
        BY <2>2 DEF netVars, netObjects, locals, bounds
      <3>2. NetState' /\ NadsInv'
        BY <3>1 DEF NetInv, NetState, NadsInv, Unref, Anchored
      <3>3. ops \in Nat /\ ops' \in Nat /\ ops <= ops'
        BY <3>1, OpsBounded, SMT DEF NetInv
      <3>4. \A m \in Net, ns \in Namespace : Unref(m, ns)' => Unref(m, ns)
        BY <3>1 DEF Unref
      <3>5. ASSUME NEW m \in Net PROVE Work(m)'
        BY <3>1, <3>3, <3>4, WorkKept DEF NetInv
      <3> QED  BY <3>2, <3>5 DEF NetInv
    <2> QED  BY <2>1, <2>2
  <1> QED  BY <1>1, <1>2, PTL DEF NetworkSpec

(* A NAD outside the namespace of its network is never left behind: as     *)
(* long as it exists the network's finalizer does, unless a user moved the *)
(* network to another namespace. Any number of networks, namespaces, users *)
(* and failures.                                                           *)
THEOREM NadsHeld == NetworkSpec => []KeptByFinalizer
  <1>1. NetInv => KeptByFinalizer
    <2> SUFFICES ASSUME NetInv PROVE KeptByFinalizer
      OBVIOUS
    <2>1. \A n \in Net : cr[n] = NoCR \/ cr[n] \in CR
      BY DEF NetInv, Work, Valid
    <2>2. \A n \in Net : npc[n] # "idle" => mine[n] # NoCR
      BY NetworkAssumption DEF NetInv, Work, Valid
    <2>3. NetworkTypeOK
      BY <2>1, <2>2 DEF NetInv, NetState, NadsInv, NetworkTypeOK
    <2>4. ASSUME ~moved, NEW ns \in Namespace, Orphan(ns) PROVE FALSE
      <3>1. Unref(nad[ns].owner, ns) /\ nad[ns].owner \in Net
        BY <2>4 DEF Orphan, Unref
      <3>2. Anchored(nad[ns].owner, ns)
        BY <2>4, <3>1 DEF NetInv, NadsInv
      <3> QED  BY <2>4, <3>2 DEF Orphan, Anchored
    <2> QED  BY <2>3, <2>4 DEF KeptByFinalizer
  <1> QED  BY <1>1, NetworkSafety, PTL

(* A NAD that one network owns never becomes another network's: an update  *)
(* goes to the version that was read, and a create finds nothing.          *)
THEOREM NadsNotOverridden == NetworkSpec => NeverOverridesForeign
  <1> DEFINE Keeps == \A ns \in Namespace :
                        nad[ns] # NoNad /\ nad'[ns] # NoNad /\ nad[ns].owner \in Net
                            => nad'[ns].owner = nad[ns].owner
  <1>1. NetInv /\ [NetworkNext]_netVars => [Keeps]_netVars
    <2> SUFFICES ASSUME NetInv, NetworkNext PROVE Keeps
      OBVIOUS
    <2>1. ASSUME NEW n \in Net, CreateNetAttDef(n) \/ UpdateNetAttDef(n), ~UNCHANGED nad PROVE Keeps
      <3>1. /\ nad' = [nad EXCEPT ![want[n].ns] = Written(n)]
            /\ nad[want[n].ns] = NoNad \/ (npc[n] = "update" /\ nad[want[n].ns] = nfound[n])
        BY <2>1 DEF CreateNetAttDef, UpdateNetAttDef
      <3>2. nad[want[n].ns] = NoNad \/ nad[want[n].ns].owner \in {n, "user"}
        BY <3>1 DEF NetInv, Work
      <3>3. "user" \notin Net /\ Written(n).owner = n
        BY NetworkAssumption DEF Written
      <3>4. /\ want[n].ns \in Namespace /\ nad'[want[n].ns] = Written(n)
            /\ \A ns \in Namespace \ {want[n].ns} : nad'[ns] = nad[ns]
        BY <3>1 DEF NetInv, NetState, Work
      <3> QED  BY <3>2, <3>3, <3>4
    <2>2. ASSUME \A ns \in Namespace : nad'[ns] = nad[ns] \/ nad'[ns] = NoNad \/ nad[ns] = NoNad
          PROVE  Keeps
      BY <2>2
    <2>3. ASSUME NEW n \in Net, \/ StartReconcile(n) \/ ReconcileFails(n) \/ UpdateFinalizers(n)
                                \/ ClearLastNamespace(n) \/ SetLastNamespace(n) \/ GetNetAttDef(n)
                                \/ ApplyCondition(n) \/ RemoveNetFinalizer(n)
                                \/ CreateNetwork(n) \/ EditNetwork(n) \/ DeleteNetwork(n)
          PROVE  UNCHANGED nad
      BY <2>3 DEF StartReconcile, ReconcileFails, UpdateFinalizers, ClearLastNamespace, SetLastNamespace,
                  AnnotateObject, GetNetAttDef, ApplyCondition, RemoveNetFinalizer, CreateNetwork,
                  EditNetwork, DeleteNetwork, netObjects
    <2>4. ASSUME NEW n \in Net, DeleteOldNad(n) \/ DeleteNetAttDef(n) PROVE Keeps
      BY <2>2, <2>4 DEF DeleteOldNad, DeleteNetAttDef, NetInv, NetState
    <2>5. ASSUME NEW ns \in Namespace, CreateNamespace(ns) \/ UserWritesNad(ns) \/ GarbageCollectNad(ns)
          PROVE  Keeps
      BY <2>2, <2>5 DEF CreateNamespace, UserWritesNad, GarbageCollectNad, NetInv, NetState
    <2> QED  BY <2>1, <2>2, <2>3, <2>4, <2>5 DEF NetworkNext, ReconcileStep
  <1> QED  BY <1>1, NetworkSafety, PTL DEF NetworkSpec, NeverOverridesForeign
=============================================================================
