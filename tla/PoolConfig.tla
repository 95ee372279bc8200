------------------------------ MODULE PoolConfig ------------------------------
(* SriovNetworkPoolConfigReconciler, next to the operator config controller *)
(* of the same process: the MachineConfig that turns on OVS hardware        *)
(* offload in the MachineConfigPool a SriovNetworkPoolConfig names, behind  *)
(* a finalizer. The two controllers share the kind of cluster and nothing   *)
(* else.                                                                    *)
EXTENDS OperatorConfig

CONSTANTS
    Mcp,            \* MachineConfigPools of the cluster ("master" is one too)
    PoolName,       \* names users give, "" for none, some not in Mcp
    OvsConfig,      \* values of ovsConfig; "unsafe" does not render
    NoPool,
    Budgets         \* events for the operator config and for the pool

Pool == [name : PoolName, conf : OvsConfig, deleting : BOOLEAN, fin : BOOLEAN]

ASSUME PoolAssumption == NoPool \notin Pool

VARIABLES
    pool,           \* the SriovNetworkPoolConfig
    mcs,            \* offload MachineConfig of each pool, "" if absent
    poolQueued, ppc, psnap, pfound,
    poolLeft,       \* events left
    renamed         \* its name was changed while it had the finalizer

poolWorker == <<ppc, psnap, pfound>>
poolVars == <<pool, mcs, poolQueued, poolWorker, poolLeft, renamed>>

PoolInit ==
    /\ pool = NoPool /\ mcs = [p \in Mcp |-> ""] /\ poolQueued = FALSE
    /\ ppc = "idle" /\ psnap = NoPool /\ pfound = "" /\ renamed = FALSE

PoolIdle == ppc' = "idle" /\ psnap' = NoPool /\ pfound' = ""
PoolError == PoolIdle /\ poolQueued' = TRUE
PoolElsewhere == UNCHANGED <<poolLeft, renamed, opVars>>

(* Nothing is done for a pool without an offload name.                      *)
UsesOffload(p) == p.name # ""
PoolGet ==
    /\ ppc = "idle" /\ poolQueued /\ poolQueued' = FALSE
    /\ IF pool = NoPool THEN UNCHANGED poolWorker
       ELSE IF ~UsesOffload(pool) THEN UNCHANGED poolWorker
       ELSE psnap' = pool /\ ppc' = "finalizer" /\ UNCHANGED pfound
    /\ UNCHANGED <<pool, mcs>> /\ PoolElsewhere

(* The finalizer is added at the version that was read.                     *)
PoolFinalizer ==
    /\ ppc = "finalizer"
    /\ \/ /\ psnap.deleting \/ psnap.fin
          /\ ppc' = "sync" /\ UNCHANGED <<pool, psnap, pfound, poolQueued>>
       \/ /\ ~psnap.deleting /\ ~psnap.fin /\ pool = psnap
          /\ pool' = [pool EXCEPT !.fin = TRUE] /\ psnap' = pool' /\ ppc' = "sync"
          /\ UNCHANGED <<pfound, poolQueued>>
       \/ /\ ~psnap.deleting /\ ~psnap.fin /\ pool # psnap
          /\ PoolError /\ UNCHANGED pool
    /\ UNCHANGED mcs /\ PoolElsewhere

(* syncOvsHardwareOffloadMachineConfigs: master is left alone, an unknown   *)
(* pool and options that do not render are errors; then the MachineConfig   *)
(* is read and written.                                                     *)
SyncOffload ==
    /\ ppc = "sync"
    /\ LET skip == ~Openshift \/ Hypershift \/ psnap.name = "master"
           bad == psnap.name \notin Mcp \/ psnap.conf = "unsafe"
       IN
       \/ skip /\ ppc' = "done" /\ UNCHANGED <<psnap, pfound, poolQueued>>
       \/ ~skip /\ bad /\ PoolError
       \/ /\ ~skip /\ ~bad
          /\ pfound' = mcs[psnap.name] /\ ppc' = "write" /\ UNCHANGED <<psnap, poolQueued>>
    /\ UNCHANGED <<pool, mcs>> /\ PoolElsewhere
OffloadAlways(p) == p.conf           \* a slip: deletion forgotten
Offload(p) == IF p.deleting THEN "" ELSE p.conf
WriteOffload ==
    /\ ppc = "write"
    /\ LET m == psnap.name IN
       \/ /\ pfound = Offload(psnap)                \* nothing to do
          /\ ppc' = "done" /\ UNCHANGED <<mcs, psnap, pfound, poolQueued>>
       \/ /\ pfound # Offload(psnap) /\ mcs[m] = pfound
          /\ mcs' = [mcs EXCEPT ![m] = Offload(psnap)]
          /\ ppc' = "done" /\ UNCHANGED <<psnap, pfound, poolQueued>>
       \/ /\ pfound # Offload(psnap) /\ mcs[m] # pfound
          /\ PoolError /\ UNCHANGED mcs
    /\ UNCHANGED pool /\ PoolElsewhere
PoolDone ==
    /\ ppc = "done"
    /\ \/ ~psnap.deleting /\ PoolIdle /\ UNCHANGED <<pool, poolQueued>>
       \/ psnap.deleting /\ pool = psnap /\ pool' = NoPool /\ PoolIdle /\ UNCHANGED poolQueued
       \/ psnap.deleting /\ pool # psnap /\ PoolError /\ UNCHANGED pool
    /\ UNCHANGED mcs /\ PoolElsewhere

PoolStep == PoolGet \/ PoolFinalizer \/ SyncOffload \/ WriteOffload \/ PoolDone
PoolRequeue ==      \* RequeueAfter
    /\ ppc = "idle" /\ ~poolQueued /\ pool # NoPool
    /\ pool.name # "" /\ ~pool.deleting /\ poolQueued' = TRUE
    /\ UNCHANGED <<pool, mcs, poolWorker>> /\ PoolElsewhere

PoolEvent == poolLeft > 0 /\ poolLeft' = poolLeft - 1 /\ UNCHANGED opVars
CreatePool(n, c) ==
    /\ PoolEvent /\ pool = NoPool
    /\ pool' = [name |-> n, conf |-> c, deleting |-> FALSE, fin |-> FALSE]
    /\ poolQueued' = TRUE /\ UNCHANGED <<mcs, poolWorker, renamed>>
EditPool(n, c) ==
    /\ PoolEvent /\ pool # NoPool
    /\ pool' = [pool EXCEPT !.name = n, !.conf = c] /\ pool' # pool
    /\ renamed' = (renamed \/ n # pool.name)
    /\ poolQueued' = TRUE /\ UNCHANGED <<mcs, poolWorker>>
DeletePool ==
    /\ PoolEvent /\ pool # NoPool
    /\ pool' = IF pool.fin THEN [pool EXCEPT !.deleting = TRUE] ELSE NoPool
    /\ pool' # pool
    /\ poolQueued' = TRUE /\ UNCHANGED <<mcs, poolWorker, renamed>>
RemoveMC(m) ==
    /\ PoolEvent /\ mcs[m] # "" /\ mcs' = [mcs EXCEPT ![m] = ""]
    /\ UNCHANGED <<pool, poolQueued, poolWorker, renamed>>
PoolFail ==
    /\ PoolEvent /\ ppc # "idle" /\ PoolError /\ UNCHANGED <<pool, mcs, renamed>>

PoolNext ==
    \/ PoolStep \/ PoolRequeue \/ DeletePool \/ PoolFail
    \/ \E n \in PoolName, c \in OvsConfig : CreatePool(n, c) \/ EditPool(n, c)
    \/ \E m \in Mcp : RemoveMC(m)

(* The two controllers of one process.                                      *)
ControllersInit ==
    OperatorInit /\ PoolInit /\ \E b \in Budgets : left = b[1] /\ poolLeft = b[2]
ControllersNext ==
    \/ OperatorNext /\ UNCHANGED poolVars
    \/ PoolNext
ControllersFairness ==
    OperatorFairness /\ WF_poolVars(PoolStep) /\ WF_poolVars(PoolRequeue)
ControllersSpec ==
    ControllersInit /\ [][ControllersNext]_<<opVars, poolVars>> /\ ControllersFairness

-----------------------------------------------------------------------------
(* Safety. A pool that is gone has left no MachineConfig behind, unless its *)
(* name was changed meanwhile (only the current name's is removed): the     *)
(* finalizer goes last, whatever failed or was edited before.               *)
NoOrphanMachineConfig ==
    pool = NoPool /\ ~renamed => \A m \in Mcp : mcs[m] = ""

(* Liveness. Once users and failures are done, a pool that names a pool of  *)
(* the cluster and whose options render is as its spec says: its            *)
(* MachineConfig has them, or it is gone if it was deleted.                 *)
Served == pool.name \in Mcp /\ pool.conf # "unsafe"
PoolSettled ==
    IF pool = NoPool THEN TRUE
    ELSE Served => ~pool.deleting /\ pool.fin
                   /\ (flavor = "openshift" /\ pool.name # "master" => mcs[pool.name] = pool.conf)
PoolSettles == <>[]PoolSettled

(* What the comment on the early return takes for granted: a pool that does *)
(* not name a MachineConfigPool has no finalizer to wait for, so a deleted  *)
(* pool without a name goes away.                                           *)
NamelessPoolGoes == <>[](pool = NoPool \/ ~(pool.deleting /\ pool.name = ""))
=============================================================================
