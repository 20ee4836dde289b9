--------------------------- MODULE PoolController ---------------------------
(***************************************************************************)
(* The reconciler of one RunnerPool name                                   *)
(* (controllers/runnerpool_controller.go) with the processes it starts and *)
(* stops: the update process of SecretUpdater, whole, and the manage       *)
(* process of RunnerManager, here only as what it was started for.  The    *)
(* pool can be edited, deleted and created again under the same name; the  *)
(* reconciler sees it through a cache.  The API server, its garbage        *)
(* collector and the work queue are external.                              *)
(***************************************************************************)
EXTENDS SecretUpdater

CONSTANTS
    MaxEdits   \* bound: how often the spec of a pool is written

ASSUME EditsAssumption == MaxEdits \in Nat \ {0}

VARIABLES
    pool,         \* the RunnerPool
    cachedPool,   \* the RunnerPool in the informer cache
    queued,       \* the name is in the work queue
    rpc,          \* the reconciler: its next step
    rp,           \* the RunnerPool it has read
    secretOwner,  \* the uid of the pool the Secret belongs to
    depl,         \* the Deployment: uid of its pool (0: there is none), spec, repository
    mgr,          \* the manage process, likewise
    updaterUid    \* the pool the update process was started for

poolVars == <<pool, cachedPool, queued>>
recVars  == <<rpc, rp>>
children == <<secretOwner, depl, mgr, updaterUid>>
ctlVars  == <<vars, poolVars, recVars, children>>

\* A spec is the number of the write that made it, a uid that of the write that created
\* the pool, a repository that of the write that brought it in; an absent pool keeps them.
NoPool  == [phase |-> "absent", uid |-> 0, spec |-> 0, repo |-> 0, bound |-> FALSE]
Nothing == [uid |-> 0, spec |-> 0, repo |-> 0]
Child   == [uid |-> rp.uid, spec |-> rp.spec, repo |-> rp.repo]

CtlInit ==
    /\ Init
    /\ pool = NoPool /\ cachedPool = NoPool /\ queued = FALSE
    /\ rpc = "idle" /\ rp = NoPool
    /\ secretOwner = 0 /\ depl = Nothing /\ mgr = Nothing /\ updaterUid = 0

-----------------------------------------------------------------------------
(* Users, caches and the garbage collector.                                *)

WritePool(p) ==
    /\ pool' = p
    /\ UNCHANGED <<vars, cachedPool, queued, recVars, children>>

\* The mutating webhook adds the finalizer to every pool that is created.
CreatePool ==
    /\ pool.phase = "absent" /\ pool.spec < MaxEdits
    /\ LET n == pool.spec + 1
       IN  WritePool([phase |-> "live", uid |-> n, spec |-> n, repo |-> n, bound |-> FALSE])

\* Mutant: the webhook lets the repository change.
validateNothing(new, old) == TRUE

\* The validating webhook refuses an update of the repository or the organization.
validateUpdate(new, old) == new.repo = old.repo

EditPool ==
    /\ pool.phase # "absent" /\ pool.spec < MaxEdits
    /\ \E repo \in {pool.repo, pool.spec + 1} :
          LET new == [pool EXCEPT !.spec = @ + 1, !.repo = repo]
          IN  validateUpdate(new, pool) /\ WritePool(new)

\* The finalizer holds a deleted pool back.
DeletePool ==
    /\ pool.phase = "live"
    /\ WritePool([pool EXCEPT !.phase = "deleting"])

\* Every change of the pool, and every change of a Secret it owns, is an event.
PoolCacheSyncs ==
    /\ cachedPool # pool
    /\ cachedPool' = pool /\ queued' = TRUE
    /\ UNCHANGED <<vars, pool, recVars, children>>

\* Mutant: the Secrets of the pool are not watched.
SecretUnwatched ==
    /\ SecretCacheSyncs
    /\ UNCHANGED <<poolVars, recVars, children>>

SecretEvent ==
    /\ SecretCacheSyncs
    /\ queued' = TRUE
    /\ UNCHANGED <<pool, cachedPool, recVars, children>>

Orphaned(uid) == uid # pool.uid \/ pool.phase = "absent"

CollectSecret ==
    /\ Orphaned(secretOwner)
    /\ DeleteSecret
    /\ UNCHANGED <<faults, poolVars, recVars, children>>

CollectDeployment ==
    /\ depl # Nothing /\ Orphaned(depl.uid)
    /\ depl' = Nothing
    /\ UNCHANGED <<vars, poolVars, recVars, secretOwner, mgr, updaterUid>>

UserDeletesSecret ==
    /\ DeleteSecret /\ Fault
    /\ UNCHANGED <<poolVars, recVars, children>>

-----------------------------------------------------------------------------
(* Reconcile.                                                              *)

Return     == rpc' = "idle" /\ rp' = NoPool
Requeue    == Return /\ queued' = TRUE
Goto(next) == rpc' = next /\ UNCHANGED <<rp, queued>>

ReadPool ==
    /\ rpc = "idle" /\ queued
    /\ queued' = FALSE
    /\ \/ cachedPool.phase = "absent" /\ UNCHANGED recVars
       \/ cachedPool.phase = "deleting" /\ rp' = cachedPool /\ rpc' = "stopManager"
       \/ cachedPool.phase = "live" /\ rp' = cachedPool /\ rpc' = "secret"
    /\ UNCHANGED <<vars, pool, cachedPool, children>>

\* Mutant: an error is logged and the name is not queued again.
StepGivesUp ==
    /\ rpc # "idle" /\ Fault
    /\ Return /\ UNCHANGED queued
    /\ UNCHANGED <<clock, secret, cached, updaterVars, interrupted, pool, cachedPool, children>>

\* Any step can return an error: the validation of the pool, its credential, the API.
StepFails ==
    /\ rpc # "idle" /\ Fault
    /\ Requeue
    /\ UNCHANGED <<clock, secret, cached, updaterVars, interrupted, pool, cachedPool, children>>

\* The Secret is annotated: go on.  It is not, or does not exist: it is created, and
\* the next step is the last one.
ReconcileSecret ==
    /\ rpc = "secret"
    /\ \/ /\ cached.exists
          /\ Goto(IF Annotated(cached) THEN "updater" ELSE "updaterOnly")
          /\ UNCHANGED <<vars, secretOwner>>
       \/ /\ ~cached.exists
          /\ CreateSecret
          /\ secretOwner' = rp.uid
          /\ Goto("updaterOnly")
       \/ /\ ~cached.exists /\ secret.exists
          /\ Requeue
          /\ UNCHANGED <<vars, secretOwner>>
    /\ UNCHANGED <<pool, cachedPool, depl, mgr, updaterUid>>

StartSecretUpdater ==
    /\ rpc \in {"updater", "updaterOnly"}
    /\ \/ StartUpdater /\ updaterUid' = rp.uid
       \/ upc # "none" /\ UNCHANGED <<vars, updaterUid>>
    /\ IF rpc = "updater" THEN Goto("deployment") ELSE Requeue
    /\ UNCHANGED <<pool, cachedPool, secretOwner, depl, mgr>>

\* CreateOrUpdate: a Deployment that is there already changes its owner.
ReconcileDeployment ==
    /\ rpc = "deployment"
    /\ depl' = Child
    /\ Goto("manager")
    /\ UNCHANGED <<vars, pool, cachedPool, secretOwner, mgr, updaterUid>>

\* Mutants: a process that is there is left alone; the spec is not the one the Deployment
\* was made from.
StartManagerOnly ==
    /\ rpc = "manager"
    /\ mgr' = IF mgr = Nothing THEN Child ELSE mgr
    /\ Goto("status")
    /\ UNCHANGED <<vars, pool, cachedPool, secretOwner, depl, updaterUid>>

UpdateManagerFromPool ==
    /\ rpc = "manager"
    /\ mgr' = [Child EXCEPT !.spec = pool.spec]
    /\ Goto("status")
    /\ UNCHANGED <<vars, pool, cachedPool, secretOwner, depl, updaterUid>>

\* A process that is there already takes over the spec; its repository is that of its
\* start.
StartOrUpdateManager ==
    /\ rpc = "manager"
    /\ mgr' = IF mgr = Nothing THEN Child ELSE [mgr EXCEPT !.spec = rp.spec]
    /\ Goto("status")
    /\ UNCHANGED <<vars, pool, cachedPool, secretOwner, depl, updaterUid>>

\* Writes of the pool carry the resource version that was read.
UpdateStatus ==
    /\ rpc = "status"
    /\ \/ rp = pool /\ pool' = [pool EXCEPT !.bound = TRUE] /\ Return /\ UNCHANGED queued
       \/ rp # pool /\ Requeue /\ UNCHANGED pool
    /\ UNCHANGED <<vars, cachedPool, children>>

\* Finalizing: Stop of the manager returns when its process has ended.
StopManager ==
    /\ rpc = "stopManager"
    /\ mgr' = Nothing
    /\ Goto("stopUpdater")
    /\ UNCHANGED <<vars, pool, cachedPool, secretOwner, depl, updaterUid>>

\* Mutant: Stop cancels the process and does not wait.
CancelSecretUpdater ==
    /\ rpc = "stopUpdater"
    /\ \/ CancelUpdater
       \/ (upc = "none" \/ stopping) /\ UNCHANGED vars
    /\ Goto("finalizer")
    /\ UNCHANGED <<pool, cachedPool, children>>

StopSecretUpdater ==
    /\ rpc = "stopUpdater"
    /\ \/ CancelUpdater /\ UNCHANGED <<queued, recVars>>
       \/ upc = "none" /\ Goto("finalizer") /\ UNCHANGED vars
    /\ UNCHANGED <<pool, cachedPool, children>>

RemoveFinalizer ==
    /\ rpc = "finalizer"
    /\ \/ /\ rp = pool
          /\ pool' = [pool EXCEPT !.phase = "absent", !.bound = FALSE]
          /\ Return /\ UNCHANGED queued
       \/ rp # pool /\ Requeue /\ UNCHANGED pool
    /\ UNCHANGED <<vars, cachedPool, children>>

\* The controller is killed; the next one reads everything anew.
ControllerRestarts ==
    /\ Fault
    /\ upc' = "none" /\ wakeAt' = 0 /\ token' = 0 /\ stopping' = FALSE
    /\ interrupted' = TRUE
    /\ mgr' = Nothing
    /\ cached' = secret /\ cachedPool' = pool
    /\ Requeue
    /\ UNCHANGED <<clock, secret, pool, secretOwner, depl, updaterUid>>

-----------------------------------------------------------------------------
Reconcile ==
    \/ ReadPool \/ ReconcileSecret \/ StartSecretUpdater \/ ReconcileDeployment
    \/ StartOrUpdateManager \/ UpdateStatus
    \/ StopManager \/ StopSecretUpdater \/ RemoveFinalizer

UpdaterRuns == UpdaterStep /\ UNCHANGED <<poolVars, recVars, children>>
UpdaterStops == UpdaterEnds /\ UNCHANGED <<poolVars, recVars, children>>
TimePasses  == Tick /\ UNCHANGED <<poolVars, recVars, children>>

CtlNext ==
    \/ CreatePool \/ EditPool \/ DeletePool \/ PoolCacheSyncs \/ SecretEvent
    \/ CollectSecret \/ CollectDeployment \/ UserDeletesSecret
    \/ Reconcile \/ StepFails \/ ControllerRestarts
    \/ UpdaterRuns \/ TimePasses

CtlSpec == CtlInit /\ [][CtlNext]_ctlVars

\* The work queue hands a queued name to the reconciler, the caches catch up, the
\* update process runs and time goes on.  Nothing is assumed of users.
CtlFairness ==
    /\ WF_ctlVars(Reconcile) /\ WF_ctlVars(PoolCacheSyncs) /\ WF_ctlVars(SecretEvent)
    /\ WF_ctlVars(UpdaterRuns) /\ SF_ctlVars(UpdaterStops) /\ WF_ctlVars(TimePasses)
    /\ WF_ctlVars(CollectSecret) /\ WF_ctlVars(CollectDeployment)

FairCtlSpec == CtlSpec /\ CtlFairness

-----------------------------------------------------------------------------
(* Properties.                                                             *)

PoolType == [phase : {"absent", "live", "deleting"}, uid : 0..MaxEdits,
             spec : 0..MaxEdits, repo : 0..MaxEdits, bound : BOOLEAN]
ChildType == [uid : 0..MaxEdits, spec : 0..MaxEdits, repo : 0..MaxEdits]

TypeOK ==
    /\ UpdaterTypeOK
    /\ pool \in PoolType /\ cachedPool \in PoolType /\ rp \in PoolType
    /\ queued \in BOOLEAN
    /\ rpc \in {"idle", "secret", "updater", "updaterOnly", "deployment", "manager",
                "status", "stopManager", "stopUpdater", "finalizer"}
    /\ secretOwner \in 0..MaxEdits /\ updaterUid \in 0..MaxEdits
    /\ depl \in ChildType /\ mgr \in ChildType

\* Processes never outlive their pool.  A process keeps the credential and the
\* repository it was started with: one left over from a deleted pool would serve the
\* next pool of that name with those of the old one.
ProcessesServeThePool ==
    /\ mgr # Nothing => pool.phase # "absent" /\ mgr.uid = pool.uid
    /\ upc # "none" => pool.phase # "absent" /\ updaterUid = pool.uid

\* What the reconciler does to the children of the pool is what PoolContract promises,
\* whatever its cache lags behind: the Deployment never goes back to an older spec, the
\* process serves what is deployed and never another repository, "Bound is true when the
\* child Deployment is created" (RunnerPoolStatus) for the last spec, and nothing is left
\* at work when the pool disappears.
Contract == INSTANCE PoolContract WITH
    renewer <- IF upc = "none" THEN 0 ELSE updaterUid

ImplementsContract == Contract!ContractSpec

\* The last spec of a pool reaches the Deployment and the manage process, whatever
\* fails on the way.
SpecReachesEverything ==
    \A s \in 1..MaxEdits :
        (pool.phase = "live" /\ pool.spec = s)
            ~> \/ pool.phase # "live" \/ pool.spec # s
               \/ depl.spec = s /\ mgr.spec = s

\* A deleted pool disappears.
DeletedPoolGoes == pool.phase = "deleting" ~> pool.phase # "deleting"

\* A pool created again under its name may find the Secret of the deleted one and go on
\* with it; the garbage collector deletes that Secret later.  In the end a live pool has
\* a Secret of its own.
PoolGetsItsSecret ==
    pool.phase = "live"
        ~> pool.phase # "live" \/ (secret.exists /\ secretOwner = pool.uid)
=============================================================================
