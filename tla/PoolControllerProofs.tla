------------------------ MODULE PoolControllerProofs ------------------------
(***************************************************************************)
(* Proofs about PoolController, for any waiting times and any bounds: the  *)
(* reconciler implements PoolContract, and no process outlives its pool.   *)
(* The argument is that the pool read by a pass is older than the cached   *)
(* one, which is older than the pool itself, and that nobody but the       *)
(* reconciler lets a pool disappear.                                       *)
(***************************************************************************)
EXTENDS PoolController, SecretUpdaterProofs, TLAPS

LivePCs     == {"secret", "updater", "updaterOnly", "deployment", "manager", "status"}
DeletingPCs == {"stopManager", "stopUpdater", "finalizer"}

\* The first pool of a name is written before any other version of it.
WellFormed(p) ==
    /\ p.uid <= p.spec
    /\ p.uid = 0 => p.phase = "absent" /\ p.repo = 0

\* a is an earlier version of b, or of a pool of that name before b.
Older(a, b) ==
    /\ a.spec <= b.spec
    /\ a.uid # b.uid => a.spec < b.uid
    /\ a.uid = b.uid => /\ a.repo = b.repo
                        /\ a.phase = "absent" => b.phase = "absent"
                        /\ a.phase = "deleting" => b.phase # "live"

\* What is read is older than what is cached, which is older than what there is.
Versions ==
    /\ WellFormed(rp) /\ WellFormed(cachedPool) /\ WellFormed(pool)
    /\ Older(rp, cachedPool) /\ Older(cachedPool, pool)

\* A live pool that is cached or read has not disappeared; each place of a pass belongs to
\* pools in one phase.
PassAgrees ==
    /\ rpc \in LivePCs => rp.phase = "live" /\ pool.phase # "absent" /\ pool.uid = rp.uid
    /\ rpc \in DeletingPCs => rp.phase = "deleting"
    /\ rpc = "idle" => rp = NoPool

StillThere ==
    /\ cachedPool.phase = "live" => pool.phase # "absent" /\ pool.uid = cachedPool.uid
    /\ PassAgrees

\* What has been stopped when the finalizer is removed.
Stopped ==
    /\ rpc \in {"stopUpdater", "finalizer"} => mgr = Nothing
    /\ rpc = "finalizer" => upc = "none"

\* What a pass has done to the children of the pool, and what they are of.
Children ==
    /\ depl.spec <= cachedPool.spec
    /\ rpc # "idle" => depl.spec <= rp.spec
    /\ rpc \in {"manager", "status"} => depl = Child
    /\ rpc = "status" => mgr = Child
    /\ mgr # Nothing => mgr.repo = pool.repo

CtlInv == TypeOK /\ Versions /\ StillThere /\ Stopped /\ Children /\ ProcessesServeThePool

-----------------------------------------------------------------------------
(* Versions of the pool.                                                   *)

\* Every version is an earlier version of itself.
LEMMA OlderRefl == ASSUME NEW p \in PoolType PROVE Older(p, p)
BY DEF Older, PoolType

\* Nothing was written before there was a pool.
LEMMA OlderFirst == ASSUME NEW p \in PoolType, WellFormed(p) PROVE Older(NoPool, p)
BY DEF Older, PoolType, WellFormed, NoPool

\* The order of the versions is transitive.
LEMMA OlderTrans ==
    ASSUME NEW a \in PoolType, NEW b \in PoolType, NEW c \in PoolType,
           WellFormed(a), WellFormed(b), Older(a, b), Older(b, c)
    PROVE  Older(a, c)
<1>1. a.spec \in Nat /\ b.spec \in Nat /\ c.spec \in Nat
      /\ a.uid \in Nat /\ b.uid \in Nat /\ c.uid \in Nat
  BY DEF PoolType
<1>2. a.spec <= c.spec
  BY <1>1 DEF Older
<1>3. a.uid # c.uid => a.spec < c.uid
  BY <1>1 DEF Older, WellFormed
<1>4. a.uid = c.uid => a.uid = b.uid
  BY <1>1 DEF Older, WellFormed
<1>5. b.phase \in {"absent", "live", "deleting"}
  BY DEF PoolType
<1>6. QED
  BY <1>2, <1>3, <1>4, <1>5 DEF Older

\* The pool that is read, and there is none, are pools.
LEMMA NoPoolType == NoPool \in PoolType /\ WellFormed(NoPool) /\ Nothing \in ChildType
BY EditsAssumption DEF NoPool, PoolType, WellFormed, Nothing, ChildType

\* The child of the pool that is read.
LEMMA ChildIsTyped == ASSUME TypeOK PROVE Child \in ChildType
BY DEF TypeOK, Child, ChildType, PoolType

\* Whatever writes the pool makes a later version of it.
LEMMA WritesAreLater ==
    ASSUME TypeOK, WellFormed(pool), CreatePool \/ EditPool \/ DeletePool
    PROVE  pool' \in PoolType /\ WellFormed(pool') /\ Older(pool, pool')
<1> USE EditsAssumption DEF TypeOK, PoolType, WellFormed, Older, WritePool
<1>1. CASE CreatePool
  BY <1>1 DEF CreatePool
<1>2. CASE EditPool
  <2>1. PICK r \in {pool.repo, pool.spec + 1} :
           /\ validateUpdate([pool EXCEPT !.spec = @ + 1, !.repo = r], pool)
           /\ WritePool([pool EXCEPT !.spec = @ + 1, !.repo = r])
    BY <1>2 DEF EditPool
  <2>2. r = pool.repo /\ pool.phase # "absent" /\ pool.spec < MaxEdits
    BY <1>2, <2>1 DEF validateUpdate, EditPool
  <2>3. pool' = [pool EXCEPT !.spec = pool.spec + 1]
    BY <2>1, <2>2
  <2>4. pool'.spec = pool.spec + 1 /\ pool'.uid = pool.uid /\ pool'.phase = pool.phase
        /\ pool'.repo = pool.repo /\ pool' \in PoolType
    BY <2>2, <2>3
  <2>5. QED
    BY <2>4
<1>3. CASE DeletePool
  BY <1>3 DEF DeletePool
<1>4. QED
  BY <1>1, <1>2, <1>3

-----------------------------------------------------------------------------
(* The invariant.                                                          *)

\* The initial state satisfies the invariant.
LEMMA CtlInvInit == CtlInit => CtlInv
<1> SUFFICES ASSUME CtlInit PROVE CtlInv
  OBVIOUS
<1>1. UpdaterTypeOK
  BY UpdaterInit DEF CtlInit
<1>2. TypeOK
  <2>1. 0 \in 0..MaxEdits
    BY EditsAssumption
  <2>2. QED
    BY <1>1, <2>1, NoPoolType DEF CtlInit, TypeOK
<1>3. Versions
  BY NoPoolType, OlderFirst DEF CtlInit, Versions
<1>4. StillThere /\ Stopped
  BY DEF CtlInit, StillThere, PassAgrees, Stopped, NoPool, LivePCs, DeletingPCs
<1>5. Children /\ ProcessesServeThePool
  BY DEF CtlInit, Init, Children, ProcessesServeThePool, NoPool, Nothing
<1>6. QED
  BY <1>2, <1>3, <1>4, <1>5 DEF CtlInv

\* What the steps of the controller do to the state of SecretUpdater.
LEMMA UpdaterPart ==
    ASSUME UpdaterTypeOK, [CtlNext]_ctlVars PROVE UpdaterTypeOK'
<1> USE DEF Reconcile
<1>1. CASE UpdaterRuns
  BY <1>1, UpdaterStepType DEF UpdaterRuns
<1>2. CASE StepFails
  BY <1>2, UpdaterBounds DEF StepFails, Fault, UpdaterTypeOK, updaterVars
<1>3. CASE ControllerRestarts
  <2>1. 0 \in 0..MaxClock /\ 0 \in 0..(MaxClock + Lifetime) /\ faults' \in 0..MaxFaults
    BY <1>3, WaitsAssumption, UpdaterBounds DEF ControllerRestarts, Fault, UpdaterTypeOK
  <2>2. QED
    BY <1>3, <2>1 DEF ControllerRestarts, UpdaterTypeOK
<1>4. CASE SecretEvent \/ TimePasses \/ UserDeletesSecret \/ CollectSecret
  BY <1>4, OthersType DEF SecretEvent, TimePasses, UserDeletesSecret, CollectSecret
<1>5. CASE ReconcileSecret \/ StartSecretUpdater \/ StopSecretUpdater
  BY <1>5, OthersType DEF ReconcileSecret, StartSecretUpdater, StopSecretUpdater
<1>6. CASE UNCHANGED vars
  BY <1>6, OthersType
<1>7. QED
  BY <1>1, <1>2, <1>3, <1>4, <1>5, <1>6
     DEF CtlNext, ctlVars, CreatePool, EditPool, DeletePool, WritePool, PoolCacheSyncs,
         CollectDeployment, ReadPool, ReconcileDeployment, StartOrUpdateManager, UpdateStatus,
         StopManager, RemoveFinalizer

\* Every step that changes the pool makes a later version of it.
LEMMA PoolGrows ==
    ASSUME TypeOK, WellFormed(pool), [CtlNext]_ctlVars
    PROVE  pool' \in PoolType /\ WellFormed(pool') /\ Older(pool, pool')
<1> USE DEF Reconcile
<1>1. CASE CreatePool \/ EditPool \/ DeletePool
  BY <1>1, WritesAreLater
<1>2. CASE UpdateStatus \/ RemoveFinalizer
  <2>1. \/ pool' = pool \/ pool' = [pool EXCEPT !.bound = TRUE]
        \/ pool' = [pool EXCEPT !.phase = "absent", !.bound = FALSE]
    BY <1>2 DEF UpdateStatus, RemoveFinalizer
  <2>2. pool \in PoolType
    BY DEF TypeOK
  <2>3. pool' \in PoolType /\ pool'.uid = pool.uid /\ pool'.spec = pool.spec
        /\ pool'.repo = pool.repo /\ pool'.phase \in {pool.phase, "absent"}
    BY <2>1, <2>2 DEF PoolType
  <2>4. QED
    BY <2>2, <2>3 DEF PoolType, WellFormed, Older
<1>3. CASE UNCHANGED pool
  BY <1>3, OlderRefl DEF TypeOK
<1>4. QED
  BY <1>1, <1>2, <1>3
     DEF CtlNext, ctlVars, poolVars, PoolCacheSyncs, SecretEvent, CollectSecret,
         CollectDeployment, UserDeletesSecret, ReadPool, ReconcileSecret, StartSecretUpdater,
         ReconcileDeployment, StartOrUpdateManager, StopManager, StopSecretUpdater, StepFails,
         ControllerRestarts, UpdaterRuns, TimePasses

\* The cache takes the pool as it is.
LEMMA CacheFollows ==
    ASSUME [CtlNext]_ctlVars
    PROVE  cachedPool' = cachedPool \/ (cachedPool' = pool /\ pool' = pool)
BY DEF CtlNext, Reconcile, ctlVars, poolVars, CreatePool, EditPool, DeletePool, WritePool,
       PoolCacheSyncs, SecretEvent, CollectSecret, CollectDeployment, UserDeletesSecret,
       ReadPool, ReconcileSecret, StartSecretUpdater, ReconcileDeployment,
       StartOrUpdateManager, UpdateStatus, StopManager, StopSecretUpdater, RemoveFinalizer,
       StepFails, ControllerRestarts, UpdaterRuns, TimePasses

\* A pass reads the cached pool at its start, keeps it, and forgets it at its end.
LEMMA PassReads ==
    ASSUME StillThere, [CtlNext]_ctlVars
    PROVE  \/ rp' = rp /\ (rpc' = rpc \/ (rpc # "idle" /\ rpc' # "idle"))
           \/ rp' = NoPool /\ rpc' = "idle"
           \/ ReadPool /\ rp' = cachedPool /\ cachedPool' = cachedPool
<1> USE DEF Reconcile, recVars, ctlVars, Goto, Return, Requeue
<1>1. CASE ReadPool
  BY <1>1 DEF ReadPool, StillThere, PassAgrees
<1>2. CASE StepFails \/ ControllerRestarts \/ UpdateStatus \/ RemoveFinalizer
  BY <1>2 DEF StepFails, ControllerRestarts, UpdateStatus, RemoveFinalizer
<1>3. CASE ReconcileSecret \/ StartSecretUpdater \/ StopSecretUpdater
  BY <1>3 DEF ReconcileSecret, StartSecretUpdater, StopSecretUpdater
<1>4. CASE ReconcileDeployment \/ StartOrUpdateManager \/ StopManager
  BY <1>4 DEF ReconcileDeployment, StartOrUpdateManager, StopManager
<1>5. CASE UNCHANGED recVars
  BY <1>5
<1>6. QED
  BY <1>1, <1>2, <1>3, <1>4, <1>5
     DEF CtlNext, CreatePool, EditPool, DeletePool, WritePool, PoolCacheSyncs, SecretEvent,
         CollectSecret, CollectDeployment, UserDeletesSecret, UpdaterRuns, TimePasses

\* The order of the versions is preserved by every step.
LEMMA VersionsNext ==
    ASSUME TypeOK, Versions, StillThere, [CtlNext]_ctlVars
    PROVE  Versions' /\ pool' \in PoolType /\ cachedPool' \in PoolType /\ rp' \in PoolType
<1>1. pool \in PoolType /\ cachedPool \in PoolType /\ rp \in PoolType
  BY DEF TypeOK
<1>2. /\ WellFormed(rp) /\ WellFormed(cachedPool) /\ WellFormed(pool)
      /\ Older(rp, cachedPool) /\ Older(cachedPool, pool)
  BY DEF Versions
<1>3. pool' \in PoolType /\ WellFormed(pool') /\ Older(pool, pool')
  BY <1>2, PoolGrows
<1>4. cachedPool' \in PoolType /\ WellFormed(cachedPool') /\ Older(cachedPool, cachedPool')
      /\ Older(cachedPool', pool')
  <2>1. CASE cachedPool' = cachedPool
    BY <1>1, <1>2, <1>3, <2>1, OlderRefl, OlderTrans
  <2>2. CASE cachedPool' = pool /\ pool' = pool
    BY <1>1, <1>2, <2>2, OlderRefl
  <2>3. QED
    BY <2>1, <2>2, CacheFollows
<1>5. rp' \in PoolType /\ WellFormed(rp') /\ Older(rp', cachedPool')
  <2>1. CASE rp' = rp
    BY <1>1, <1>2, <1>4, <2>1, OlderTrans
  <2>2. CASE rp' = NoPool
    BY <1>4, <2>2, NoPoolType, OlderFirst
  <2>3. CASE rp' = cachedPool
    BY <1>1, <1>2, <1>4, <2>3
  <2>4. QED
    BY <2>1, <2>2, <2>3, PassReads
<1>6. QED
  BY <1>3, <1>4, <1>5 DEF Versions

\* Types are preserved by every step.
LEMMA TypeNext == ASSUME TypeOK, Versions, StillThere, [CtlNext]_ctlVars PROVE TypeOK'
<1> USE DEF Reconcile, ctlVars, poolVars, recVars, children
<1>1. UpdaterTypeOK'
  BY UpdaterPart DEF TypeOK
<1>2. pool' \in PoolType /\ cachedPool' \in PoolType /\ rp' \in PoolType
  BY VersionsNext
<1>3. queued' \in BOOLEAN
      /\ rpc' \in {"idle", "secret", "updater", "updaterOnly", "deployment", "manager",
                   "status", "stopManager", "stopUpdater", "finalizer"}
  <2>1. CASE ReadPool \/ ReconcileSecret \/ StartSecretUpdater \/ ReconcileDeployment
    BY <2>1 DEF TypeOK, ReadPool, ReconcileSecret, StartSecretUpdater, ReconcileDeployment,
                Goto, Return, Requeue
  <2>2. CASE \/ StartOrUpdateManager \/ UpdateStatus \/ StopManager \/ StopSecretUpdater
             \/ RemoveFinalizer \/ StepFails \/ ControllerRestarts
    BY <2>2 DEF TypeOK, StartOrUpdateManager, UpdateStatus, StopManager, StopSecretUpdater,
                RemoveFinalizer, StepFails, ControllerRestarts, Goto, Return, Requeue
  <2>3. CASE PoolCacheSyncs \/ SecretEvent \/ UNCHANGED <<queued, recVars>>
    BY <2>3 DEF TypeOK, PoolCacheSyncs, SecretEvent
  <2>4. QED
    BY <2>1, <2>2, <2>3
       DEF CtlNext, CreatePool, EditPool, DeletePool, WritePool, CollectSecret,
           CollectDeployment, UserDeletesSecret, UpdaterRuns, TimePasses
<1>4. /\ secretOwner' \in 0..MaxEdits /\ updaterUid' \in 0..MaxEdits
      /\ depl' \in ChildType /\ mgr' \in ChildType
  <2>1. Child \in ChildType /\ Nothing \in ChildType /\ rp.uid \in 0..MaxEdits
        /\ [mgr EXCEPT !.spec = rp.spec] \in ChildType
    BY ChildIsTyped, NoPoolType DEF TypeOK, PoolType, ChildType
  <2>2. CASE ReconcileSecret \/ StartSecretUpdater \/ ReconcileDeployment
    BY <2>1, <2>2 DEF TypeOK, ReconcileSecret, StartSecretUpdater, ReconcileDeployment
  <2>3. CASE StartOrUpdateManager \/ StopManager \/ ControllerRestarts \/ CollectDeployment
    BY <2>1, <2>3 DEF TypeOK, StartOrUpdateManager, StopManager, ControllerRestarts,
                      CollectDeployment
  <2>4. CASE UNCHANGED children
    BY <2>4 DEF TypeOK
  <2>5. QED
    BY <2>2, <2>3, <2>4
       DEF CtlNext, CreatePool, EditPool, DeletePool, WritePool, PoolCacheSyncs, SecretEvent,
           CollectSecret, UserDeletesSecret, ReadPool, UpdateStatus, StopSecretUpdater,
           RemoveFinalizer, StepFails, UpdaterRuns, TimePasses
<1>5. QED
  BY <1>1, <1>2, <1>3, <1>4 DEF TypeOK

\* The pool disappears only when the reconciler, having read it as it is, removes the
\* finalizer; the cached pool is a deleted one then.
LEMMA OnlyFinalizerRemoves ==
    ASSUME TypeOK, Versions, StillThere, [CtlNext]_ctlVars,
           pool.phase # "absent", ~(pool'.phase # "absent" /\ pool'.uid = pool.uid)
    PROVE  RemoveFinalizer /\ rpc' = "idle" /\ cachedPool'.phase # "live"
<1> USE DEF Reconcile
<1>1. pool \in PoolType /\ cachedPool \in PoolType /\ rp \in PoolType
  BY DEF TypeOK
<1>2. RemoveFinalizer /\ pool' # pool
  <2>1. CASE CreatePool \/ EditPool \/ DeletePool
    BY <1>1, <2>1 DEF CreatePool, EditPool, DeletePool, WritePool, PoolType
  <2>2. CASE UpdateStatus
    BY <1>1, <2>2 DEF UpdateStatus, PoolType
  <2>3. CASE RemoveFinalizer
    BY <2>3
  <2>4. CASE pool' = pool
    BY <2>4
  <2>5. QED
    BY <2>1, <2>2, <2>3, <2>4
       DEF CtlNext, ctlVars, poolVars, PoolCacheSyncs, SecretEvent, CollectSecret,
           CollectDeployment, UserDeletesSecret, ReadPool, ReconcileSecret,
           StartSecretUpdater, ReconcileDeployment, StartOrUpdateManager, StopManager,
           StopSecretUpdater, StepFails, ControllerRestarts, UpdaterRuns, TimePasses
<1>3. rp = pool /\ rpc = "finalizer" /\ rpc' = "idle" /\ cachedPool' = cachedPool
  BY <1>2 DEF RemoveFinalizer, Return
<1>4. rp.phase = "deleting"
  BY <1>3 DEF StillThere, PassAgrees, DeletingPCs
<1>5. cachedPool.uid = rp.uid
  BY <1>1, <1>3 DEF Versions, Older, WellFormed, PoolType
<1>6. cachedPool.phase # "live"
  BY <1>4, <1>5 DEF Versions, Older
<1>7. QED
  BY <1>2, <1>3, <1>6

\* StillThere is preserved by every step.
LEMMA StillThereNext == ASSUME TypeOK, Versions, StillThere, [CtlNext]_ctlVars PROVE StillThere'
<1>1. cachedPool'.phase = "live" => pool'.phase # "absent" /\ pool'.uid = cachedPool'.uid
  <2>1. CASE cachedPool' = cachedPool
    BY <2>1, OnlyFinalizerRemoves DEF StillThere, PassAgrees
  <2>2. CASE cachedPool' = pool /\ pool' = pool
    BY <2>2
  <2>3. QED
    BY <2>1, <2>2, CacheFollows
<1>2. ASSUME ReadPool
      PROVE  PassAgrees'
  BY <1>2 DEF ReadPool, StillThere, PassAgrees, LivePCs, DeletingPCs, recVars
<1>3. ASSUME rp' = NoPool, rpc' = "idle"
      PROVE  PassAgrees'
  BY <1>3 DEF PassAgrees, LivePCs, DeletingPCs
<1>4. ASSUME rp' = rp, rpc' = rpc \/ (rpc # "idle" /\ rpc' # "idle")
      PROVE  PassAgrees'
  <2>1. /\ rpc' \in LivePCs => rpc \in LivePCs
        /\ rpc' \in DeletingPCs => rpc \in DeletingPCs
    <3>1. CASE rpc' = rpc
      BY <3>1
    <3>2. CASE rpc' # rpc /\ rpc # "idle"
      <4> USE DEF Reconcile, Goto, Return, Requeue, LivePCs, DeletingPCs
      <4>1. CASE ReconcileSecret \/ StartSecretUpdater \/ ReconcileDeployment
        BY <1>4, <3>2, <4>1 DEF ReconcileSecret, StartSecretUpdater, ReconcileDeployment
      <4>2. CASE StartOrUpdateManager \/ StopManager \/ StopSecretUpdater
        BY <1>4, <3>2, <4>2 DEF StartOrUpdateManager, StopManager, StopSecretUpdater,
                                recVars
      <4>3. CASE ReadPool \/ UpdateStatus \/ RemoveFinalizer \/ StepFails \/ ControllerRestarts
        BY <1>4, <3>2, <4>3 DEF ReadPool, UpdateStatus, RemoveFinalizer, StepFails,
                                ControllerRestarts
      <4>4. QED
        BY <3>2, <4>1, <4>2, <4>3
           DEF CtlNext, ctlVars, recVars, CreatePool, EditPool, DeletePool, WritePool,
               PoolCacheSyncs, SecretEvent, CollectSecret, CollectDeployment,
               UserDeletesSecret, UpdaterRuns, TimePasses
    <3>3. QED
      BY <1>4, <3>1, <3>2
  <2>2. rpc' \in LivePCs => pool'.phase # "absent" /\ pool'.uid = rp.uid
    BY <2>1, OnlyFinalizerRemoves DEF StillThere, PassAgrees, LivePCs
  <2>3. rpc' = "idle" => rpc = "idle"
    BY <1>4
  <2>4. QED
    BY <1>4, <2>1, <2>2, <2>3 DEF StillThere, PassAgrees
<1>5. QED
  BY <1>1, <1>2, <1>3, <1>4, PassReads DEF StillThere

-----------------------------------------------------------------------------
(* The children.                                                           *)

\* What can happen to the Deployment.
LEMMA DeploymentSteps ==
    ASSUME [CtlNext]_ctlVars
    PROVE  depl' = depl \/ ReconcileDeployment \/ (CollectDeployment /\ depl' = Nothing)
BY DEF CtlNext, Reconcile, ctlVars, children, CreatePool, EditPool, DeletePool, WritePool,
       PoolCacheSyncs, SecretEvent, CollectSecret, CollectDeployment, UserDeletesSecret,
       ReadPool, ReconcileSecret, StartSecretUpdater, StartOrUpdateManager, UpdateStatus,
       StopManager, StopSecretUpdater, RemoveFinalizer, StepFails, ControllerRestarts,
       UpdaterRuns, TimePasses

\* What can happen to the manage process.
LEMMA ManagerSteps ==
    ASSUME [CtlNext]_ctlVars
    PROVE  mgr' = mgr \/ mgr' = Nothing \/ StartOrUpdateManager
BY DEF CtlNext, Reconcile, ctlVars, children, CreatePool, EditPool, DeletePool, WritePool,
       PoolCacheSyncs, SecretEvent, CollectSecret, CollectDeployment, UserDeletesSecret,
       ReadPool, ReconcileSecret, StartSecretUpdater, ReconcileDeployment, UpdateStatus,
       StopManager, StopSecretUpdater, RemoveFinalizer, StepFails, ControllerRestarts,
       UpdaterRuns, TimePasses

\* What can happen to the update process.
LEMMA UpdaterSteps ==
    ASSUME TypeOK, [CtlNext]_ctlVars
    PROVE  \/ upc' = "none"
           \/ upc # "none" /\ updaterUid' = updaterUid
           \/ upc = "none" /\ StartSecretUpdater /\ updaterUid' = rp.uid
<1> USE DEF Reconcile
<1>1. CASE UpdaterRuns
  BY <1>1, UpdaterStepType DEF UpdaterRuns, children, TypeOK
<1>2. CASE StartSecretUpdater
  BY <1>2 DEF StartSecretUpdater, StartUpdater, vars, updaterVars
<1>3. CASE StopSecretUpdater
  BY <1>3 DEF StopSecretUpdater, CancelUpdater, vars, updaterVars, children
<1>4. CASE ControllerRestarts
  BY <1>4 DEF ControllerRestarts
<1>5. CASE ReconcileSecret \/ SecretEvent \/ CollectSecret \/ UserDeletesSecret \/ TimePasses
  BY <1>5 DEF ReconcileSecret, SecretEvent, CollectSecret, UserDeletesSecret, TimePasses,
              CreateSecret, SecretCacheSyncs, DeleteSecret, Tick, vars, updaterVars, children
<1>6. CASE StepFails
  BY <1>6 DEF StepFails, updaterVars, children
<1>7. CASE UNCHANGED <<upc, updaterUid>>
  BY <1>7
<1>8. QED
  BY <1>1, <1>2, <1>3, <1>4, <1>5, <1>6, <1>7
     DEF CtlNext, ctlVars, vars, updaterVars, children, CreatePool, EditPool, DeletePool,
         WritePool, PoolCacheSyncs, CollectDeployment, ReadPool, ReconcileDeployment,
         StartOrUpdateManager, UpdateStatus, StopManager, RemoveFinalizer

\* A pass for a live pool works with the uid and the repository of the pool that exists,
\* and with a spec that it has or has had.
LEMMA PassForPool ==
    ASSUME TypeOK, Versions, StillThere, rpc \in LivePCs
    PROVE  /\ pool.phase # "absent" /\ rp.uid = pool.uid /\ rp.repo = pool.repo
           /\ pool.uid <= rp.spec /\ rp.spec <= pool.spec
<1>1. Older(rp, pool)
  BY OlderTrans DEF TypeOK, Versions
<1>2. QED
  BY <1>1 DEF Older, Versions, WellFormed, StillThere, PassAgrees

\* Stopped is preserved by every step.
LEMMA StoppedNext ==
    ASSUME TypeOK, StillThere, Stopped, [CtlNext]_ctlVars PROVE Stopped'
<1> USE DEF Reconcile, Stopped, Goto, Return, Requeue
<1>1. CASE StopManager \/ StopSecretUpdater
  BY <1>1 DEF StopManager, StopSecretUpdater, children, recVars, CancelUpdater, vars, updaterVars
<1>2. CASE ReadPool \/ ReconcileSecret \/ StartSecretUpdater \/ ReconcileDeployment
  BY <1>2 DEF ReadPool, ReconcileSecret, StartSecretUpdater, ReconcileDeployment, StillThere,
              PassAgrees, recVars
<1>3. CASE \/ StartOrUpdateManager \/ UpdateStatus \/ RemoveFinalizer \/ StepFails
           \/ ControllerRestarts
  BY <1>3 DEF StartOrUpdateManager, UpdateStatus, RemoveFinalizer, StepFails, ControllerRestarts
<1>4. CASE UNCHANGED <<recVars, mgr>> /\ ~StartSecretUpdater
  BY <1>4, UpdaterSteps DEF recVars
<1>5. QED
  BY <1>1, <1>2, <1>3, <1>4
     DEF CtlNext, ctlVars, children, CreatePool, EditPool, DeletePool, WritePool,
         PoolCacheSyncs, SecretEvent, CollectSecret, CollectDeployment, UserDeletesSecret,
         UpdaterRuns, TimePasses

\* No process outlives its pool, whatever the step.
LEMMA ServesNext ==
    ASSUME TypeOK, Versions, StillThere, Stopped, ProcessesServeThePool, [CtlNext]_ctlVars
    PROVE  ProcessesServeThePool'
<1>1. mgr' # Nothing => pool'.phase # "absent" /\ mgr'.uid = pool'.uid
  <2>1. CASE mgr' = mgr /\ mgr # Nothing
    <3>1. ~RemoveFinalizer
      BY <2>1 DEF RemoveFinalizer, Stopped
    <3>2. QED
      BY <2>1, <3>1, OnlyFinalizerRemoves DEF ProcessesServeThePool
  <2>2. CASE StartOrUpdateManager
    <3>1. pool' = pool /\ rpc \in LivePCs
      BY <2>2 DEF StartOrUpdateManager, LivePCs
    <3>2. rp.uid = pool.uid /\ pool.phase # "absent"
      BY <3>1, PassForPool
    <3>3. mgr'.uid = pool.uid
      BY <2>2, <3>2 DEF StartOrUpdateManager, Child, ProcessesServeThePool, TypeOK, ChildType
    <3>4. QED
      BY <3>1, <3>2, <3>3
  <2>3. QED
    BY <2>1, <2>2, ManagerSteps
<1>2. upc' # "none" => pool'.phase # "absent" /\ updaterUid' = pool'.uid
  <2>1. CASE upc # "none" /\ updaterUid' = updaterUid
    <3>1. ~RemoveFinalizer
      BY <2>1 DEF RemoveFinalizer, Stopped
    <3>2. QED
      BY <2>1, <3>1, OnlyFinalizerRemoves DEF ProcessesServeThePool
  <2>2. CASE StartSecretUpdater /\ updaterUid' = rp.uid
    <3>1. pool' = pool /\ rpc \in LivePCs
      BY <2>2 DEF StartSecretUpdater, LivePCs
    <3>2. QED
      BY <2>2, <3>1, PassForPool
  <2>3. QED
    BY <2>1, <2>2, UpdaterSteps
<1>3. QED
  BY <1>1, <1>2 DEF ProcessesServeThePool

\* What the Deployment and the manage process are made from is preserved by every step.
LEMMA ChildrenNext ==
    ASSUME CtlInv, [CtlNext]_ctlVars PROVE Children'
<1> USE DEF CtlInv
<1>1. TypeOK' /\ Versions' /\ StillThere'
  BY TypeNext, VersionsNext, StillThereNext
<1>2. rp.spec <= cachedPool.spec /\ cachedPool.spec <= cachedPool'.spec
  <2>1. cachedPool.spec <= pool.spec
    BY DEF Versions, Older
  <2>2. cachedPool.spec \in Nat
    BY DEF TypeOK, PoolType
  <2>3. QED
    BY <2>1, <2>2, CacheFollows DEF Versions, Older
<1>3. /\ rp.spec \in Nat /\ cachedPool.spec \in Nat /\ depl.spec \in Nat
      /\ cachedPool'.spec \in Nat /\ depl'.spec \in Nat
  BY <1>1 DEF TypeOK, PoolType, ChildType
<1>4. depl'.spec <= cachedPool'.spec /\ (rpc' # "idle" => depl'.spec <= rp'.spec)
  <2>1. CASE ReconcileDeployment
    <3>1. depl'.spec = rp.spec /\ rp' = rp
      BY <2>1 DEF ReconcileDeployment, Child, Goto
    <3>2. QED
      BY <1>2, <1>3, <3>1
  <2>2. CASE depl' = depl \/ depl' = Nothing
    <3>1. depl'.spec <= depl.spec
      BY <1>3, <2>2 DEF Nothing
    <3>2. depl'.spec <= cachedPool.spec /\ (rpc # "idle" => depl'.spec <= rp.spec)
      BY <1>3, <3>1 DEF Children
    <3>3. QED
      BY <1>2, <1>3, <3>2, PassReads
  <2>3. QED
    BY <2>1, <2>2, DeploymentSteps
<1>5. (rpc' \in {"manager", "status"} => depl' = Child') /\ (rpc' = "status" => mgr' = Child')
  <2>1. CASE ReconcileDeployment
    BY <2>1 DEF ReconcileDeployment, Child, Goto
  <2>2. CASE StartOrUpdateManager
    <3>1. rp' = rp /\ depl' = depl /\ rpc = "manager"
      BY <2>2 DEF StartOrUpdateManager, Goto
    <3>2. rp.uid = pool.uid /\ rp.repo = pool.repo
      BY <3>1, PassForPool DEF LivePCs
    <3>3. mgr' = Child
      BY <2>2, <3>2
         DEF StartOrUpdateManager, Child, Children, ProcessesServeThePool, TypeOK, ChildType
    <3>4. QED
      BY <3>1, <3>3 DEF Children, Child
  <2>3. CASE \/ ReadPool \/ ReconcileSecret \/ StartSecretUpdater \/ UpdateStatus
             \/ StopManager \/ StopSecretUpdater \/ RemoveFinalizer \/ StepFails
             \/ ControllerRestarts
    BY <2>3 DEF ReadPool, ReconcileSecret, StartSecretUpdater, UpdateStatus, StopManager,
                StopSecretUpdater, RemoveFinalizer, StepFails, ControllerRestarts, Goto,
                Return, Requeue, StillThere, recVars
  <2>4. CASE UNCHANGED recVars /\ mgr' = mgr /\ depl' = depl
    BY <2>4 DEF recVars, Child, Children
  <2>5. CASE CollectDeployment
    <3>1. rpc \notin {"manager", "status"}
      BY <2>5, PassForPool DEF CollectDeployment, Orphaned, Children, Child, LivePCs
    <3>2. QED
      BY <2>5, <3>1 DEF CollectDeployment, recVars
  <2>6. QED
    BY <2>1, <2>2, <2>3, <2>4, <2>5
       DEF CtlNext, Reconcile, ctlVars, children, CreatePool, EditPool, DeletePool, WritePool,
           PoolCacheSyncs, SecretEvent, CollectSecret, UserDeletesSecret, UpdaterRuns,
           TimePasses
<1>6. mgr' # Nothing => mgr'.repo = pool'.repo
  <2>1. CASE mgr' = mgr /\ mgr # Nothing
    <3>1. ~RemoveFinalizer
      BY <2>1 DEF RemoveFinalizer, Stopped
    <3>2. pool'.uid = pool.uid
      BY <2>1, <3>1, OnlyFinalizerRemoves DEF ProcessesServeThePool
    <3>3. pool'.repo = pool.repo
      BY <3>2, PoolGrows DEF Older, Versions
    <3>4. QED
      BY <2>1, <3>3 DEF Children
  <2>2. CASE StartOrUpdateManager
    <3>1. pool' = pool /\ rpc \in LivePCs
      BY <2>2 DEF StartOrUpdateManager, LivePCs
    <3>2. mgr'.repo = pool.repo
      BY <2>2, <3>1, PassForPool DEF StartOrUpdateManager, Child, Children, TypeOK, ChildType
    <3>3. QED
      BY <3>1, <3>2
  <2>3. QED
    BY <2>1, <2>2, ManagerSteps
<1>7. QED
  BY <1>4, <1>5, <1>6 DEF Children

\* Every reachable state of the controller satisfies the invariant.
LEMMA CtlInvariant == CtlSpec => []CtlInv
<1>1. CtlInit => CtlInv
  BY CtlInvInit
<1>2. CtlInv /\ [CtlNext]_ctlVars => CtlInv'
  BY TypeNext, VersionsNext, StillThereNext, StoppedNext, ServesNext, ChildrenNext DEF CtlInv
<1>3. QED
  BY <1>1, <1>2, PTL DEF CtlSpec

\* Every variable of PoolController and of the SecretUpdater in it keeps its type.
THEOREM TypeCorrect == CtlSpec => []TypeOK
<1>1. CtlInv => TypeOK
  BY DEF CtlInv
<1>2. QED
  BY <1>1, CtlInvariant, PTL

\* A manage process and an update process are those of the pool that exists, however often
\* a pool of that name is deleted and created again and however late the cache is.
THEOREM ProcessesServe == CtlSpec => []ProcessesServeThePool
<1>1. CtlInv => ProcessesServeThePool
  BY DEF CtlInv
<1>2. QED
  BY <1>1, CtlInvariant, PTL

-----------------------------------------------------------------------------
(* The token of the pool's Secret.                                         *)

\* What a step of the controller is to SecretUpdater: one of its own steps, or one that only
\* the controller makes.
LEMMA UpdaterSees ==
    ASSUME [CtlNext]_ctlVars
    PROVE  \/ [Next]_vars
           \/ DeleteSecret /\ UNCHANGED faults
           \/ UNCHANGED <<clock, secret, cached, updaterVars, interrupted>> /\ faults' = faults + 1
           \/ ControllerRestarts
<1> USE DEF Reconcile
<1>1. CASE UpdaterRuns \/ SecretEvent \/ TimePasses \/ UserDeletesSecret
  BY <1>1 DEF UpdaterRuns, SecretEvent, TimePasses, UserDeletesSecret, Next
<1>2. CASE ReconcileSecret \/ StartSecretUpdater \/ StopSecretUpdater
  BY <1>2 DEF ReconcileSecret, StartSecretUpdater, StopSecretUpdater, Next
<1>3. CASE CollectSecret
  BY <1>3 DEF CollectSecret
<1>4. CASE StepFails
  BY <1>4 DEF StepFails, Fault
<1>5. CASE UNCHANGED vars
  BY <1>5
<1>6. QED
  BY <1>1, <1>2, <1>3, <1>4, <1>5
     DEF CtlNext, ctlVars, CreatePool, EditPool, DeletePool, WritePool, PoolCacheSyncs,
         CollectDeployment, ReadPool, ReconcileDeployment, StartOrUpdateManager, UpdateStatus,
         StopManager, RemoveFinalizer

\* The garbage collector, a failed reconciliation and a killed controller leave the margin
\* as it is: there is no token any more, one failure more to absorb, or no process.
LEMMA ControllerKeepsMargin ==
    ASSUME UpdaterInv,
           \/ DeleteSecret /\ UNCHANGED faults
           \/ UNCHANGED <<clock, secret, cached, updaterVars, interrupted>> /\ faults' = faults + 1
           \/ ControllerRestarts
    PROVE  ClockInv' /\ CacheInv' /\ MarginInv'
<1> USE DEF ClockInv, CacheInv, MarginInv, Renewed, Annotated
<1>1. /\ clock \in Nat /\ wakeAt \in Nat /\ Lifetime \in Nat /\ Margin \in Nat
      /\ secret.expiresAt \in Nat /\ cached.expiresAt \in Nat /\ stopping \in BOOLEAN
  BY WaitsAssumption, UpdaterBounds DEF UpdaterInv, UpdaterTypeOK, SecretType
<1>2. ClockInv /\ CacheInv /\ MarginInv /\ UpdaterTypeOK
  BY DEF UpdaterInv
<1>3. CASE DeleteSecret /\ UNCHANGED faults
  BY <1>1, <1>2, <1>3 DEF DeleteSecret, NoSecret, updaterVars
<1>4. CASE ControllerRestarts
  BY <1>1, <1>2, <1>4 DEF ControllerRestarts
<1>5. CASE UNCHANGED <<clock, secret, cached, updaterVars, interrupted>> /\ faults' = faults + 1
  <2>1. Budget \in Nat /\ Budget' \in Nat /\ Budget <= Budget'
    BY <1>2, <1>5, BudgetGrows
  <2>2. ClockInv' /\ CacheInv'
    BY <1>2, <1>5 DEF updaterVars
  <2>3. MarginInv'
    BY <1>1, <1>2, <1>5, <2>1 DEF updaterVars
  <2>4. QED
    BY <2>2, <2>3
<1>6. QED
  BY <1>3, <1>4, <1>5

\* The invariant of SecretUpdater holds in the controller it is a part of.
LEMMA CtlUpdaterInvariant == CtlSpec => []UpdaterInv
<1>1. CtlInit => UpdaterInv
  <2>1. Init => ClockInv /\ CacheInv /\ MarginInv
    BY WaitsAssumption DEF Init, ClockInv, CacheInv, MarginInv, Renewed, NoSecret, Annotated
  <2>2. QED
    BY <2>1, UpdaterInit DEF CtlInit, UpdaterInv
<1>2. UpdaterInv /\ [CtlNext]_ctlVars => UpdaterInv'
  <2> SUFFICES ASSUME UpdaterInv, [CtlNext]_ctlVars PROVE UpdaterInv'
    OBVIOUS
  <2>1. UpdaterTypeOK'
    BY UpdaterPart DEF UpdaterInv
  <2>2. [Next]_vars => ClockInv' /\ CacheInv' /\ MarginInv'
    BY ClockNext, CacheNext, MarginNext DEF UpdaterInv
  <2>3. QED
    BY <2>1, <2>2, UpdaterSees, ControllerKeepsMargin DEF UpdaterInv
<1>3. QED
  BY <1>1, <1>2, PTL DEF CtlSpec

\* Though the reconciler stops and starts the update process, pools and Secrets come and go
\* under it and the controller is killed: a token that a running process has put into the
\* Secret is replaced before it expires, unless Margin / RetryWait steps have failed.
THEOREM TokenValidForPool == CtlSpec => []TokenStaysValid
BY CtlUpdaterInvariant, MarginIsEnough, PTL

-----------------------------------------------------------------------------
(* The reconciler implements PoolContract.                                 *)

\* The variables of the contract, as the controller has them.
contractVars == <<pool, depl, mgr, IF upc = "none" THEN 0 ELSE updaterUid>>

\* What users write to the pool.
LEMMA UsersRefine ==
    ASSUME CtlInv, CreatePool \/ EditPool \/ DeletePool
    PROVE  [Contract!ContractNext]_contractVars
<1>1. UNCHANGED <<depl, mgr, IF upc = "none" THEN 0 ELSE updaterUid>>
  BY DEF CreatePool, EditPool, DeletePool, WritePool, vars, updaterVars, children
<1>2. CASE CreatePool
  BY <1>1, <1>2 DEF CreatePool, WritePool, Contract!ContractNext, Contract!Create, Contract!Exists
<1>3. CASE EditPool
  <2>1. /\ pool' = [pool EXCEPT !.spec = pool.spec + 1] /\ pool.phase # "absent"
        /\ pool.spec < MaxEdits
    <3>1. PICK r \in {pool.repo, pool.spec + 1} :
             /\ validateUpdate([pool EXCEPT !.spec = @ + 1, !.repo = r], pool)
             /\ WritePool([pool EXCEPT !.spec = @ + 1, !.repo = r])
      BY <1>3 DEF EditPool
    <3>2. r = pool.repo /\ pool.phase # "absent" /\ pool.spec < MaxEdits
      BY <1>3, <3>1 DEF validateUpdate, EditPool, CtlInv, TypeOK, PoolType
    <3>3. [pool EXCEPT !.spec = @ + 1, !.repo = r] = [pool EXCEPT !.spec = pool.spec + 1]
      BY <3>2 DEF CtlInv, TypeOK, PoolType
    <3>4. QED
      BY <3>1, <3>2, <3>3 DEF WritePool
  <2>2. QED
    BY <1>1, <2>1 DEF Contract!ContractNext, Contract!Edit, Contract!Exists
<1>4. CASE DeletePool
  BY <1>1, <1>4 DEF DeletePool, WritePool, Contract!ContractNext, Contract!Delete
<1>5. QED
  BY <1>2, <1>3, <1>4

\* A new Deployment has a spec of the pool, none older than the one it had.
LEMMA DeployRefines ==
    ASSUME CtlInv, ReconcileDeployment PROVE [Contract!ContractNext]_contractVars
<1>1. UNCHANGED <<pool, mgr, IF upc = "none" THEN 0 ELSE updaterUid>> /\ depl' = Child
      /\ rpc = "deployment"
  BY DEF ReconcileDeployment, vars, updaterVars
<1>2. /\ pool.phase # "absent" /\ rp.uid = pool.uid /\ rp.repo = pool.repo
      /\ pool.uid <= rp.spec /\ rp.spec <= pool.spec
  BY <1>1, PassForPool DEF CtlInv, LivePCs
<1>3. rp.spec \in pool.uid..pool.spec /\ depl.spec <= rp.spec
  BY <1>1, <1>2 DEF CtlInv, Children, TypeOK, PoolType
<1>4. depl' = [uid |-> pool.uid, spec |-> rp.spec, repo |-> pool.repo]
  BY <1>1, <1>2 DEF Child
<1>5. Contract!Deploy
  BY <1>1, <1>2, <1>3, <1>4 DEF Contract!Deploy, Contract!Exists
<1>6. QED
  BY <1>5 DEF Contract!ContractNext

\* A manage process, new or old, serves what the pass has deployed.
LEMMA ServeRefines ==
    ASSUME CtlInv, StartOrUpdateManager PROVE [Contract!ContractNext]_contractVars
<1>1. UNCHANGED <<pool, depl, IF upc = "none" THEN 0 ELSE updaterUid>> /\ rpc = "manager"
  BY DEF StartOrUpdateManager, vars, updaterVars
<1>2. pool.phase # "absent" /\ rp.uid = pool.uid /\ rp.repo = pool.repo
  BY <1>1, PassForPool DEF CtlInv, LivePCs
<1>3. depl = Child
  BY <1>1 DEF CtlInv, Children
<1>4. mgr' = Child
  BY <1>2 DEF StartOrUpdateManager, Child, CtlInv, Children, ProcessesServeThePool, TypeOK,
              ChildType
<1>5. Contract!Serve
  BY <1>1, <1>2, <1>3, <1>4 DEF Contract!Serve, Contract!Exists, Child
<1>6. QED
  BY <1>5 DEF Contract!ContractNext

\* The status is that of the last spec, and the finalizer is the last thing to go.
LEMMA PoolWritesRefine ==
    ASSUME CtlInv, UpdateStatus \/ RemoveFinalizer PROVE [Contract!ContractNext]_contractVars
<1>1. UNCHANGED <<depl, mgr, IF upc = "none" THEN 0 ELSE updaterUid>>
  BY DEF UpdateStatus, RemoveFinalizer, vars, updaterVars, children
<1>2. CASE pool' = pool
  BY <1>1, <1>2 DEF contractVars
<1>3. CASE UpdateStatus /\ rp = pool /\ pool' = [pool EXCEPT !.bound = TRUE]
  <2>1. pool.phase # "absent" /\ depl = Child /\ mgr = Child
    BY <1>3, PassForPool DEF UpdateStatus, CtlInv, Children, LivePCs
  <2>2. Contract!Bind
    BY <1>1, <1>3, <2>1 DEF Contract!Bind, Contract!Exists, Child
  <2>3. QED
    BY <2>2 DEF Contract!ContractNext
<1>4. CASE RemoveFinalizer /\ rp = pool /\ pool' = [pool EXCEPT !.phase = "absent", !.bound = FALSE]
  <2>1. pool.phase = "deleting" /\ mgr = Nothing /\ upc = "none"
    BY <1>4 DEF RemoveFinalizer, CtlInv, StillThere, PassAgrees, Stopped, DeletingPCs
  <2>2. Contract!Disappear
    BY <1>1, <1>4, <2>1 DEF Contract!Disappear, Contract!Nothing, Nothing
  <2>3. QED
    BY <2>2 DEF Contract!ContractNext
<1>5. QED
  BY <1>2, <1>3, <1>4 DEF UpdateStatus, RemoveFinalizer

\* The update process starts for the pool, and processes end.
LEMMA ProcessesRefine ==
    ASSUME CtlInv, StartSecretUpdater \/ UpdaterRuns \/ StopManager \/ ControllerRestarts
    PROVE  [Contract!ContractNext]_contractVars
<1>1. CASE StartSecretUpdater
  <2>1. UNCHANGED <<pool, depl, mgr>> /\ rpc \in LivePCs
    BY <1>1 DEF StartSecretUpdater, LivePCs
  <2>2. CASE UNCHANGED <<vars, updaterUid>>
    BY <2>1, <2>2 DEF contractVars, vars, updaterVars
  <2>3. CASE StartUpdater /\ updaterUid' = rp.uid
    <3>1. rp.uid = pool.uid /\ pool.phase # "absent"
      BY <2>1, PassForPool DEF CtlInv
    <3>2. upc' = "wait"
      BY <2>3 DEF StartUpdater
    <3>3. Contract!Renew
      BY <2>1, <2>3, <3>1, <3>2 DEF Contract!Renew, Contract!Exists
    <3>4. QED
      BY <3>3 DEF Contract!ContractNext
  <2>4. QED
    BY <1>1, <2>2, <2>3 DEF StartSecretUpdater
<1>2. CASE UpdaterRuns \/ StopManager \/ ControllerRestarts
  <2>1. UNCHANGED <<pool, depl>> /\ mgr' \in {mgr, Nothing}
    BY <1>2 DEF UpdaterRuns, StopManager, ControllerRestarts, poolVars, children
  <2>2. (IF upc' = "none" THEN 0 ELSE updaterUid') \in {IF upc = "none" THEN 0 ELSE updaterUid, 0}
    <3>1. CASE UpdaterRuns
      BY <3>1, UpdaterStepType DEF UpdaterRuns, children, CtlInv, TypeOK
    <3>2. CASE StopManager \/ ControllerRestarts
      BY <3>2 DEF StopManager, ControllerRestarts, vars, updaterVars
    <3>3. QED
      BY <1>2, <3>1, <3>2
  <2>3. Contract!Stop
    BY <2>1, <2>2 DEF Contract!Stop, Contract!Nothing, Nothing
  <2>4. QED
    BY <2>3 DEF Contract!ContractNext
<1>3. QED
  BY <1>1, <1>2

\* The garbage collector, and the steps that the contract does not see.
LEMMA OthersRefine ==
    ASSUME CtlInv,
           \/ PoolCacheSyncs \/ SecretEvent \/ CollectSecret \/ CollectDeployment
           \/ UserDeletesSecret \/ ReadPool \/ ReconcileSecret \/ StopSecretUpdater
           \/ StepFails \/ TimePasses \/ UNCHANGED ctlVars
    PROVE  [Contract!ContractNext]_contractVars
<1>1. CASE CollectDeployment
  BY <1>1 DEF CollectDeployment, Orphaned, Contract!ContractNext, Contract!Collect,
              Contract!Exists, Contract!Nothing, Nothing, vars, updaterVars, poolVars
<1>2. CASE PoolCacheSyncs \/ ReadPool \/ UNCHANGED ctlVars
  BY <1>2 DEF PoolCacheSyncs, ReadPool, contractVars, ctlVars, children, poolVars, vars,
              updaterVars
<1>3. CASE SecretEvent \/ CollectSecret \/ UserDeletesSecret \/ TimePasses
  BY <1>3 DEF SecretEvent, CollectSecret, UserDeletesSecret, TimePasses, SecretCacheSyncs,
              DeleteSecret, Tick, contractVars, children, poolVars, updaterVars
<1>4. CASE ReconcileSecret \/ StepFails
  BY <1>4 DEF ReconcileSecret, StepFails, CreateSecret, contractVars, children, updaterVars, vars
<1>5. CASE StopSecretUpdater
  BY <1>5 DEF StopSecretUpdater, CancelUpdater, contractVars, children, updaterVars, vars
<1>6. QED
  BY <1>1, <1>2, <1>3, <1>4, <1>5

\* The reconciler implements PoolContract: the Deployment never goes back to an older spec,
\* the manage process serves what is deployed and never another repository, Bound is told of
\* the last spec only, and nothing is left at work when the pool disappears.
THEOREM Refinement == CtlSpec => ImplementsContract
<1>1. CtlInit => Contract!ContractInit
  BY DEF CtlInit, Init, Contract!ContractInit, Contract!NoPool, NoPool, Contract!Nothing, Nothing
<1>2. CtlInv /\ [CtlNext]_ctlVars => [Contract!ContractNext]_contractVars
  BY UsersRefine, DeployRefines, ServeRefines, PoolWritesRefine, ProcessesRefine, OthersRefine
     DEF CtlNext, Reconcile
<1>3. QED
  BY <1>1, <1>2, CtlInvariant, PTL 
     DEF CtlSpec, ImplementsContract, Contract!ContractSpec, contractVars
=============================================================================
