------------------------------ MODULE PoolEnd ------------------------------
(***************************************************************************)
(* The end of a RunnerPool: its manage process is stopped and removes the  *)
(* runners of the pool, the finalizer goes, the Deployment is collected,   *)
(* and all the while pods start, register, take jobs and end.  Pods whose  *)
(* pod-template-hash label was removed belong to the Deployment no more.   *)
(* Kubernetes is external; the passes of the manage process are those of   *)
(* RunnerManager, here only as what they do to an idle pod, to one with a  *)
(* job and to one that has had it.  The controller may also stop while the *)
(* pool lives on: that too removes all its runners.                        *)
(***************************************************************************)
EXTENDS RunnerCleanup

CONSTANTS
    Replicas,   \* of the pool
    MaxStops    \* how often the controller stops or is killed

ASSUME ReplicasAssumption == Replicas \in Nat /\ MaxStops \in Nat

VARIABLES
    pod,         \* how far the pod of an own runner is
    linked,      \* the pod has the pod-template-hash label
    pool,        \* live, deleting, absent
    manager,     \* the manage process: running, stopping, none
    deployment,  \* there is the Deployment of the pool
    stops        \* how often the controller has stopped

poolVars == <<pod, linked, pool, manager, deployment, stops>>
vars == <<cleanupVars, poolVars>>

Init ==
    /\ CleanupInit
    /\ pod = [r \in Own |-> "absent"]
    /\ linked = [r \in Own |-> TRUE]
    /\ pool = "live" /\ manager = "running" /\ deployment = TRUE /\ stops = 0

\* A relaunched pod has lost its job with its listener, which runs again; a pod that is over
\* has ended without a job that was finished: its listener has left, or its container has
\* been restarted, and the pod has turned stale.
PodStates == {"absent", "starting", "listening", "relaunched", "finished", "over", "gone"}

Alive(r) == pod[r] \in PodStates \ {"absent", "gone"}
LinkedPods == {r \in Own : Alive(r) /\ linked[r]}

SetPod(r, state) ==
    /\ pod' = [pod EXCEPT ![r] = state]
    /\ UNCHANGED <<linked, pool, manager, deployment, stops>>

-----------------------------------------------------------------------------
(* Pods, the ReplicaSet and the runners of other pools.                    *)

ReplicaSetCreates(r) ==
    /\ deployment /\ pod[r] = "absent"
    /\ Cardinality(LinkedPods) < Replicas
    /\ SetPod(r, "starting")
    /\ UNCHANGED cleanupVars

\* config.sh needs the token file, which stays mounted when the Secret is gone.
Register(r) ==
    /\ pod[r] = "starting"
    /\ RegisterRunner(r)
    /\ SetPod(r, "listening")

Connect(r) ==
    /\ pod[r] \in {"listening", "relaunched"} /\ r \in Registered /\ conn[r] = "offline"
    /\ SetConnection(r, "online")
    /\ UNCHANGED poolVars

TakeJob(r) ==
    /\ pod[r] = "listening" /\ r \in Registered /\ conn[r] = "online"
    /\ SetConnection(r, "busy")
    /\ UNCHANGED poolVars

\* The runner is ephemeral.
FinishJob(r) ==
    /\ pod[r] = "listening" /\ conn[r] = "busy"
    /\ GitHubRemoves(r)
    /\ SetPod(r, "finished")

\* The listener exits with a code after which it is launched again; the job it executed is
\* over.  GitHub notices at once; until then it would refuse to remove the runner, and the
\* refusal is one of the failures of CleanupFails.
RelaunchListener(r) ==
    /\ pod[r] \in {"listening", "relaunched"} /\ conn[r] # "offline"
    /\ SetPod(r, IF conn[r] = "busy" THEN "relaunched" ELSE pod[r])
    /\ SetConnection(r, "offline")

\* The listener exits without a job, or ends with an error that restarts the container, or
\* the container is killed.
PodFails(r) ==
    /\ pod[r] \in {"starting", "listening", "relaunched"}
    /\ SetPod(r, "over")
    /\ SetConnection(r, "offline")

\* The pod ends; its runner is registered and offline.
PodGoes(r) ==
    /\ SetPod(r, "gone")
    /\ SetConnection(r, "offline")

\* The Deployment has been collected, and its pods follow.
CollectPod(r) ==
    /\ ~deployment /\ r \in LinkedPods
    /\ PodGoes(r)

\* GitHub forgets runners that are not connected.
GitHubForgets(r) ==
    /\ conn[r] = "offline"
    /\ GitHubRemoves(r)
    /\ UNCHANGED poolVars

OtherRegisters(r) == RegisterRunner(r) /\ UNCHANGED poolVars
OtherConnects(r)  == r \in Registered /\ conn[r] = "offline" /\ SetConnection(r, "online")
                     /\ UNCHANGED poolVars
OtherLeaves(r)    == GitHubRemoves(r) /\ UNCHANGED poolVars

OtherPools(r) == OtherRegisters(r) \/ OtherConnects(r) \/ OtherLeaves(r)

-----------------------------------------------------------------------------
(* Passes of the manage process.                                           *)

UnlinkPod(r) ==
    /\ manager = "running"
    /\ linked[r] /\ Alive(r) /\ (conn[r] = "busy" \/ pod[r] \in {"finished", "over"})
    /\ linked' = [linked EXCEPT ![r] = FALSE]
    /\ UNCHANGED <<cleanupVars, pod, pool, manager, deployment, stops>>

DeleteFinishedPod(r) ==
    /\ manager = "running" /\ pod[r] \in {"finished", "over"}
    /\ PodGoes(r)

\* Mutant: a pod whose runner is not in the list is left alone.
RecreateRegisteredPod(r) ==
    /\ manager = "running" /\ pod[r] \in {"starting", "listening", "relaunched"}
    /\ r \in Registered /\ conn[r] # "busy"
    /\ PodGoes(r)

\* The pod is past its recreate deadline, and no runner of its name was busy when the pass
\* listed the runners: it can have been given a job since.
RecreatePod(r) ==
    /\ manager = "running" /\ pod[r] \in {"starting", "listening", "relaunched"}
    /\ PodGoes(r)

-----------------------------------------------------------------------------
(* The end of the manage process and of the pool.                          *)

SetManager(state) ==
    /\ manager' = state
    /\ UNCHANGED <<pod, linked, pool, deployment>>

StartManager ==
    /\ pool = "live" /\ manager = "none"
    /\ SetManager("running")
    /\ UNCHANGED <<cleanupVars, stops>>

\* The context is cancelled, run returns and deleteAllRunners begins: Stop, which finalize
\* calls, or StopAll, as the controller stops.
StopManager ==
    /\ manager = "running"
    /\ SetManager("stopping")
    /\ BeginCleanup

Stop    == pool = "deleting" /\ StopManager /\ UNCHANGED stops
StopAll == stops < MaxStops /\ stops' = stops + 1 /\ StopManager

\* Both wait for the end of deleteAllRunners, whose error is only logged.
ManagerEnds ==
    /\ manager = "stopping" /\ cleanup = "idle"
    /\ SetManager("none")
    /\ UNCHANGED <<cleanupVars, stops>>

\* The controller is killed.
ControllerCrashes ==
    /\ manager # "none"
    /\ stops < MaxStops /\ stops' = stops + 1
    /\ SetManager("none")
    /\ \/ CleanupFails
       \/ cleanup = "idle" /\ UNCHANGED cleanupVars

DeletePool ==
    /\ pool = "live"
    /\ pool' = "deleting"
    /\ UNCHANGED <<cleanupVars, pod, linked, manager, deployment, stops>>

\* Mutant: the finalizer stays while GitHub lists a runner of the pool.
RemoveFinalizerAfterRunners ==
    /\ pool = "deleting" /\ manager = "none" /\ Registered \intersect Own = {}
    /\ pool' = "absent"
    /\ UNCHANGED <<cleanupVars, pod, linked, manager, deployment, stops>>

\* finalize has no process to stop any more.
RemoveFinalizer ==
    /\ pool = "deleting" /\ manager = "none"
    /\ pool' = "absent"
    /\ UNCHANGED <<cleanupVars, pod, linked, manager, deployment, stops>>

CollectDeployment ==
    /\ pool = "absent" /\ deployment
    /\ deployment' = FALSE
    /\ UNCHANGED <<cleanupVars, pod, linked, pool, manager, stops>>

\* deleteAllRunners goes on, and `meows runner remove` is called.
Cleanup            == CleanupStep /\ UNCHANGED poolVars
OperatorRemoves(r) == CommandRemoves(r) /\ UNCHANGED poolVars

-----------------------------------------------------------------------------
PodStep(r) ==
    \/ ReplicaSetCreates(r) \/ Register(r) \/ Connect(r) \/ TakeJob(r) \/ FinishJob(r)
    \/ RelaunchListener(r) \/ PodFails(r) \/ GitHubForgets(r)
    \/ CollectPod(r)
    \/ UnlinkPod(r) \/ DeleteFinishedPod(r) \/ RecreatePod(r)

EndStep ==
    StartManager \/ Stop \/ ManagerEnds \/ RemoveFinalizer \/ CollectDeployment

Next ==
    \/ \E r \in Own : PodStep(r)
    \/ \E r \in Others : OtherPools(r)
    \/ \E r \in Runners : OperatorRemoves(r)
    \/ DeletePool \/ EndStep \/ Cleanup \/ StopAll \/ ControllerCrashes

Spec == Init /\ [][Next]_vars

\* The reconciler starts the process and finalizes a deleted pool, the process makes its
\* calls and its passes, which recreate a pod without a job, the garbage collector works.
\* Nothing is assumed of jobs, of GitHub and of operators.
Fairness ==
    /\ WF_vars(EndStep) /\ WF_vars(Cleanup)
    /\ \A r \in Own :
          /\ WF_vars(CollectPod(r)) /\ WF_vars(DeleteFinishedPod(r))
          /\ WF_vars(conn[r] # "busy" /\ RecreatePod(r))

FairSpec == Spec /\ Fairness

-----------------------------------------------------------------------------
(* Properties.                                                             *)

TypeOK ==
    /\ CleanupTypeOK
    /\ pod \in [Own -> PodStates]
    /\ linked \in [Own -> BOOLEAN]
    /\ pool \in {"live", "deleting", "absent"}
    /\ manager \in {"running", "stopping", "none"}
    /\ deployment \in BOOLEAN
    /\ stops \in 0..MaxStops

\* A deleted pool disappears with its pods, whatever becomes of the removal of its runners;
\* all but the pods that have left the Deployment with their jobs.
EndedPoolIsCollected ==
    pool = "deleting" ~> pool = "absent" /\ \A r \in Own : Alive(r) => ~linked[r]

\* A manage process that stops, be it with the controller alone, removes the runners of
\* living pods, and so may GitHub and `meows runner remove`: such a pod must not wait forever
\* for a job that GitHub cannot give it.  The one that does was unlinked for a job it lost,
\* and its pool is gone: nobody manages it any more.
RunnerlessPodGoes ==
    \A r \in Own :
        pod[r] \in {"listening", "relaunched"} /\ r \notin Registered
            ~> pod[r] = "gone" \/ (pool = "absent" /\ ~linked[r])

\* README.md: "When a job has finished, meows will delete the assigned runner pod after a
\* while."
FinishedPodIsDeleted == \A r \in Own : pod[r] = "finished" ~> pod[r] = "gone"
=============================================================================
