--------------------------- MODULE RunnerManager ---------------------------
(***************************************************************************)
(* One manageProcess of the runner manager (controllers/runner_manager.go) *)
(* with the pods of its RunnerPool, the Deployment that creates them and   *)
(* the runners registered on GitHub.  Every call the process makes to the  *)
(* API server, to GitHub, to a pod or to the slack agent is an action of   *)
(* its own: between two of them the pods, GitHub and the Deployment move.  *)
(* Pods behave as PodContract says.  Kubernetes and GitHub are external.   *)
(***************************************************************************)
EXTENDS PodContract, Integers, FiniteSets

CONSTANTS
    NoPod,      \* no pod is being maintained
    Confs,      \* the RunnerPool specs the pool may have
    MaxTime,    \* bound: the manager's clock saturates here
    MaxFaults   \* bound: failed calls, crashes, container restarts, lost pods

ConfType == [replicas : Nat, maxRunnerPods : Nat, needNotification : BOOLEAN,
             extendDuration : Nat, recreateDeadline : Nat, denyDisruption : BOOLEAN,
             template : Nat]

ASSUME PodsAssumption == IsFiniteSet(Pods) /\ NoPod \notin Pods
ASSUME ConfsAssumption == Confs \subseteq ConfType /\ Confs # {}
ASSUME ManagerBounds == MaxTime \in Nat /\ MaxTime > MaxClock /\ MaxFaults \in Nat

VARIABLES
    (* the API server *)
    conf,           \* the spec of the RunnerPool
    phase,          \* the pods' phase: absent, pending, running, gone
    hash,           \* the pod has the pod-template-hash label: it is linked
    protected,      \* the pod has the label its PodDisruptionBudget selects
    pdb,            \* there is a PodDisruptionBudget for the pod
    born,           \* creationTimestamp
    (* the process *)
    mpc,            \* the next call
    pconf,          \* the fields update() assigns
    lastCheckTime,
    prevRunnerNames,
    metricNames,    \* the runners for which metrics are exported
    stopping,       \* the context is cancelled
    podList, runnerList,   \* what the pass has fetched
    pass,           \* the local variables of maintainRunnerPods
    todo,           \* what is left of the list the loop ranges over
    cur, got,       \* the pod at hand and the status it answered
    (* history *)
    notified,       \* how often the result of the pod's job was posted
    excused,        \* the notification of the pod may be lost: see below
    faults

k8sVars   == <<conf, phase, hash, protected, pdb, born>>
podLists  == <<podList, runnerList>>
loopVars  == <<pass, todo, cur, got>>
procVars  == <<pconf, lastCheckTime, prevRunnerNames, metricNames, stopping>>
mgrVars   == <<mpc, procVars, podLists, loopVars>>
ghostVars == <<notified, excused, faults>>
vars      == <<clock, podVars, k8sVars, mgrVars, ghostVars>>

MaintenancePCs == {"loop", "notify", "delete", "put", "pdb", "relabel", "unlink"}

MPCs == {"down", "idle", "runners", "begin", "loop", "notify", "delete", "put", "pdb",
         "relabel", "unlink", "offline", "cleanup", "removing"}

Listed == {"none", "idle", "busy", "offline", "lost"}

NoList    == [pods |-> {}, running |-> {}, hash |-> {}, protected |-> {}]
NoRunners == [p \in Pods |-> "none"]
NoPass    == [now |-> 0, last |-> 0, needNotification |-> FALSE, extendDuration |-> 0,
              recreateDeadline |-> 0, budget |-> 0, removable |-> 0, lostReplies |-> 0]

\* The process has just been started, and has read the clock, over a pool without pods.
Init ==
    /\ ContractInit
    /\ conf \in Confs
    /\ phase = [p \in Pods |-> "absent"]
    /\ hash = [p \in Pods |-> TRUE]
    /\ protected = [p \in Pods |-> FALSE]
    /\ pdb = [p \in Pods |-> FALSE]
    /\ born = [p \in Pods |-> 0]
    /\ mpc = "idle" /\ pconf = conf /\ lastCheckTime = clock
    /\ prevRunnerNames = {} /\ metricNames = {} /\ stopping = FALSE
    /\ podList = NoList /\ runnerList = NoRunners
    /\ pass = NoPass /\ todo = {} /\ cur = NoPod /\ got = Blank
    /\ notified = [p \in Pods |-> 0]
    /\ excused = [p \in Pods |-> FALSE]
    /\ faults = 0

-----------------------------------------------------------------------------
Exists(p)  == phase[p] \in {"pending", "running"}
Linked     == {p \in Pods : Exists(p) /\ hash[p]}
Unlinked   == {p \in Pods : Exists(p) /\ ~hash[p]}

\* The Deployment has no strategy of its own: while an edited template is rolled out, a
\* quarter of the replicas may exist beside them (maxSurge, rounded up).  Of which template
\* a pod is, is left out: with a second template every linked pod may be an old one.
TemplateVaries == \E c, d \in Confs : c.template # d.template
Surge(c)       == IF TemplateVaries THEN (c.replicas + 3) \div 4 ELSE 0

Fault      == faults < MaxFaults /\ faults' = faults + 1
ReadClock  == clock' = IF clock < MaxTime THEN clock + 1 ELSE clock

\* The finish time of the pod has been read, published or not.
FinishTime(p) ==
    IF stage[p] = "drafted" THEN draft[p].finishedAt ELSE status[p].finishedAt

\* What ListRunners says of a runner: busy and connected or not.
Listing(p) ==
    CASE reg[p] = "none"    -> "none"
      [] reg[p] = "offline" -> "offline"
      [] reg[p] = "online"  -> "idle"
      [] reg[p] = "busy"    -> IF job[p] = "running" THEN "busy" ELSE "lost"

Registered == {p \in Pods : reg[p] # "none"}

\* The pod is deleted; its container dies with the job it executes.
Terminate(p) ==
    /\ phase' = [phase EXCEPT ![p] = "gone"]
    /\ pdb' = [pdb EXCEPT ![p] = FALSE]
    /\ stage' = [stage EXCEPT ![p] = "boot"]
    /\ started' = [started EXCEPT ![p] = FALSE]
    /\ status' = [status EXCEPT ![p] = Blank]
    /\ draft' = [draft EXCEPT ![p] = NoDraft]
    /\ reg' = [reg EXCEPT ![p] = IF @ = "online" THEN "offline" ELSE @]
    /\ job' = [job EXCEPT ![p] = IF @ = "running" THEN "done" ELSE @]
    /\ UNCHANGED <<conf, hash, protected, born>>

-----------------------------------------------------------------------------
(* Pods, Deployment and GitHub.                                            *)

\* The pass will still ask the pod for its status.
VisitDue(p) == mpc \in MaintenancePCs /\ p \in todo /\ p \in podList.running

\* By the pod's clock, which is behind, its job has ended before a check already made.
DraftsLate(p) ==
    /\ stage[p] = "finished" /\ stage'[p] = "drafted"
    /\ draft'[p].finishedAt <= IF VisitDue(p) THEN pass.last ELSE lastCheckTime

PodRuns(p) ==
    /\ phase[p] = "running"
    /\ PodStep(p)
    /\ excused' = [excused EXCEPT ![p] = @ \/ DraftsLate(p)]
    /\ UNCHANGED <<k8sVars, mgrVars, notified, faults>>

ContainerRestarts(p) ==
    /\ phase[p] = "running"
    /\ Restart(p)
    /\ Fault
    /\ UNCHANGED <<k8sVars, mgrVars, notified, excused>>

\* The slack agent or a user sets the deletion time of a finished pod.
ClientSetsDeletionTime(p) ==
    /\ phase[p] = "running" /\ status[p].state = "debugging"
    /\ \E t \in Times : SetDeletionTime(p, t)
    /\ UNCHANGED <<k8sVars, mgrVars, ghostVars>>

\* The ReplicaSet sees only linked pods.
ReplicaSetCreates(p) ==
    /\ phase[p] = "absent"
    /\ Cardinality(Linked) < conf.replicas + Surge(conf)
    /\ phase' = [phase EXCEPT ![p] = "pending"]
    /\ born' = [born EXCEPT ![p] = clock]
    /\ UNCHANGED <<clock, podVars, conf, hash, protected, pdb, mgrVars, ghostVars>>

ReplicaSetDeletes(p) ==
    /\ p \in Linked
    /\ Cardinality(Linked) > conf.replicas \/ TemplateVaries
    /\ Terminate(p)
    /\ UNCHANGED <<clock, mgrVars, ghostVars>>

KubeletStarts(p) ==
    /\ phase[p] = "pending"
    /\ phase' = [phase EXCEPT ![p] = "running"]
    /\ UNCHANGED <<clock, podVars, conf, hash, protected, pdb, born, mgrVars, ghostVars>>

\* A pod is lost with its node.
PodLost(p) ==
    /\ Exists(p)
    /\ Terminate(p)
    /\ Fault
    /\ UNCHANGED <<clock, mgrVars, notified, excused>>

\* GitHub forgets runners that are not connected.
GitHubForgets(p) ==
    /\ Listing(p) \in {"offline", "lost"}
    /\ Deregister(p)
    /\ UNCHANGED <<k8sVars, mgrVars, ghostVars>>

\* GitHub gives the job of a runner up that will not come back.
GitHubNotices(p) ==
    /\ Listing(p) = "lost" /\ ~Exists(p)
    /\ reg' = [reg EXCEPT ![p] = "offline"]
    /\ UNCHANGED <<clock, stage, started, status, draft, job, k8sVars, mgrVars, ghostVars>>

\* The spec of the RunnerPool is edited; the Deployment follows it at once.
EditPool ==
    /\ conf' \in Confs \ {conf}
    /\ UNCHANGED <<clock, podVars, phase, hash, protected, pdb, born, mgrVars, ghostVars>>

-----------------------------------------------------------------------------
(* Life of the process.                                                    *)

\* newManageProcess: the check time starts now.  A job that ended before will never be
\* notified by this process.
StartProcess ==
    /\ mpc = "down"
    /\ mpc' = "idle"
    /\ pconf' = conf
    /\ ReadClock /\ lastCheckTime' = clock'
    /\ excused' = [p \in Pods |-> excused[p] \/ FinishTime(p) # NoTime]
    /\ UNCHANGED <<podVars, k8sVars, prevRunnerNames, metricNames, stopping, podLists,
                   loopVars, notified, faults>>

\* update(): the reconciler passes the edited spec on, at any point of a pass.
UpdateProcess ==
    /\ mpc # "down" /\ pconf # conf
    /\ pconf' = conf
    /\ UNCHANGED <<clock, podVars, k8sVars, mpc, lastCheckTime, prevRunnerNames,
                   metricNames, stopping, podLists, loopVars, ghostVars>>

ForgetPass ==
    /\ podList' = NoList /\ runnerList' = NoRunners
    /\ pass' = NoPass /\ todo' = {} /\ cur' = NoPod /\ got' = Blank

\* The controller is killed.
ProcessCrashes ==
    /\ mpc # "down"
    /\ Fault
    /\ mpc' = "down" /\ stopping' = FALSE
    /\ prevRunnerNames' = {} /\ metricNames' = {}
    /\ ForgetPass
    /\ UNCHANGED <<clock, podVars, k8sVars, pconf, lastCheckTime, notified, excused>>

\* stop() cancels the context and waits for the pass and the cleanup to end.
StopProcess ==
    /\ mpc \notin {"down", "cleanup", "removing"} /\ ~stopping
    /\ Fault
    /\ stopping' = TRUE
    /\ UNCHANGED <<clock, podVars, k8sVars, mpc, pconf, lastCheckTime, prevRunnerNames,
                   metricNames, podLists, loopVars, notified, excused>>

\* run() returns: deleteMetrics, then deleteAllRunners with a context of its own.
LeaveRun ==
    /\ mpc = "idle" /\ stopping
    /\ mpc' = "cleanup"
    /\ metricNames' = {}
    /\ UNCHANGED <<clock, podVars, k8sVars, pconf, lastCheckTime, prevRunnerNames,
                   stopping, podLists, loopVars, ghostVars>>

ProcessEnds ==
    /\ mpc' = "down" /\ stopping' = FALSE /\ prevRunnerNames' = {}
    /\ ForgetPass
    /\ UNCHANGED <<pconf, lastCheckTime, metricNames>>

\* deleteAllRunners: list, then remove every runner; the first error ends it.
ListAllRunners ==
    /\ mpc = "cleanup"
    /\ \/ /\ mpc' = "removing"
          /\ todo' = Registered
          /\ UNCHANGED <<procVars, podLists, pass, cur, got, faults>>
       \/ ProcessEnds /\ Fault
    /\ UNCHANGED <<clock, podVars, k8sVars, notified, excused>>

\* GitHub refuses to remove a runner it holds for busy, connected or not, and does not
\* know a removed one.
Removable(p) == reg[p] \in {"offline", "online"}

RemoveRunner(p) == Removable(p) /\ Deregister(p)

RemoveAnyRunner(p) ==
    /\ mpc = "removing" /\ p \in todo
    /\ \/ /\ RemoveRunner(p)
          /\ todo' = todo \ {p}
          /\ UNCHANGED <<mpc, procVars, podLists, pass, cur, got, faults>>
       \/ /\ ~Removable(p)
          /\ ProcessEnds
          /\ UNCHANGED <<clock, podVars, faults>>
       \/ /\ ProcessEnds /\ Fault
          /\ UNCHANGED <<clock, podVars>>
    /\ UNCHANGED <<k8sVars, notified, excused>>

AllRemoved ==
    /\ mpc = "removing" /\ todo = {}
    /\ ProcessEnds
    /\ UNCHANGED <<clock, podVars, k8sVars, ghostVars>>

-----------------------------------------------------------------------------
(* runOnce: the two lists.  An error of either ends the pass before        *)
(* lastCheckTime is touched.                                               *)

FetchRunnerPods ==
    /\ mpc = "idle" /\ ~stopping
    /\ mpc' = "runners"
    /\ podList' = [pods      |-> {p \in Pods : Exists(p)},
                   running   |-> {p \in Pods : phase[p] = "running"},
                   hash      |-> Linked,
                   protected |-> {p \in Pods : Exists(p) /\ protected[p]}]
    /\ UNCHANGED <<clock, podVars, k8sVars, procVars, runnerList, loopVars, ghostVars>>

\* Mutant: the series of runners that have disappeared stay.
UpdateMetricsAdding(current) ==
    /\ metricNames' = metricNames \union current
    /\ prevRunnerNames' = current

\* updateMetrics: the series of the runners that have disappeared since the last pass
\* are deleted.
UpdateMetrics(current) ==
    /\ metricNames' = (metricNames \union current) \ (prevRunnerNames \ current)
    /\ prevRunnerNames' = current

\* What ListRunners returns: a runner can be missing, when one that is listed before it is
\* removed between two pages (see MissedOnlyIfShifted of RunnerCleanup).
ListRunners(missing) ==
    /\ runnerList' = [p \in Pods |-> IF p \in missing THEN "none" ELSE Listing(p)]
    /\ UpdateMetrics(Registered \ missing)

FetchRunners ==
    /\ mpc = "runners"
    /\ \/ /\ ~stopping
          /\ mpc' = "begin"
          /\ \/ ListRunners({}) /\ UNCHANGED faults
             \/ Fault /\ \E missing \in SUBSET Registered \ {{}} : ListRunners(missing)
          /\ UNCHANGED <<podList, loopVars>>
       \/ /\ stopping \/ faults < MaxFaults
          /\ faults' = IF stopping THEN faults ELSE faults + 1
          /\ mpc' = "idle"
          /\ ForgetPass
          /\ UNCHANGED <<prevRunnerNames, metricNames>>
    /\ UNCHANGED <<clock, podVars, k8sVars, pconf, lastCheckTime, stopping,
                   notified, excused>>

\* Mutant: the pods that have no label any more are not counted.
numUnlabeledForgotten == 0

numUnlabeledPods == Cardinality(podList.pods \ podList.hash)

\* Mutant: the clock is read when the process starts, and never again.
ReadNowOnce == UNCHANGED <<clock, lastCheckTime>>

ReadNow == ReadClock /\ lastCheckTime' = clock'

\* The head of maintainRunnerPods.  The finished pods it does not see as running can no
\* longer be notified.
BeginMaintenance ==
    /\ mpc = "begin"
    /\ mpc' = "loop"
    /\ ReadNow
    /\ LET budget == pconf.maxRunnerPods - pconf.replicas
       IN  pass' = [now |-> lastCheckTime', last |-> lastCheckTime,
                    needNotification |-> pconf.needNotification,
                    extendDuration   |-> pconf.extendDuration,
                    recreateDeadline |-> pconf.recreateDeadline,
                    budget |-> budget,
                    removable |-> budget - numUnlabeledPods,
                    lostReplies |-> 0]
    /\ todo' = podList.pods
    /\ excused' = [p \in Pods |-> excused[p] \/ (p \notin podList.running
                                                 /\ FinishTime(p) # NoTime)]
    /\ UNCHANGED <<podVars, k8sVars, pconf, prevRunnerNames, metricNames, stopping,
                   podLists, cur, got, notified, faults>>

-----------------------------------------------------------------------------
(* The body of the loop of maintainRunnerPods: which call comes next for   *)
(* pod p that answered status st.                                          *)

Debugging(st)   == st.state = "debugging"
NeedExtend(st)  == st.extend /\ pass.extendDuration # 0

\* Mutants: every finished pod is fresh; the times compared are of the same pass.
FreshAlways(st)   == st.finishedAt # NoTime
FreshSinceNow(st) == st.finishedAt > pass.now

Fresh(st)       == st.finishedAt > pass.last

Expired(st)     == IF st.deletionTime # NoTime
                   THEN pass.now > st.deletionTime
                   ELSE NeedExtend(st) => pass.now > st.finishedAt + pass.extendDuration

\* Mutant: a busy runner counts only when it is not connected.
BusyIfLost(p)   == runnerList[p] = "lost"

BusyRunner(p)   == runnerList[p] \in {"busy", "lost"}

Occupied(p, st) == BusyRunner(p) \/ Debugging(st)
TooOld(p)       == born[p] + pass.recreateDeadline < pass.now

\* Mutant: one more than the budget allows.
AfterProtectionOfOneMore(p) ==
    IF pass.removable >= 0 /\ p \in podList.hash THEN "unlink" ELSE "loop"

AfterProtection(p) ==
    IF pass.removable > 0 /\ p \in podList.hash THEN "unlink" ELSE "loop"

AfterDebugging(p, st) ==
    CASE ~Occupied(p, st) -> IF TooOld(p) THEN "delete" ELSE "loop"
      [] Occupied(p, st)  -> IF pconf.denyDisruption /\ p \notin podList.protected
                             THEN "pdb" ELSE AfterProtection(p)

AfterNotification(p, st) ==
    IF Expired(st) THEN "delete"
    ELSE IF st.deletionTime = NoTime /\ Fresh(st) THEN "put"
    ELSE AfterDebugging(p, st)

AfterStatus(p, st) ==
    CASE st.state = "stale" -> "delete"
      [] Debugging(st) -> IF pass.needNotification /\ Fresh(st)
                          THEN "notify" ELSE AfterNotification(p, st)
      [] OTHER -> AfterDebugging(p, st)

\* The next call for p, or the next pod of the list.
Proceed(p, st, next) ==
    /\ mpc' = next
    /\ cur' = IF next = "loop" THEN NoPod ELSE p
    /\ got' = IF next = "loop" THEN Blank ELSE st

\* Mutant: the pod at hand is kept.
KeepPod == mpc' = "loop" /\ UNCHANGED <<cur, got>>

NextPod == Proceed(NoPod, Blank, "loop")

\* A call of the process fails: on its own, or because the context is cancelled.
CallFails ==
    /\ stopping \/ faults < MaxFaults
    /\ faults' = IF stopping THEN faults ELSE faults + 1

SkipPod(p) ==
    /\ mpc = "loop" /\ p \in todo /\ p \notin podList.running
    /\ todo' = todo \ {p}
    /\ UNCHANGED <<clock, podVars, k8sVars, mpc, procVars, podLists, pass, cur, got,
                   ghostVars>>

\* The job ended before the clock reading of this pass: no later pass takes it for fresh.
DueNow(p) == FinishTime(p) # NoTime /\ FinishTime(p) <= pass.now

\* No server answers in a pod that is not running, or that has not come so far yet.
NoAnswer(p) == phase[p] # "running" \/ stage[p] = "boot"

GetStatus(p) ==
    /\ mpc = "loop" /\ p \in todo /\ p \in podList.running
    /\ todo' = todo \ {p}
    /\ \/ /\ ~stopping /\ phase[p] = "running"
          /\ Proceed(p, status[p], AfterStatus(p, status[p]))
          /\ excused' = [excused EXCEPT ![p] =
                @ \/ (DueNow(p) /\ (stage[p] = "drafted" \/ ~pass.needNotification))]
          /\ UNCHANGED faults
       \/ /\ NoAnswer(p)
          /\ UNCHANGED <<mpc, cur, got, excused, faults>>
       \/ /\ phase[p] = "running"
          /\ CallFails
          /\ excused' = [excused EXCEPT ![p] = @ \/ DueNow(p)]
          /\ UNCHANGED <<mpc, cur, got>>
    /\ UNCHANGED <<clock, podVars, k8sVars, procVars, podLists, pass, notified>>

\* A failed post is only logged; it may have been delivered.
PostResult ==
    /\ mpc = "notify"
    /\ \/ /\ ~stopping
          /\ notified' = [notified EXCEPT ![cur] = @ + 1]
          /\ UNCHANGED <<excused, faults>>
       \/ /\ CallFails
          /\ excused' = [excused EXCEPT ![cur] = @ \/ DueNow(cur)]
          /\ UNCHANGED notified
    /\ Proceed(cur, got, AfterNotification(cur, got))
    /\ UNCHANGED <<clock, podVars, k8sVars, procVars, podLists, pass, todo>>

\* Delete of a pod that is gone already is no error.
DeletePod ==
    /\ mpc = "delete"
    /\ \/ /\ ~stopping /\ Exists(cur)
          /\ Terminate(cur)
          /\ UNCHANGED faults
       \/ /\ ~stopping /\ ~Exists(cur)
          /\ UNCHANGED <<podVars, k8sVars, faults>>
       \/ /\ CallFails
          /\ UNCHANGED <<podVars, k8sVars>>
    /\ NextPod
    /\ UNCHANGED <<clock, procVars, podLists, pass, todo, notified, excused>>

PutDeletionTime ==
    /\ mpc = "put"
    /\ \/ /\ ~stopping /\ phase[cur] = "running"
          /\ SetDeletionTime(cur, got.finishedAt + pass.extendDuration)
          /\ UNCHANGED faults
       \/ /\ NoAnswer(cur)
          /\ UNCHANGED <<clock, podVars, faults>>
       \/ /\ CallFails
          /\ UNCHANGED <<clock, podVars>>
    /\ Proceed(cur, got, AfterDebugging(cur, got))
    /\ UNCHANGED <<k8sVars, procVars, podLists, pass, todo, notified, excused>>

CreatePDB ==
    /\ mpc = "pdb"
    /\ \/ /\ ~stopping
          /\ pdb' = IF Exists(cur) THEN [pdb EXCEPT ![cur] = TRUE] ELSE pdb
          /\ Proceed(cur, got, "relabel")
          /\ UNCHANGED faults
       \/ /\ CallFails
          /\ NextPod
          /\ UNCHANGED pdb
    /\ UNCHANGED <<clock, podVars, conf, phase, hash, protected, born, procVars, podLists,
                   pass, todo, notified, excused>>

\* Update sends the labels of the pod as they were listed, with its resource version:
\* it fails when the pod has changed since.
Updatable(p) == Exists(p) /\ hash[p] = (p \in podList.hash)

\* Mutant: a failed update does not stop the visit of the pod.
RelabelOrGoOn ==
    /\ mpc = "relabel"
    /\ \/ /\ ~stopping /\ Updatable(cur)
          /\ protected' = [protected EXCEPT ![cur] = TRUE]
          /\ podList' = [podList EXCEPT !.protected = @ \union {cur}]
          /\ UNCHANGED faults
       \/ /\ CallFails
          /\ UNCHANGED <<protected, podList>>
    /\ Proceed(cur, got, AfterProtection(cur))
    /\ UNCHANGED <<clock, podVars, conf, phase, hash, pdb, born, procVars, runnerList, pass,
                   todo, notified, excused>>

RelabelPod ==
    /\ mpc = "relabel"
    /\ \/ /\ ~stopping /\ Updatable(cur)
          /\ protected' = [protected EXCEPT ![cur] = TRUE]
          /\ podList' = [podList EXCEPT !.protected = @ \union {cur}]
          /\ Proceed(cur, got, AfterProtection(cur))
          /\ UNCHANGED faults
       \/ /\ ~Updatable(cur)
          /\ NextPod
          /\ UNCHANGED <<protected, podList, faults>>
       \/ /\ CallFails
          /\ NextPod
          /\ UNCHANGED <<protected, podList>>
    /\ UNCHANGED <<clock, podVars, conf, phase, hash, pdb, born, procVars, runnerList, pass,
                   todo, notified, excused>>

\* The pod leaves the ReplicaSet.  The reply of an update that succeeded can be lost, on its
\* own or because the context is cancelled before it arrives.
UnlinkPod ==
    /\ mpc = "unlink"
    /\ \/ /\ ~stopping /\ Updatable(cur)
          /\ hash' = [hash EXCEPT ![cur] = FALSE]
          /\ pass' = [pass EXCEPT !.removable = @ - 1]
          /\ UNCHANGED faults
       \/ /\ Updatable(cur)
          /\ Fault
          /\ hash' = [hash EXCEPT ![cur] = FALSE]
          /\ pass' = [pass EXCEPT !.lostReplies = @ + 1]
       \/ /\ ~Updatable(cur)
          /\ UNCHANGED <<hash, pass, faults>>
       \/ /\ CallFails
          /\ UNCHANGED <<hash, pass>>
    /\ NextPod
    /\ UNCHANGED <<clock, podVars, conf, phase, protected, pdb, born, procVars, podLists,
                   todo, notified, excused>>

-----------------------------------------------------------------------------
(* deleteOfflineRunners: the first error ends it.                          *)

\* Mutant: the test whether the pod exists is not negated.
SparingOrphans ==
    /\ mpc = "loop" /\ todo = {}
    /\ mpc' = "offline"
    /\ todo' = {p \in Pods : runnerList[p] \in {"offline", "lost"}} \intersect podList.pods
    /\ UNCHANGED <<clock, podVars, k8sVars, procVars, podLists, pass, cur, got, ghostVars>>

MaintenanceEnds ==
    /\ mpc = "loop" /\ todo = {}
    /\ mpc' = "offline"
    /\ todo' = {p \in Pods : runnerList[p] \in {"offline", "lost"}} \ podList.pods
    /\ UNCHANGED <<clock, podVars, k8sVars, procVars, podLists, pass, cur, got, ghostVars>>

PassEnds ==
    /\ mpc' = "idle"
    /\ ForgetPass

RemoveOfflineRunner(p) ==
    /\ mpc = "offline" /\ p \in todo
    /\ \/ /\ ~stopping
          /\ RemoveRunner(p)
          /\ todo' = todo \ {p}
          /\ UNCHANGED <<mpc, podLists, pass, cur, got, faults>>
       \/ /\ ~Removable(p)
          /\ PassEnds
          /\ UNCHANGED <<clock, podVars, faults>>
       \/ /\ CallFails
          /\ PassEnds
          /\ UNCHANGED <<clock, podVars>>
    /\ UNCHANGED <<k8sVars, procVars, notified, excused>>

AllOfflineRemoved ==
    /\ mpc = "offline" /\ todo = {}
    /\ PassEnds
    /\ UNCHANGED <<clock, podVars, k8sVars, procVars, ghostVars>>

-----------------------------------------------------------------------------
PodEnvironment(p) ==
    \/ PodRuns(p) \/ ContainerRestarts(p) \/ ClientSetsDeletionTime(p)
    \/ ReplicaSetCreates(p) \/ ReplicaSetDeletes(p) \/ KubeletStarts(p) \/ PodLost(p)
    \/ GitHubForgets(p) \/ GitHubNotices(p)

Pass ==
    \/ FetchRunnerPods \/ FetchRunners \/ BeginMaintenance
    \/ \E p \in Pods : SkipPod(p) \/ GetStatus(p) \/ RemoveOfflineRunner(p)
    \/ PostResult \/ DeletePod \/ PutDeletionTime
    \/ CreatePDB \/ RelabelPod \/ UnlinkPod
    \/ MaintenanceEnds \/ AllOfflineRemoved

Cleanup ==
    \/ LeaveRun \/ ListAllRunners \/ AllRemoved
    \/ \E p \in Pods : RemoveAnyRunner(p)

Next ==
    \/ \E p \in Pods : PodEnvironment(p)
    \/ EditPool
    \/ StartProcess \/ UpdateProcess \/ StopProcess \/ ProcessCrashes
    \/ Pass \/ Cleanup

Spec == Init /\ [][Next]_vars

\* The process makes its calls, and is started again when it is down (by the next
\* controller); a booting entrypoint runs.  GitHub does not hold a runner without a pod for
\* busy for ever.  Nothing is assumed of jobs, of users and of the Deployment.
Fairness ==
    /\ WF_vars(Pass) /\ WF_vars(Cleanup) /\ WF_vars(StartProcess)
    /\ \A p \in Pods : WF_vars(stage[p] = "boot" /\ PodRuns(p)) /\ WF_vars(GitHubNotices(p))

FairSpec == Spec /\ Fairness

-----------------------------------------------------------------------------
(* Properties.                                                             *)

PassType == [now : Nat, last : Nat, needNotification : BOOLEAN, extendDuration : Nat,
             recreateDeadline : Nat, budget : Int, removable : Int, lostReplies : Nat]

PodsTypeOK ==
    /\ clock \in Nat
    /\ stage \in [Pods -> Stages] /\ started \in [Pods -> BOOLEAN]
    /\ status \in [Pods -> Statuses] /\ draft \in [Pods -> Drafts]
    /\ reg \in [Pods -> Regs] /\ job \in [Pods -> Jobs]

K8sTypeOK ==
    /\ conf \in Confs
    /\ phase \in [Pods -> {"absent", "pending", "running", "gone"}]
    /\ hash \in [Pods -> BOOLEAN] /\ protected \in [Pods -> BOOLEAN]
    /\ pdb \in [Pods -> BOOLEAN] /\ born \in [Pods -> Nat]

CallPCs == {"notify", "delete", "put", "pdb", "relabel", "unlink"}

ProcessTypeOK ==
    /\ mpc \in MPCs /\ pconf \in Confs /\ lastCheckTime \in Nat /\ stopping \in BOOLEAN
    /\ prevRunnerNames \subseteq Pods /\ metricNames \subseteq Pods
    /\ podList \in [pods : SUBSET Pods, running : SUBSET Pods, hash : SUBSET Pods,
                    protected : SUBSET Pods]
    /\ runnerList \in [Pods -> Listed]
    /\ pass \in PassType
    /\ todo \subseteq Pods /\ cur \in Pods \union {NoPod} /\ got \in Statuses
    /\ mpc \in CallPCs <=> cur \in Pods

HistoryTypeOK ==
    notified \in [Pods -> Nat] /\ excused \in [Pods -> BOOLEAN] /\ faults \in Nat

TypeOK == PodsTypeOK /\ K8sTypeOK /\ ProcessTypeOK /\ HistoryTypeOK

\* An update that unlinks a pod never leaves more unlinked pods than maxRunnerPods -
\* replicas, as the pass read them, allows; only an update whose reply was lost is not
\* counted.  The pods listed, the pods unlinked since, and the pods that disappeared
\* since all enter into it.
UnlinkWithinBudget ==
    [][\A p \in Pods : hash[p] /\ ~hash'[p] =>
          Cardinality(Unlinked') <= pass.budget + pass'.lostReplies]_vars

\* docs/crd-runner-pool.md calls maxRunnerPods the number of runner pods to keep, and without
\* it "it will keep the number of pods specified in `replicas`".  The Deployment replaces
\* every pod the process unlinks, and the two know nothing of each other; yet there are
\* never more pods than the replicas (with the surge, when templates are edited) and the
\* budgets of the specs add up to.  A failure may cost one more.
PodsStayWithinMax ==
    \A R, B \in 0..Cardinality(Pods) :
        (\A c \in Confs : c.replicas + Surge(c) <= R /\ c.maxRunnerPods - c.replicas <= B)
            => Cardinality({p \in Pods : Exists(p)}) <= R + B + faults

\* In a pool that denies disruption a pod is unlinked only under the protection of its
\* PodDisruptionBudget: budget, then label, then unlinking, whatever fails in between.
UnlinkedIsProtected ==
    (\A c \in Confs : c.denyDisruption) =>
        \A p \in Unlinked : protected[p] /\ pdb[p]

\* The process kills no job that was running when the pass listed the runners and that the
\* list shows: a job it kills was assigned since, or its runner was missing from the list,
\* and the pod is past its recreate deadline.
ProcessDeletes(p) ==
    mpc = "delete" /\ cur = p /\ mpc' = "loop" /\ Exists(p) /\ phase'[p] = "gone"

ListedJobSurvives ==
    [][\A p \in Pods : ProcessDeletes(p) /\ job[p] = "running" =>
          runnerList[p] # "busy" /\ TooOld(p) /\ got.state = "active"]_vars

\* The result of a job is posted once, or twice when the job ends between the clock
\* reading of a pass and the moment the pass looks at the pod; never more often, across
\* failures and restarts of the process.
NotifiedAtMostTwice == \A p \in Pods : notified[p] <= 2

\* A pod whose finish time lies before the last check is never going to be notified.  It
\* has been, or one of the known causes took the notification away: a failed call to the
\* pod or to the slack agent, a process started since, a pod the pass had not listed as
\* running, a status drafted before the pass and published after its visit, a pass made
\* while the edited spec had notification off, or a finish time by a pod's clock that is
\* behind a check already made.  A failed list, or an edit of anything else, is no cause.
LostOnlyIfExcused ==
    \A p \in Pods :
        /\ mpc # "down" /\ phase[p] = "running" /\ Debugging(status[p])
        /\ status[p].finishedAt <= lastCheckTime
        /\ notified[p] = 0 /\ ~excused[p]
        => \/ mpc \in MaintenancePCs /\ p \in todo
           \/ mpc = "notify" /\ cur = p

\* docs/user-manual.md: "When a job fails, meows sends the following Slack message."
\* Without any fault the process does not delete a pod that tells of a finished job before
\* it has posted the result.
FinishedJobIsNotified ==
    [][\A p \in Pods :
          /\ ProcessDeletes(p) /\ Debugging(status[p]) /\ job[p] = "done"
          /\ pass.needNotification /\ faults = 0
          => notified[p] > 0]_vars

\* Metrics are exported for the runners of the last list, and for none when no process
\* manages the pool.
MetricsFollowTheList ==
    metricNames = IF mpc \in {"down", "cleanup", "removing"} THEN {} ELSE prevRunnerNames

\* docs/design.md: "The goroutine deletes runners who are offline and do not have a
\* related runner pod."
RemovedRunnerHasNoPod ==
    [][\A p \in Pods : mpc = "offline" /\ todo' = todo \ {p} /\ reg'[p] # reg[p]
          => ~Exists(p)]_vars

\* "When a job in a runner pod gets finished, meows will delete the pod": a pod that
\* answers debugging or stale is deleted, at its deletion time at the latest.
FinishedPodIsDeleted ==
    \A p \in Pods :
        phase[p] = "running" /\ status[p].state \in {"debugging", "stale"}
            ~> phase[p] = "gone"

\* A runner that was left behind by its pod is removed from GitHub.
OrphanRunnerIsRemoved ==
    \A p \in Pods : phase[p] = "gone" /\ Listing(p) \in {"offline", "lost"} ~> reg[p] = "none"

\* A pod that is never given a job is recreated after the recreate deadline (when the
\* deadline falls within the bounded clock).
IdlePodIsRecreated ==
    \A p \in Pods :
        phase[p] = "running" /\ born[p] + conf.recreateDeadline < MaxTime
            ~> (phase[p] = "gone" \/ job[p] # "none")
=============================================================================
