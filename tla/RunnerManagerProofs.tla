------------------------ MODULE RunnerManagerProofs ------------------------
(***************************************************************************)
(* Proofs about RunnerManager, for every finite set of pods, every set of  *)
(* RunnerPool specs and every bound: types, the unlinking budget, the      *)
(* metrics, and the protection of unlinked pods.                           *)
(***************************************************************************)
EXTENDS RunnerManager, FiniteSetTheorems, TLAPS

-----------------------------------------------------------------------------
(* Types.                                                                  *)

\* The blank status and the empty draft have their types.
LEMMA BlankTypes == Blank \in Statuses /\ NoDraft \in Drafts
BY DEF Blank, NoDraft, Statuses, Drafts, NoTime

\* The locals of a process between two passes have their types.
LEMMA NoPassTypes ==
    /\ NoList \in [pods : SUBSET Pods, running : SUBSET Pods, hash : SUBSET Pods,
                   protected : SUBSET Pods]
    /\ NoRunners \in [Pods -> Listed]
    /\ NoPass \in PassType
BY DEF NoList, NoRunners, Listed, NoPass, PassType

\* A pod keeps its types, whatever it does by itself.
LEMMA PodStepTypes ==
    ASSUME PodsTypeOK, NEW p \in Pods, PodStep(p)
    PROVE  PodsTypeOK'
<1> USE DEF PodsTypeOK, Stages, Regs, Jobs
<1>1. CASE Start(p)
  BY <1>1 DEF Start
<1>2. CASE TurnStale(p)
  BY <1>2 DEF TurnStale, Statuses
<1>3. CASE Register(p) \/ Connect(p) \/ TakeJob(p)
  BY <1>3 DEF Register, Connect, TakeJob
<1>4. CASE Disconnect(p)
  BY <1>4 DEF Disconnect
<1>5. CASE EndListen(p)
  BY <1>5 DEF EndListen
<1>6. CASE DraftStatus(p)
  <2>1. PICK t \in PodClock(clock'), e \in BOOLEAN :
           draft' = [draft EXCEPT ![p] = [finishedAt |-> t, extend |-> e]]
    BY <1>6 DEF DraftStatus
  <2>2. clock' \in Nat /\ t \in Nat
    BY <1>6 DEF DraftStatus, PodClock, PastTime
  <2>3. draft' \in [Pods -> Drafts]
    BY <2>1, <2>2 DEF Drafts
  <2>4. QED
    BY <1>6, <2>2, <2>3 DEF DraftStatus
<1>7. CASE Publish(p)
  BY <1>7, BlankTypes DEF Publish, Statuses, Drafts
<1>8. QED
  BY <1>1, <1>2, <1>3, <1>4, <1>5, <1>6, <1>7 DEF PodStep

\* The other things that can happen to a pod keep them too.
LEMMA PodEventTypes ==
    ASSUME PodsTypeOK, NEW p \in Pods, NEW t \in Nat,
           Restart(p) \/ SetDeletionTime(p, t) \/ Deregister(p)
    PROVE  PodsTypeOK'
<1> USE DEF PodsTypeOK, Stages, Regs, Jobs
<1>1. CASE Restart(p)
  BY <1>1, BlankTypes DEF Restart
<1>2. CASE SetDeletionTime(p, t)
  BY <1>2 DEF SetDeletionTime, Statuses
<1>3. CASE Deregister(p)
  BY <1>3 DEF Deregister
<1>4. QED
  BY <1>1, <1>2, <1>3

\* The deletion of a pod keeps the types of the pods and of the API server.
LEMMA TerminateTypes ==
    ASSUME PodsTypeOK, K8sTypeOK, NEW p \in Pods, Terminate(p), clock' \in Nat
    PROVE  PodsTypeOK' /\ K8sTypeOK'
BY BlankTypes DEF Terminate, PodsTypeOK, K8sTypeOK, Stages, Regs, Jobs

\* The initial state has the types.
LEMMA TypeInit == Init => TypeOK
<1> SUFFICES ASSUME Init PROVE TypeOK
  OBVIOUS
<1>1. PodsTypeOK
  BY BlankTypes DEF Init, ContractInit, PodsTypeOK, Stages, Regs, Jobs, PastTime
<1>2. K8sTypeOK
  BY DEF Init, K8sTypeOK
<1>3. ProcessTypeOK
  <2>1. lastCheckTime \in Nat
    BY DEF Init, ContractInit, PastTime
  <2>2. QED
    BY <2>1, BlankTypes, NoPassTypes, PodsAssumption DEF Init, ProcessTypeOK, MPCs, CallPCs
<1>4. HistoryTypeOK
  BY DEF Init, HistoryTypeOK
<1>5. QED
  BY <1>1, <1>2, <1>3, <1>4 DEF TypeOK

\* What is left unchanged keeps its types.
LEMMA Unchanged ==
    /\ PodsTypeOK /\ UNCHANGED <<clock, podVars>> => PodsTypeOK'
    /\ K8sTypeOK /\ UNCHANGED k8sVars => K8sTypeOK'
    /\ ProcessTypeOK /\ UNCHANGED mgrVars => ProcessTypeOK'
    /\ HistoryTypeOK /\ UNCHANGED ghostVars => HistoryTypeOK'
BY DEF PodsTypeOK, podVars, K8sTypeOK, k8sVars, ProcessTypeOK, mgrVars, procVars, podLists,
       loopVars, HistoryTypeOK, ghostVars

\* The steps of the pods, the Deployment and GitHub keep the types.
LEMMA EnvironmentTypes ==
    ASSUME TypeOK, NEW p \in Pods, PodEnvironment(p)
    PROVE  TypeOK'
<1> USE DEF TypeOK
<1>1. CASE PodRuns(p)
  <2>1. HistoryTypeOK'
    <3>1. DraftsLate(p) \in BOOLEAN
      BY DEF DraftsLate
    <3>2. excused' \in [Pods -> BOOLEAN]
      BY <1>1, <3>1 DEF PodRuns, HistoryTypeOK
    <3>3. QED
      BY <1>1, <3>2 DEF PodRuns, HistoryTypeOK
  <2>2. QED
    BY <1>1, <2>1, PodStepTypes, Unchanged DEF PodRuns
<1>2. CASE ContainerRestarts(p)
  <2>1. PodsTypeOK'
    BY <1>2, PodEventTypes, 0 \in Nat DEF ContainerRestarts
  <2>2. HistoryTypeOK'
    BY <1>2 DEF ContainerRestarts, HistoryTypeOK, Fault
  <2>3. QED
    BY <1>2, <2>1, <2>2, Unchanged DEF ContainerRestarts
<1>3. CASE ClientSetsDeletionTime(p)
  <2>1. PICK t \in Times : SetDeletionTime(p, t)
    BY <1>3 DEF ClientSetsDeletionTime
  <2>2. t \in Nat
    BY TimesAssumption
  <2>3. QED
    BY <1>3, <2>1, <2>2, PodEventTypes, Unchanged DEF ClientSetsDeletionTime
<1>4. CASE ReplicaSetCreates(p) \/ KubeletStarts(p)
  <2>1. K8sTypeOK'
    BY <1>4 DEF ReplicaSetCreates, KubeletStarts, K8sTypeOK, PodsTypeOK
  <2>2. QED
    BY <1>4, <2>1, Unchanged DEF ReplicaSetCreates, KubeletStarts
<1>5. CASE ReplicaSetDeletes(p)
  <2>1. PodsTypeOK' /\ K8sTypeOK'
    BY <1>5, TerminateTypes DEF ReplicaSetDeletes, PodsTypeOK
  <2>2. QED
    BY <1>5, <2>1, Unchanged DEF ReplicaSetDeletes
<1>6. CASE PodLost(p)
  <2>1. PodsTypeOK' /\ K8sTypeOK'
    BY <1>6, TerminateTypes DEF PodLost, PodsTypeOK
  <2>2. HistoryTypeOK'
    BY <1>6 DEF PodLost, HistoryTypeOK, Fault
  <2>3. QED
    BY <1>6, <2>1, <2>2, Unchanged DEF PodLost
<1>7. CASE GitHubForgets(p)
  BY <1>7, PodEventTypes, 0 \in Nat, Unchanged DEF GitHubForgets
<1>8. CASE GitHubNotices(p)
  <2>1. PodsTypeOK'
    BY <1>8 DEF GitHubNotices, PodsTypeOK, Regs
  <2>2. QED
    BY <1>8, <2>1, Unchanged DEF GitHubNotices
<1>9. QED
  BY <1>1, <1>2, <1>3, <1>4, <1>5, <1>6, <1>7, <1>8 DEF PodEnvironment

\* The clock stays a natural number.
LEMMA ClockType == PodsTypeOK /\ ReadClock => clock' \in Nat
BY ManagerBounds DEF PodsTypeOK, ReadClock

\* The specs have the fields the process reads.
LEMMA ConfFields ==
    ASSUME ProcessTypeOK
    PROVE  /\ pconf.replicas \in Nat /\ pconf.maxRunnerPods \in Nat
           /\ pconf.needNotification \in BOOLEAN /\ pconf.denyDisruption \in BOOLEAN
           /\ pconf.extendDuration \in Nat /\ pconf.recreateDeadline \in Nat
BY ConfsAssumption DEF ProcessTypeOK, ConfType

\* A process that gives up its pass outside the loop keeps its types.
LEMMA ForgetPassTypes ==
    ASSUME ProcessTypeOK, ForgetPass, mpc' \in MPCs \ CallPCs, pconf' \in Confs,
           lastCheckTime' \in Nat, stopping' \in BOOLEAN, prevRunnerNames' \subseteq Pods,
           metricNames' \subseteq Pods
    PROVE  ProcessTypeOK'
BY BlankTypes, NoPassTypes, PodsAssumption DEF ForgetPass, ProcessTypeOK

\* The steps outside the passes keep the types.
LEMMA LifeTypes ==
    ASSUME TypeOK,
           EditPool \/ StartProcess \/ UpdateProcess \/ StopProcess \/ ProcessCrashes
    PROVE  TypeOK'
<1> USE DEF TypeOK
<1>1. CASE EditPool
  <2>1. K8sTypeOK'
    BY <1>1 DEF EditPool, K8sTypeOK
  <2>2. QED
    BY <1>1, <2>1, Unchanged DEF EditPool
<1>2. CASE StartProcess
  <2>1. clock' \in Nat
    BY <1>2, ClockType DEF StartProcess
  <2>2. PodsTypeOK'
    BY <1>2, <2>1 DEF StartProcess, PodsTypeOK, podVars
  <2>3. ProcessTypeOK'
    BY <1>2, <2>1 DEF StartProcess, ProcessTypeOK, K8sTypeOK, MPCs, CallPCs, podLists, loopVars
  <2>4. HistoryTypeOK'
    BY <1>2 DEF StartProcess, HistoryTypeOK
  <2>5. QED
    BY <1>2, <2>2, <2>3, <2>4, Unchanged DEF StartProcess
<1>3. CASE UpdateProcess
  <2>1. ProcessTypeOK'
    BY <1>3 DEF UpdateProcess, ProcessTypeOK, K8sTypeOK, podLists, loopVars
  <2>2. QED
    BY <1>3, <2>1, Unchanged DEF UpdateProcess
<1>4. CASE StopProcess
  <2>1. ProcessTypeOK' /\ HistoryTypeOK'
    BY <1>4 DEF StopProcess, ProcessTypeOK, podLists, loopVars, HistoryTypeOK, Fault
  <2>2. QED
    BY <1>4, <2>1, Unchanged DEF StopProcess
<1>5. CASE ProcessCrashes
  <2>1. mpc' \in MPCs \ CallPCs
    BY <1>5 DEF ProcessCrashes, MPCs, CallPCs
  <2>2. ProcessTypeOK'
    BY <1>5, <2>1, ForgetPassTypes DEF ProcessCrashes, ProcessTypeOK
  <2>3. HistoryTypeOK'
    BY <1>5 DEF ProcessCrashes, HistoryTypeOK, Fault
  <2>4. QED
    BY <1>5, <2>2, <2>3, Unchanged DEF ProcessCrashes
<1>6. QED
  BY <1>1, <1>2, <1>3, <1>4, <1>5

\* RemoveRunner only changes registrations.
LEMMA RemoveRunnerTypes ==
    ASSUME PodsTypeOK, NEW p \in Pods, RemoveRunner(p)
    PROVE  PodsTypeOK'
BY PodEventTypes, 0 \in Nat DEF RemoveRunner

\* The end of a process keeps its types.
LEMMA ProcessEndsTypes == ASSUME ProcessTypeOK, ProcessEnds PROVE ProcessTypeOK'
<1>1. mpc' \in MPCs \ CallPCs
  BY DEF ProcessEnds, MPCs, CallPCs
<1>2. QED
  BY <1>1, ForgetPassTypes DEF ProcessEnds, ProcessTypeOK

\* The cleanup of a stopped process keeps the types.
LEMMA CleanupTypes == ASSUME TypeOK, Cleanup PROVE TypeOK'
<1> USE DEF TypeOK
<1>1. CASE LeaveRun
  <2>1. ProcessTypeOK'
    BY <1>1 DEF LeaveRun, ProcessTypeOK, MPCs, CallPCs, podLists, loopVars
  <2>2. QED
    BY <1>1, <2>1, Unchanged DEF LeaveRun
<1>2. CASE ListAllRunners
  <2>1. HistoryTypeOK'
    BY <1>2 DEF ListAllRunners, HistoryTypeOK, Fault
  <2>2. CASE ProcessEnds
    BY <1>2, <2>1, <2>2, ProcessEndsTypes, Unchanged DEF ListAllRunners
  <2>3. CASE ~ProcessEnds
    <3>1. ProcessTypeOK'
      BY <1>2, <2>3 DEF ListAllRunners, Registered, ProcessTypeOK, MPCs, CallPCs, procVars, podLists
    <3>2. QED
      BY <1>2, <2>1, <3>1, Unchanged DEF ListAllRunners
  <2>4. QED
    BY <2>2, <2>3
<1>3. ASSUME NEW p \in Pods, RemoveAnyRunner(p) PROVE TypeOK'
  <2>1. HistoryTypeOK'
    BY <1>3 DEF RemoveAnyRunner, HistoryTypeOK, Fault
  <2>2. PodsTypeOK'
    BY <1>3, RemoveRunnerTypes, Unchanged DEF RemoveAnyRunner
  <2>3. ProcessTypeOK'
    <3>1. CASE ProcessEnds
      BY <3>1, ProcessEndsTypes
    <3>2. CASE ~ProcessEnds
      BY <1>3, <3>2 DEF RemoveAnyRunner, ProcessTypeOK, procVars, podLists
    <3>3. QED
      BY <3>1, <3>2
  <2>4. QED
    BY <1>3, <2>1, <2>2, <2>3, Unchanged DEF RemoveAnyRunner
<1>4. CASE AllRemoved
  BY <1>4, ProcessEndsTypes, Unchanged DEF AllRemoved
<1>5. QED
  BY <1>1, <1>2, <1>3, <1>4 DEF Cleanup

-----------------------------------------------------------------------------
(* Types of the passes.                                                    *)

\* The next call for a pod is a call or the loop.
LEMMA NextCall ==
    ASSUME NEW p, NEW st
    PROVE  /\ AfterProtection(p) \in CallPCs \union {"loop"}
           /\ AfterDebugging(p, st) \in CallPCs \union {"loop"}
           /\ AfterNotification(p, st) \in CallPCs \union {"loop"}
           /\ AfterStatus(p, st) \in CallPCs \union {"loop"}
<1>1. AfterProtection(p) \in CallPCs \union {"loop"}
  BY DEF AfterProtection, CallPCs
<1>2. AfterDebugging(p, st) \in CallPCs \union {"loop"}
  BY <1>1 DEF AfterDebugging, CallPCs
<1>3. AfterNotification(p, st) \in CallPCs \union {"loop"}
  BY <1>2 DEF AfterNotification, CallPCs
<1>4. AfterStatus(p, st) \in CallPCs \union {"loop"}
  BY <1>2, <1>3 DEF AfterStatus, CallPCs
<1>5. QED
  BY <1>1, <1>2, <1>3, <1>4

\* Proceed leaves the process at a call with a pod, or in the loop without one.
LEMMA ProceedTypes ==
    ASSUME NEW p, NEW st \in Statuses, NEW next \in CallPCs \union {"loop"},
           Proceed(p, st, next), next \in CallPCs => p \in Pods
    PROVE  /\ mpc' \in MPCs /\ cur' \in Pods \union {NoPod} /\ got' \in Statuses
           /\ mpc' \in CallPCs <=> cur' \in Pods
BY BlankTypes, PodsAssumption DEF Proceed, CallPCs, MPCs

\* The process turns to the next pod.
LEMMA NextPodTypes ==
    ASSUME NextPod
    PROVE  /\ mpc' \in MPCs /\ cur' \in Pods \union {NoPod} /\ got' \in Statuses
           /\ mpc' \in CallPCs <=> cur' \in Pods
BY BlankTypes, PodsAssumption DEF NextPod, Proceed, CallPCs, MPCs

\* A failed call is counted.
LEMMA CallFailsTypes == HistoryTypeOK /\ CallFails => faults' \in Nat
BY DEF HistoryTypeOK, CallFails

\* The end of a pass keeps the types.
LEMMA PassEndsTypes ==
    ASSUME ProcessTypeOK, PassEnds, UNCHANGED procVars
    PROVE  ProcessTypeOK'
<1>1. mpc' \in MPCs \ CallPCs
  BY DEF PassEnds, MPCs, CallPCs
<1>2. QED
  BY <1>1, ForgetPassTypes DEF PassEnds, ProcessTypeOK, procVars

\* The fetching of the lists and the head of the maintenance keep the types.
LEMMA FetchTypes ==
    ASSUME TypeOK, FetchRunnerPods \/ FetchRunners \/ BeginMaintenance
    PROVE  TypeOK'
<1> USE DEF TypeOK
<1>1. CASE FetchRunnerPods
  <2>1. podList' \in [pods : SUBSET Pods, running : SUBSET Pods, hash : SUBSET Pods,
                      protected : SUBSET Pods]
    BY <1>1 DEF FetchRunnerPods, Linked
  <2>2. ProcessTypeOK'
    BY <1>1, <2>1 DEF FetchRunnerPods, ProcessTypeOK, MPCs, CallPCs, procVars, loopVars
  <2>3. QED
    BY <1>1, <2>2, Unchanged DEF FetchRunnerPods
<1>2. CASE FetchRunners
  <2>1. HistoryTypeOK'
    BY <1>2 DEF FetchRunners, Fault, HistoryTypeOK
  <2>2. CASE mpc' = "begin"
    <3>1. PICK missing \in SUBSET Pods : ListRunners(missing)
      BY <1>2, <2>2 DEF FetchRunners, Registered
    <3>2. prevRunnerNames' \subseteq Pods /\ metricNames' \subseteq Pods
      BY <3>1 DEF ListRunners, UpdateMetrics, Registered, ProcessTypeOK
    <3>3. runnerList' \in [Pods -> Listed]
      BY <3>1 DEF ListRunners, Listing, PodsTypeOK, Regs, Listed
    <3>4. ProcessTypeOK'
      BY <1>2, <2>2, <3>2, <3>3
         DEF FetchRunners, ProcessTypeOK, MPCs, CallPCs, loopVars
    <3>5. QED
      BY <1>2, <2>1, <3>4, Unchanged DEF FetchRunners
  <2>3. CASE mpc' # "begin"
    <3>1. /\ mpc' = "idle" /\ ForgetPass
          /\ UNCHANGED <<prevRunnerNames, metricNames, pconf, lastCheckTime, stopping>>
      BY <1>2, <2>3 DEF FetchRunners
    <3>2. mpc' \in MPCs \ CallPCs
      BY <3>1 DEF MPCs, CallPCs
    <3>3. ProcessTypeOK'
      BY <3>1, <3>2, ForgetPassTypes DEF ProcessTypeOK
    <3>4. QED
      BY <1>2, <2>1, <3>3, Unchanged DEF FetchRunners
  <2>4. QED
    BY <2>2, <2>3
<1>3. CASE BeginMaintenance
  <2>1. clock' \in Nat
    BY <1>3, ClockType DEF BeginMaintenance, ReadNow
  <2>2. PodsTypeOK'
    BY <1>3, <2>1 DEF BeginMaintenance, ReadNow, PodsTypeOK, podVars
  <2>3. Cardinality(podList.pods \ podList.hash) \in Nat
    BY PodsAssumption, FS_Subset, FS_CardinalityType DEF ProcessTypeOK
  <2>4. pass' \in PassType
    BY <1>3, <2>1, <2>3, ConfFields DEF BeginMaintenance, ReadNow, numUnlabeledPods,
                                         PassType, ProcessTypeOK
  <2>5. ProcessTypeOK'
    BY <1>3, <2>1, <2>4 DEF BeginMaintenance, ReadNow, ProcessTypeOK, MPCs, CallPCs, podLists
  <2>6. HistoryTypeOK'
    BY <1>3 DEF BeginMaintenance, ReadNow, HistoryTypeOK
  <2>7. QED
    BY <1>3, <2>2, <2>5, <2>6, Unchanged DEF BeginMaintenance, ReadNow
<1>4. QED
  BY <1>1, <1>2, <1>3

\* The visit of a pod keeps the types.
LEMMA VisitTypes ==
    ASSUME TypeOK, NEW p \in Pods, SkipPod(p) \/ GetStatus(p)
    PROVE  TypeOK'
<1> USE DEF TypeOK
<1>1. CASE SkipPod(p)
  <2>1. ProcessTypeOK'
    BY <1>1 DEF SkipPod, ProcessTypeOK, procVars, podLists
  <2>2. QED
    BY <1>1, <2>1, Unchanged DEF SkipPod
<1>2. CASE GetStatus(p)
  <2>1. HistoryTypeOK'
    BY <1>2, CallFailsTypes DEF GetStatus, HistoryTypeOK
  <2>2. CASE Proceed(p, status[p], AfterStatus(p, status[p]))
    <3>1. status[p] \in Statuses
      BY DEF PodsTypeOK
    <3>2. /\ mpc' \in MPCs /\ cur' \in Pods \union {NoPod} /\ got' \in Statuses
          /\ mpc' \in CallPCs <=> cur' \in Pods
      BY <2>2, <3>1, NextCall, ProceedTypes
    <3>3. ProcessTypeOK'
      BY <1>2, <3>2 DEF GetStatus, ProcessTypeOK, procVars, podLists
    <3>4. QED
      BY <1>2, <2>1, <3>3, Unchanged DEF GetStatus
  <2>3. CASE ~Proceed(p, status[p], AfterStatus(p, status[p]))
    <3>1. UNCHANGED <<mpc, cur, got>>
      BY <1>2, <2>3 DEF GetStatus
    <3>2. ProcessTypeOK'
      BY <1>2, <3>1 DEF GetStatus, ProcessTypeOK, procVars, podLists
    <3>3. QED
      BY <1>2, <2>1, <3>2, Unchanged DEF GetStatus
  <2>4. QED
    BY <2>2, <2>3
<1>3. QED
  BY <1>1, <1>2

\* A call is about a pod.
LEMMA CallPod == ProcessTypeOK /\ mpc \in CallPCs => cur \in Pods
BY DEF ProcessTypeOK

\* The calls of the loop keep the types.
LEMMA CallTypes ==
    ASSUME TypeOK,
           \/ PostResult \/ DeletePod \/ PutDeletionTime
           \/ CreatePDB \/ RelabelPod \/ UnlinkPod
    PROVE  TypeOK'
<1> USE DEF TypeOK
<1>0. cur \in Pods /\ got \in Statuses
  BY CallPod DEF CallPCs, PostResult, DeletePod, PutDeletionTime, CreatePDB, RelabelPod,
                 UnlinkPod, ProcessTypeOK
<1>1. CASE PostResult
  <2>1. HistoryTypeOK'
    <3>1. notified' \in [Pods -> Nat]
      BY <1>0, <1>1 DEF PostResult, HistoryTypeOK
    <3>2. excused' \in [Pods -> BOOLEAN]
      BY <1>0, <1>1 DEF PostResult, HistoryTypeOK
    <3>3. faults' \in Nat
      BY <1>1, CallFailsTypes DEF PostResult, HistoryTypeOK
    <3>4. QED
      BY <3>1, <3>2, <3>3 DEF HistoryTypeOK
  <2>2. /\ mpc' \in MPCs /\ cur' \in Pods \union {NoPod} /\ got' \in Statuses
        /\ mpc' \in CallPCs <=> cur' \in Pods
    BY <1>0, <1>1, NextCall, ProceedTypes DEF PostResult
  <2>3. ProcessTypeOK'
    BY <1>1, <2>2 DEF PostResult, ProcessTypeOK, procVars, podLists
  <2>4. QED
    BY <1>1, <2>1, <2>3, Unchanged DEF PostResult
<1>2. CASE DeletePod
  <2>1. clock' \in Nat /\ UNCHANGED clock
    BY <1>2 DEF DeletePod, PodsTypeOK
  <2>2. PodsTypeOK' /\ K8sTypeOK'
    <3>1. CASE Terminate(cur)
      BY <1>0, <2>1, <3>1, TerminateTypes
    <3>2. CASE ~Terminate(cur)
      BY <1>2, <2>1, <3>2, Unchanged DEF DeletePod
    <3>3. QED
      BY <3>1, <3>2
  <2>3. HistoryTypeOK'
    BY <1>2, CallFailsTypes DEF DeletePod, HistoryTypeOK
  <2>4. ProcessTypeOK'
    BY <1>2, NextPodTypes DEF DeletePod, ProcessTypeOK, procVars, podLists
  <2>5. QED
    BY <2>2, <2>3, <2>4
<1>3. CASE PutDeletionTime
  <2>1. PodsTypeOK'
    <3>1. got.finishedAt + pass.extendDuration \in Nat
      BY <1>0 DEF ProcessTypeOK, PassType, Statuses
    <3>2. CASE SetDeletionTime(cur, got.finishedAt + pass.extendDuration)
      BY <1>0, <3>1, <3>2, PodEventTypes
    <3>3. CASE ~SetDeletionTime(cur, got.finishedAt + pass.extendDuration)
      BY <1>3, <3>3, Unchanged DEF PutDeletionTime
    <3>4. QED
      BY <3>2, <3>3
  <2>2. HistoryTypeOK'
    BY <1>3, CallFailsTypes DEF PutDeletionTime, HistoryTypeOK
  <2>3. /\ mpc' \in MPCs /\ cur' \in Pods \union {NoPod} /\ got' \in Statuses
        /\ mpc' \in CallPCs <=> cur' \in Pods
    BY <1>0, <1>3, NextCall, ProceedTypes DEF PutDeletionTime
  <2>4. ProcessTypeOK'
    BY <1>3, <2>3 DEF PutDeletionTime, ProcessTypeOK, procVars, podLists
  <2>5. QED
    BY <1>3, <2>1, <2>2, <2>4, Unchanged DEF PutDeletionTime
<1>4. CASE CreatePDB
  <2>1. HistoryTypeOK' /\ K8sTypeOK'
    BY <1>0, <1>4, CallFailsTypes DEF CreatePDB, HistoryTypeOK, K8sTypeOK
  <2>2. /\ mpc' \in MPCs /\ cur' \in Pods \union {NoPod} /\ got' \in Statuses
        /\ mpc' \in CallPCs <=> cur' \in Pods
    <3>1. CASE NextPod
      BY <3>1, NextPodTypes
    <3>2. CASE Proceed(cur, got, "relabel")
      BY <1>0, <3>2, ProceedTypes, "relabel" \in CallPCs DEF CallPCs
    <3>3. QED
      BY <1>4, <3>1, <3>2 DEF CreatePDB
  <2>3. ProcessTypeOK'
    BY <1>4, <2>2 DEF CreatePDB, ProcessTypeOK, procVars, podLists
  <2>4. QED
    BY <1>4, <2>1, <2>3, Unchanged DEF CreatePDB
<1>5. CASE RelabelPod
  <2>1. HistoryTypeOK' /\ K8sTypeOK'
    BY <1>0, <1>5, CallFailsTypes DEF RelabelPod, HistoryTypeOK, K8sTypeOK
  <2>2. /\ mpc' \in MPCs /\ cur' \in Pods \union {NoPod} /\ got' \in Statuses
        /\ mpc' \in CallPCs <=> cur' \in Pods
    <3>1. CASE NextPod
      BY <3>1, NextPodTypes
    <3>2. CASE Proceed(cur, got, AfterProtection(cur))
      BY <1>0, <3>2, NextCall, ProceedTypes
    <3>3. QED
      BY <1>5, <3>1, <3>2 DEF RelabelPod
  <2>3. podList' \in [pods : SUBSET Pods, running : SUBSET Pods, hash : SUBSET Pods,
                      protected : SUBSET Pods]
    BY <1>0, <1>5 DEF RelabelPod, ProcessTypeOK
  <2>4. ProcessTypeOK'
    BY <1>5, <2>2, <2>3 DEF RelabelPod, ProcessTypeOK, procVars
  <2>5. QED
    BY <1>5, <2>1, <2>4, Unchanged DEF RelabelPod
<1>6. CASE UnlinkPod
  <2>1. HistoryTypeOK' /\ K8sTypeOK'
    <3>1. faults \in Nat => faults' \in Nat
      BY <1>6 DEF UnlinkPod, Fault, CallFails
    <3>2. /\ UNCHANGED <<excused, notified, conf, phase, protected, pdb, born>>
          /\ hash' = hash \/ hash' = [hash EXCEPT ![cur] = FALSE]
      BY <1>6 DEF UnlinkPod
    <3>3. QED
      BY <1>0, <3>1, <3>2 DEF HistoryTypeOK, K8sTypeOK
  <2>2. pass' \in PassType
    BY <1>6 DEF UnlinkPod, ProcessTypeOK, PassType
  <2>3. ProcessTypeOK'
    BY <1>6, <2>2, NextPodTypes DEF UnlinkPod, ProcessTypeOK, procVars, podLists
  <2>4. QED
    BY <1>6, <2>1, <2>3, Unchanged DEF UnlinkPod
<1>7. QED
  BY <1>1, <1>2, <1>3, <1>4, <1>5, <1>6

\* The removal of offline runners keeps the types.
LEMMA OfflineTypes ==
    ASSUME TypeOK,
           \/ MaintenanceEnds \/ AllOfflineRemoved
           \/ \E p \in Pods : RemoveOfflineRunner(p)
    PROVE  TypeOK'
<1> USE DEF TypeOK
<1>1. CASE MaintenanceEnds
  <2>1. ProcessTypeOK'
    BY <1>1 DEF MaintenanceEnds, ProcessTypeOK, MPCs, CallPCs, procVars, podLists
  <2>2. QED
    BY <1>1, <2>1, Unchanged DEF MaintenanceEnds
<1>2. CASE AllOfflineRemoved
  BY <1>2, PassEndsTypes, Unchanged DEF AllOfflineRemoved
<1>3. ASSUME NEW p \in Pods, RemoveOfflineRunner(p) PROVE TypeOK'
  <2>1. HistoryTypeOK'
    BY <1>3, CallFailsTypes DEF RemoveOfflineRunner, HistoryTypeOK
  <2>2. PodsTypeOK'
    BY <1>3, RemoveRunnerTypes, Unchanged DEF RemoveOfflineRunner
  <2>3. ProcessTypeOK'
    <3>1. CASE PassEnds
      BY <1>3, <3>1, PassEndsTypes DEF RemoveOfflineRunner
    <3>2. CASE ~PassEnds
      BY <1>3, <3>2 DEF RemoveOfflineRunner, ProcessTypeOK, procVars, podLists
    <3>3. QED
      BY <3>1, <3>2
  <2>4. QED
    BY <1>3, <2>1, <2>2, <2>3, Unchanged DEF RemoveOfflineRunner
<1>4. QED
  BY <1>1, <1>2, <1>3

\* Every step keeps the types.
LEMMA TypeNext == TypeOK /\ [Next]_vars => TypeOK'
<1> SUFFICES ASSUME TypeOK, [Next]_vars PROVE TypeOK'
  OBVIOUS
<1>1. CASE \E p \in Pods : PodEnvironment(p)
  BY <1>1, EnvironmentTypes
<1>2. CASE EditPool \/ StartProcess \/ UpdateProcess \/ StopProcess \/ ProcessCrashes
  BY <1>2, LifeTypes
<1>3. CASE Pass
  BY <1>3, FetchTypes, VisitTypes, CallTypes, OfflineTypes DEF Pass
<1>4. CASE Cleanup
  BY <1>4, CleanupTypes
<1>5. CASE UNCHANGED vars
  BY <1>5, Unchanged DEF vars, TypeOK
<1>6. QED
  BY <1>1, <1>2, <1>3, <1>4, <1>5 DEF Next

\* All variables keep their types, and a call of the loop is always about a pod.
THEOREM TypeCorrect == Spec => []TypeOK
BY TypeInit, TypeNext, PTL DEF Spec

-----------------------------------------------------------------------------
(* The unlinking budget.                                                   *)

\* The process knows all unlinked pods: before the loop they are among the listed ones
\* without the label, from then on their number is what the pass has used up.
BudgetInv ==
    /\ \A p \in Pods : phase[p] = "absent" => hash[p]
    /\ mpc \in {"runners", "begin"} => Unlinked \subseteq podList.pods \ podList.hash
    /\ mpc \in MaintenancePCs =>
          Cardinality(Unlinked) <= pass.budget - pass.removable + pass.lostReplies
    /\ mpc = "unlink" => pass.removable > 0

\* Unlinked pods are finitely many.
LEMMA UnlinkedFinite ==
    IsFiniteSet(Unlinked) /\ Cardinality(Unlinked) \in Nat
BY PodsAssumption, FS_Subset, FS_CardinalityType DEF Unlinked

\* The deletion of a pod unlinks none.
LEMMA TerminateShrinks ==
    ASSUME K8sTypeOK, NEW p \in Pods, Terminate(p), BudgetInv
    PROVE  /\ Unlinked' \subseteq Unlinked
           /\ \A q \in Pods : phase'[q] = "absent" => hash'[q]
BY DEF Terminate, Unlinked, Exists, K8sTypeOK, BudgetInv

\* No step but UnlinkPod unlinks a pod.
LEMMA OnlyUnlinkPodUnlinks ==
    ASSUME TypeOK, BudgetInv, [Next]_vars, ~UnlinkPod
    PROVE  /\ Unlinked' \subseteq Unlinked
           /\ \A q \in Pods : phase'[q] = "absent" => hash'[q]
           /\ hash' = hash
<1> USE DEF TypeOK
<1>1. ASSUME UNCHANGED <<phase, hash>>
      PROVE  /\ Unlinked' \subseteq Unlinked
             /\ \A q \in Pods : phase'[q] = "absent" => hash'[q]
  BY <1>1 DEF Unlinked, Exists, BudgetInv
<1>2. ASSUME NEW p \in Pods, PodEnvironment(p)
      PROVE  /\ Unlinked' \subseteq Unlinked
             /\ \A q \in Pods : phase'[q] = "absent" => hash'[q]
             /\ hash' = hash
  <2>1. CASE PodRuns(p) \/ ContainerRestarts(p) \/ ClientSetsDeletionTime(p) \/ GitHubForgets(p)
           \/ GitHubNotices(p)
    BY <1>1, <2>1 DEF PodRuns, ContainerRestarts, ClientSetsDeletionTime, GitHubForgets,
                      GitHubNotices, k8sVars
  <2>2. CASE ReplicaSetCreates(p)
    BY <2>2 DEF ReplicaSetCreates, Unlinked, Exists, BudgetInv, K8sTypeOK
  <2>3. CASE KubeletStarts(p)
    BY <2>3 DEF KubeletStarts, Unlinked, Exists, BudgetInv, K8sTypeOK
  <2>4. CASE ReplicaSetDeletes(p) \/ PodLost(p)
    BY <2>4, TerminateShrinks DEF ReplicaSetDeletes, PodLost, Terminate
  <2>5. QED
    BY <1>2, <2>1, <2>2, <2>3, <2>4 DEF PodEnvironment
<1>3. CASE EditPool \/ StartProcess \/ UpdateProcess \/ StopProcess \/ ProcessCrashes
  BY <1>1, <1>3 DEF EditPool, StartProcess, UpdateProcess, StopProcess, ProcessCrashes, k8sVars
<1>4. CASE Cleanup
  BY <1>1, <1>4 DEF Cleanup, LeaveRun, ListAllRunners, AllRemoved, RemoveAnyRunner, k8sVars
<1>5. CASE DeletePod
  <2>1. cur \in Pods
    BY <1>5, CallPod DEF DeletePod, CallPCs
  <2>2. CASE Terminate(cur)
    BY <2>1, <2>2, TerminateShrinks DEF Terminate
  <2>3. CASE ~Terminate(cur)
    BY <1>1, <1>5, <2>3 DEF DeletePod, k8sVars
  <2>4. QED
    BY <2>2, <2>3
<1>6. CASE Pass /\ ~DeletePod
  <2>1. UNCHANGED <<phase, hash>>
    BY <1>6 DEF Pass, FetchRunnerPods, FetchRunners, BeginMaintenance, ReadNow, SkipPod, GetStatus,
                RemoveOfflineRunner, PostResult, PutDeletionTime, CreatePDB, RelabelPod,
                MaintenanceEnds, AllOfflineRemoved, k8sVars
  <2>2. QED
    BY <1>1, <2>1
<1>7. CASE UNCHANGED vars
  BY <1>1, <1>7 DEF vars, k8sVars
<1>8. QED
  BY <1>2, <1>3, <1>4, <1>5, <1>6, <1>7 DEF Next

\* A pass that goes on keeps its account.
LEMMA AccountKept ==
    ASSUME TypeOK, BudgetInv, Unlinked' \subseteq Unlinked,
           mpc \in MaintenancePCs, UNCHANGED pass
    PROVE  Cardinality(Unlinked') <= pass'.budget - pass'.removable + pass'.lostReplies
<1>1. Cardinality(Unlinked') <= Cardinality(Unlinked) /\ Cardinality(Unlinked') \in Nat
  BY UnlinkedFinite, FS_Subset, FS_CardinalityType
<1>2. Cardinality(Unlinked) <= pass.budget - pass.removable + pass.lostReplies
  BY DEF BudgetInv
<1>3. pass.budget \in Int /\ pass.removable \in Int /\ pass.lostReplies \in Nat
  BY DEF TypeOK, ProcessTypeOK, PassType
<1>4. QED
  BY <1>1, <1>2, <1>3, UnlinkedFinite

\* The process only turns to unlinking while the pass has pods left to unlink.
LEMMA UnlinkNeedsBudget ==
    ASSUME NEW p, NEW st
    PROVE  /\ AfterProtection(p) = "unlink" => pass.removable > 0
           /\ AfterDebugging(p, st) = "unlink" => pass.removable > 0
           /\ AfterNotification(p, st) = "unlink" => pass.removable > 0
           /\ AfterStatus(p, st) = "unlink" => pass.removable > 0
<1>1. AfterProtection(p) = "unlink" => pass.removable > 0
  BY DEF AfterProtection
<1>2. AfterDebugging(p, st) = "unlink" => pass.removable > 0
  BY <1>1 DEF AfterDebugging
<1>3. AfterNotification(p, st) = "unlink" => pass.removable > 0
  BY <1>2 DEF AfterNotification
<1>4. AfterStatus(p, st) = "unlink" => pass.removable > 0
  BY <1>2, <1>3 DEF AfterStatus
<1>5. QED
  BY <1>1, <1>2, <1>3, <1>4

\* The effect of a visit on the account: the pass goes on with the same numbers.
LEMMA VisitKeepsAccount ==
    ASSUME TypeOK, BudgetInv, [Next]_vars, ~UnlinkPod, mpc \in MaintenancePCs,
           mpc' \in MaintenancePCs, UNCHANGED pass, mpc' = "unlink" => pass.removable > 0
    PROVE  BudgetInv'
<1>1. /\ Unlinked' \subseteq Unlinked
      /\ \A q \in Pods : phase'[q] = "absent" => hash'[q]
  BY OnlyUnlinkPodUnlinks
<1>2. mpc' \notin {"runners", "begin"}
  BY DEF MaintenancePCs
<1>3. Cardinality(Unlinked') <= pass'.budget - pass'.removable + pass'.lostReplies
  BY <1>1, AccountKept
<1>4. QED
  BY <1>1, <1>2, <1>3 DEF BudgetInv

\* Outside a pass there is no account.
LEMMA NoAccount ==
    ASSUME TypeOK, BudgetInv, [Next]_vars, ~UnlinkPod,
           mpc' \notin MaintenancePCs \union {"runners", "begin"}
    PROVE  BudgetInv'
BY OnlyUnlinkPodUnlinks DEF BudgetInv, MaintenancePCs

\* An unlinked pod is one more, and the account has room for it.
LEMMA UnlinkAccount ==
    ASSUME TypeOK, BudgetInv, UnlinkPod
    PROVE  BudgetInv' /\ (hash' # hash =>
               Cardinality(Unlinked') <= pass.budget + pass'.lostReplies)
<1> USE DEF TypeOK
<1>1. cur \in Pods /\ mpc = "unlink" /\ mpc' = "loop" /\ phase' = phase
  BY CallPod DEF UnlinkPod, CallPCs, NextPod, Proceed
<1>2. /\ pass.budget \in Int /\ pass.removable \in Int /\ pass.lostReplies \in Nat
      /\ pass \in PassType
  BY DEF ProcessTypeOK, PassType
<1>3. /\ Cardinality(Unlinked) <= pass.budget - pass.removable + pass.lostReplies
      /\ pass.removable > 0
  BY <1>1 DEF BudgetInv, MaintenancePCs
<1>4. CASE hash' = [hash EXCEPT ![cur] = FALSE] /\ Exists(cur)
           /\ \/ pass' = [pass EXCEPT !.removable = @ - 1]
              \/ pass' = [pass EXCEPT !.lostReplies = @ + 1]
  <2>1. Unlinked' = Unlinked \union {cur}
    BY <1>1, <1>4 DEF Unlinked, Exists, K8sTypeOK
  <2>2. Cardinality(Unlinked') <= Cardinality(Unlinked) + 1 /\ Cardinality(Unlinked') \in Nat
    <3>1. IsFiniteSet(Unlinked)
      BY UnlinkedFinite
    <3>2. Cardinality(Unlinked) \in Nat
      BY <3>1, FS_CardinalityType
    <3>3. Cardinality(Unlinked \union {cur}) \in {Cardinality(Unlinked), Cardinality(Unlinked) + 1}
      BY <3>1, FS_AddElement
    <3>4. QED
      BY <2>1, <3>2, <3>3
  <2>3. /\ pass'.budget = pass.budget
        /\ \/ /\ pass'.removable = pass.removable - 1
              /\ pass'.lostReplies = pass.lostReplies
           \/ /\ pass'.removable = pass.removable
              /\ pass'.lostReplies = pass.lostReplies + 1
    BY <1>2, <1>4 DEF PassType
  <2>4. /\ Cardinality(Unlinked') <= pass'.budget - pass'.removable + pass'.lostReplies
        /\ Cardinality(Unlinked') <= pass.budget + pass'.lostReplies
    BY <1>2, <1>3, <2>2, <2>3, UnlinkedFinite
  <2>5. \A q \in Pods : phase'[q] = "absent" => hash'[q]
    BY <1>1, <1>4 DEF BudgetInv, Exists, K8sTypeOK
  <2>6. QED
    BY <1>1, <2>4, <2>5 DEF BudgetInv
<1>5. CASE UNCHANGED <<hash, pass>>
  <2>1. Unlinked' = Unlinked
    BY <1>1, <1>5 DEF Unlinked, Exists
  <2>2. QED
    BY <1>1, <1>3, <1>5, <2>1 DEF BudgetInv
<1>6. QED
  BY <1>4, <1>5 DEF UnlinkPod, Updatable

\* The initial state has no unlinked pod.
LEMMA BudgetInit == Init => BudgetInv
BY DEF Init, BudgetInv, MaintenancePCs

\* Every step keeps the account.
LEMMA BudgetNext == TypeOK /\ BudgetInv /\ [Next]_vars => BudgetInv'
<1> SUFFICES ASSUME TypeOK, BudgetInv, [Next]_vars PROVE BudgetInv'
  OBVIOUS
<1>1. CASE UnlinkPod
  BY <1>1, UnlinkAccount
<1> SUFFICES ASSUME ~UnlinkPod PROVE BudgetInv'
  BY <1>1
<1>2. /\ Unlinked' \subseteq Unlinked
      /\ \A q \in Pods : phase'[q] = "absent" => hash'[q]
  BY OnlyUnlinkPodUnlinks
\* A step that touches neither the process's place nor its lists and locals.
<1>3. CASE UNCHANGED <<mpc, podList, pass>>
  <2>1. CASE mpc \in MaintenancePCs
    BY <1>3, <2>1, VisitKeepsAccount DEF BudgetInv
  <2>2. CASE mpc \notin MaintenancePCs
    BY <1>2, <1>3, <2>2 DEF BudgetInv, MaintenancePCs
  <2>3. QED
    BY <2>1, <2>2
<1>4. CASE \E p \in Pods : PodEnvironment(p)
  <2>1. UNCHANGED <<mpc, podList, pass>>
    BY <1>4 DEF PodEnvironment, PodRuns, ContainerRestarts, ClientSetsDeletionTime,
                ReplicaSetCreates, ReplicaSetDeletes, KubeletStarts, PodLost, GitHubForgets,
                GitHubNotices,
                mgrVars, podLists, loopVars
  <2>2. QED
    BY <1>3, <2>1
<1>5. CASE EditPool \/ UpdateProcess \/ StopProcess \/ UNCHANGED vars
  <2>1. UNCHANGED <<mpc, podList, pass>>
    BY <1>5 DEF EditPool, UpdateProcess, StopProcess, vars, mgrVars, podLists, loopVars
  <2>2. QED
    BY <1>3, <2>1
<1>6. CASE StartProcess \/ ProcessCrashes \/ Cleanup
  <2>1. mpc' \in {"idle", "down", "cleanup", "removing"}
    BY <1>6 DEF StartProcess, ProcessCrashes, Cleanup, LeaveRun, ListAllRunners, AllRemoved,
                RemoveAnyRunner, ProcessEnds
  <2>2. QED
    BY <2>1, NoAccount DEF MaintenancePCs
<1>7. CASE FetchRunnerPods
  <2>1. mpc' = "runners" /\ Unlinked \subseteq podList'.pods \ podList'.hash
    BY <1>7 DEF FetchRunnerPods, Unlinked, Linked
  <2>2. QED
    BY <1>2, <2>1 DEF BudgetInv, MaintenancePCs
<1>8. CASE FetchRunners
  <2>1. CASE mpc' = "begin"
    <3>1. mpc = "runners" /\ podList' = podList
      BY <1>8, <2>1 DEF FetchRunners, ForgetPass
    <3>2. QED
      BY <1>2, <2>1, <3>1 DEF BudgetInv, MaintenancePCs
  <2>2. CASE mpc' # "begin"
    <3>1. mpc' = "idle"
      BY <1>8, <2>2 DEF FetchRunners
    <3>2. QED
      BY <3>1, NoAccount DEF MaintenancePCs
  <2>3. QED
    BY <2>1, <2>2
<1>9. CASE BeginMaintenance
  <2>1. Unlinked' \subseteq podList.pods \ podList.hash
    BY <1>2, <1>9 DEF BeginMaintenance, ReadNow, BudgetInv
  <2>2. IsFiniteSet(podList.pods \ podList.hash)
    BY PodsAssumption, FS_Subset DEF TypeOK, ProcessTypeOK
  <2>3. /\ Cardinality(Unlinked') <= Cardinality(podList.pods \ podList.hash)
        /\ Cardinality(podList.pods \ podList.hash) \in Nat
    BY <2>1, <2>2, FS_Subset, FS_CardinalityType
  <2>4. /\ mpc' = "loop" /\ pass'.lostReplies = 0
        /\ pass'.budget = pconf.maxRunnerPods - pconf.replicas
        /\ pass'.removable = pass'.budget - Cardinality(podList.pods \ podList.hash)
    BY <1>9 DEF BeginMaintenance, ReadNow, numUnlabeledPods
  <2>5. Cardinality(Unlinked') \in Nat /\ pass'.budget \in Int
    BY <2>1, <2>2, <2>4, FS_Subset, FS_CardinalityType, ConfFields DEF TypeOK
  <2>6. Cardinality(Unlinked') <= pass'.budget - pass'.removable + pass'.lostReplies
    BY <2>3, <2>4, <2>5
  <2>7. QED
    BY <1>2, <2>4, <2>6 DEF BudgetInv
<1>10. CASE \E p \in Pods : SkipPod(p) \/ GetStatus(p)
  <2>1. /\ mpc = "loop" /\ mpc' \in CallPCs \union {"loop"} /\ UNCHANGED pass
        /\ mpc' = "unlink" => pass.removable > 0
    BY <1>10, NextCall, UnlinkNeedsBudget DEF SkipPod, GetStatus, Proceed
  <2>2. QED
    BY <2>1, VisitKeepsAccount DEF MaintenancePCs, CallPCs
<1>11. CASE PostResult \/ DeletePod \/ PutDeletionTime \/ CreatePDB \/ RelabelPod
  <2>1. /\ mpc \in MaintenancePCs /\ mpc' \in CallPCs \union {"loop"} /\ UNCHANGED pass
        /\ mpc' = "unlink" => pass.removable > 0
    BY <1>11, NextCall, UnlinkNeedsBudget
       DEF PostResult, DeletePod, PutDeletionTime, CreatePDB, RelabelPod, NextPod, Proceed,
           MaintenancePCs, CallPCs
  <2>2. QED
    BY <2>1, VisitKeepsAccount DEF MaintenancePCs, CallPCs
<1>12. CASE \/ MaintenanceEnds \/ AllOfflineRemoved
            \/ \E p \in Pods : RemoveOfflineRunner(p)
  <2>1. mpc' \in {"idle", "offline"}
    BY <1>12 DEF MaintenanceEnds, AllOfflineRemoved, RemoveOfflineRunner, PassEnds
  <2>2. QED
    BY <2>1, NoAccount DEF MaintenancePCs
<1>13. QED
  BY <1>4, <1>5, <1>6, <1>7, <1>8, <1>9, <1>10, <1>11, <1>12 DEF Next, Pass

\* The account holds in every reachable state.
THEOREM BudgetInvariant == Spec => []BudgetInv
<1>1. TypeOK /\ TypeOK' /\ BudgetInv /\ [Next]_vars => BudgetInv'
  BY BudgetNext
<1>2. QED
  BY <1>1, BudgetInit, TypeCorrect, PTL DEF Spec

\* An update that unlinks a pod stays within maxRunnerPods - replicas, for every number of
\* pods, every edit of the pool and every interleaving; only lost replies are uncounted.
THEOREM UnlinkingStaysWithinBudget == Spec => UnlinkWithinBudget
<1>1. ASSUME TypeOK, BudgetInv, [Next]_vars, NEW p \in Pods, hash[p] /\ ~hash'[p]
      PROVE  Cardinality(Unlinked') <= pass.budget + pass'.lostReplies
  <2>1. UnlinkPod
    BY <1>1, OnlyUnlinkPodUnlinks
  <2>2. QED
    BY <1>1, <2>1, UnlinkAccount
<1>2. TypeOK /\ BudgetInv /\ [Next]_vars =>
         [\A p \in Pods : hash[p] /\ ~hash'[p] =>
             Cardinality(Unlinked') <= pass.budget + pass'.lostReplies]_vars
  BY <1>1
<1>3. QED
  BY <1>2, TypeCorrect, BudgetInvariant, PTL DEF Spec, UnlinkWithinBudget

-----------------------------------------------------------------------------
(* How many pods there are.                                                *)

Existing == {p \in Pods : Exists(p)}

\* No spec of the pool has more than R replicas, with the surge of an edited template, nor
\* lets more than B pods be unlinked.
WithinMax(R, B) ==
    \A c \in Confs : c.replicas + Surge(c) <= R /\ c.maxRunnerPods - c.replicas <= B

\* Each of the two keeps its own share: the Deployment the linked pods, the process the
\* others.
MaxInv ==
    /\ pass.lostReplies <= faults
    /\ \A R, B \in Nat : WithinMax(R, B) =>
          /\ Cardinality(Linked) <= R
          /\ pass.budget <= B
          /\ Cardinality(Unlinked) <= B + faults

\* Linked pods are finitely many.
LEMMA LinkedFinite == IsFiniteSet(Linked) /\ Cardinality(Linked) \in Nat
BY PodsAssumption, FS_Subset, FS_CardinalityType DEF Linked

\* The deletion of a pod links none.
LEMMA TerminateLinksNone ==
    ASSUME K8sTypeOK, NEW p \in Pods, Terminate(p)
    PROVE  Linked' \subseteq Linked
BY DEF Terminate, Linked, Exists, K8sTypeOK

\* Only the ReplicaSet makes linked pods.
LEMMA OnlyReplicaSetLinks ==
    ASSUME TypeOK, [Next]_vars, \A p \in Pods : ~ReplicaSetCreates(p)
    PROVE  Linked' \subseteq Linked
<1> USE DEF TypeOK
<1>1. ASSUME UNCHANGED <<phase, hash>> PROVE Linked' \subseteq Linked
  BY <1>1 DEF Linked, Exists
<1>2. ASSUME NEW p \in Pods, PodEnvironment(p) PROVE Linked' \subseteq Linked
  <2>1. CASE PodRuns(p) \/ ContainerRestarts(p) \/ ClientSetsDeletionTime(p) \/ GitHubForgets(p)
           \/ GitHubNotices(p)
    BY <1>1, <2>1 DEF PodRuns, ContainerRestarts, ClientSetsDeletionTime, GitHubForgets,
                      GitHubNotices, k8sVars
  <2>2. CASE KubeletStarts(p)
    BY <2>2 DEF KubeletStarts, Linked, Exists, K8sTypeOK
  <2>3. CASE ReplicaSetDeletes(p) \/ PodLost(p)
    BY <2>3, TerminateLinksNone DEF ReplicaSetDeletes, PodLost
  <2>4. QED
    BY <1>2, <2>1, <2>2, <2>3 DEF PodEnvironment
<1>3. CASE EditPool \/ StartProcess \/ UpdateProcess \/ StopProcess \/ ProcessCrashes
  BY <1>1, <1>3 DEF EditPool, StartProcess, UpdateProcess, StopProcess, ProcessCrashes, k8sVars
<1>4. CASE Cleanup
  BY <1>1, <1>4 DEF Cleanup, LeaveRun, ListAllRunners, AllRemoved, RemoveAnyRunner, k8sVars
<1>5. CASE DeletePod
  <2>1. cur \in Pods
    BY <1>5, CallPod DEF DeletePod, CallPCs
  <2>2. QED
    BY <1>1, <1>5, <2>1, TerminateLinksNone DEF DeletePod, k8sVars
<1>6. CASE UnlinkPod
  <2>1. phase' = phase /\ (hash' = hash \/ hash' = [hash EXCEPT ![cur] = FALSE])
    BY <1>6 DEF UnlinkPod
  <2>2. QED
    BY <2>1 DEF Linked, Exists, K8sTypeOK
<1>7. CASE Pass /\ ~DeletePod /\ ~UnlinkPod
  <2>1. UNCHANGED <<phase, hash>>
    BY <1>7 DEF Pass, FetchRunnerPods, FetchRunners, BeginMaintenance, ReadNow, SkipPod, GetStatus,
                RemoveOfflineRunner, PostResult, PutDeletionTime, CreatePDB, RelabelPod,
                MaintenanceEnds, AllOfflineRemoved, k8sVars
  <2>2. QED
    BY <1>1, <2>1
<1>8. CASE UNCHANGED vars
  BY <1>1, <1>8 DEF vars, k8sVars
<1>9. QED
  BY <1>2, <1>3, <1>4, <1>5, <1>6, <1>7, <1>8 DEF Next

\* The share of the Deployment.
LEMMA DeploymentShare ==
    ASSUME TypeOK, MaxInv, [Next]_vars, NEW R \in Nat, NEW B \in Nat, WithinMax(R, B)
    PROVE  Cardinality(Linked') <= R
<1>1. CASE \E p \in Pods : ReplicaSetCreates(p)
  <2>1. PICK p \in Pods : ReplicaSetCreates(p)
    BY <1>1
  <2>2. Linked' \subseteq Linked \union {p}
    BY <2>1 DEF ReplicaSetCreates, Linked, Exists, TypeOK, K8sTypeOK
  <2>3. IsFiniteSet(Linked \union {p})
        /\ Cardinality(Linked \union {p}) \in {Cardinality(Linked), Cardinality(Linked) + 1}
    BY LinkedFinite, FS_AddElement
  <2>4. Cardinality(Linked') <= Cardinality(Linked \union {p}) /\ Cardinality(Linked') \in Nat
    BY <2>2, <2>3, FS_Subset, FS_CardinalityType
  <2>5. /\ Cardinality(Linked) < conf.replicas + Surge(conf)
        /\ conf.replicas + Surge(conf) <= R /\ conf.replicas + Surge(conf) \in Nat
    BY <2>1, ConfsAssumption
       DEF ReplicaSetCreates, WithinMax, Surge, TypeOK, K8sTypeOK, ConfType
  <2>6. QED
    BY <2>3, <2>4, <2>5, LinkedFinite
<1>2. CASE \A p \in Pods : ~ReplicaSetCreates(p)
  <2>1. Linked' \subseteq Linked
    BY <1>2, OnlyReplicaSetLinks
  <2>2. Cardinality(Linked') <= Cardinality(Linked) /\ Cardinality(Linked') \in Nat
    BY <2>1, LinkedFinite, FS_Subset, FS_CardinalityType
  <2>3. Cardinality(Linked) <= R
    BY DEF MaxInv
  <2>4. QED
    BY <2>2, <2>3, LinkedFinite
<1>3. QED
  BY <1>1, <1>2

\* Failures are only counted up, and the numbers of a pass change only where it begins, where
\* it ends and where it unlinks a pod.
LEMMA PassNumbers ==
    ASSUME [Next]_vars, ~UnlinkPod
    PROVE  /\ faults' \in {faults, faults + 1}
           /\ pass' \in {pass, NoPass} \/ BeginMaintenance
<1>1. CASE (\E p \in Pods : PodEnvironment(p)) \/ EditPool \/ UNCHANGED vars
  BY <1>1 DEF PodEnvironment, PodRuns, ContainerRestarts, ClientSetsDeletionTime,
              ReplicaSetCreates, ReplicaSetDeletes, KubeletStarts, PodLost, GitHubForgets,
              GitHubNotices,
              EditPool, Fault, vars, mgrVars, loopVars, ghostVars
<1>2. CASE StartProcess \/ UpdateProcess \/ StopProcess \/ ProcessCrashes
  BY <1>2 DEF StartProcess, UpdateProcess, StopProcess, ProcessCrashes, ForgetPass, Fault,
              loopVars, ghostVars
<1>3. CASE Cleanup
  BY <1>3 DEF Cleanup, LeaveRun, ListAllRunners, RemoveAnyRunner, AllRemoved, ProcessEnds,
              ForgetPass, Fault, loopVars, ghostVars
<1>4. CASE FetchRunnerPods \/ FetchRunners
  BY <1>4 DEF FetchRunnerPods, FetchRunners, ForgetPass, Fault, loopVars, ghostVars
<1>5. CASE \/ MaintenanceEnds \/ AllOfflineRemoved
           \/ \E p \in Pods : RemoveOfflineRunner(p)
  BY <1>5 DEF MaintenanceEnds, AllOfflineRemoved, RemoveOfflineRunner, PassEnds, ForgetPass,
              CallFails, ghostVars
<1>6. CASE \E p \in Pods : SkipPod(p) \/ GetStatus(p)
  BY <1>6 DEF SkipPod, GetStatus, CallFails, ghostVars
<1>7. CASE PostResult \/ DeletePod \/ PutDeletionTime \/ CreatePDB \/ RelabelPod
  BY <1>7 DEF PostResult, DeletePod, PutDeletionTime, CreatePDB, RelabelPod, CallFails
<1>8. CASE BeginMaintenance
  BY <1>8 DEF BeginMaintenance, ReadNow
<1>9. QED
  BY <1>1, <1>2, <1>3, <1>4, <1>5, <1>6, <1>7, <1>8 DEF Next, Pass

\* A lost reply is a failure.
LEMMA UnlinkNumbers ==
    ASSUME TypeOK, UnlinkPod
    PROVE  /\ pass'.budget = pass.budget
           /\ \/ pass'.lostReplies = pass.lostReplies /\ faults' \in {faults, faults + 1}
              \/ pass'.lostReplies = pass.lostReplies + 1 /\ faults' = faults + 1
           /\ phase' = phase
<1>1. pass \in PassType
  BY DEF TypeOK, ProcessTypeOK
<1>2. phase' = phase
  BY DEF UnlinkPod
<1>3. CASE pass' = [pass EXCEPT !.lostReplies = @ + 1] /\ Fault
  BY <1>1, <1>2, <1>3 DEF Fault, PassType
<1>4. CASE pass' = [pass EXCEPT !.removable = @ - 1] /\ UNCHANGED faults
  BY <1>1, <1>2, <1>4 DEF PassType
<1>5. CASE UNCHANGED pass /\ (UNCHANGED faults \/ CallFails)
  BY <1>2, <1>5 DEF CallFails
<1>6. QED
  BY <1>3, <1>4, <1>5 DEF UnlinkPod

\* The share of the process: the account of the pass has counted every failure that unlinked
\* a pod, and the pods it has listed are among those there are.
LEMMA ProcessShare ==
    ASSUME TypeOK, BudgetInv, MaxInv, [Next]_vars
    PROVE  /\ pass'.lostReplies <= faults'
           /\ \A R, B \in Nat : WithinMax(R, B) =>
                 pass'.budget <= B /\ Cardinality(Unlinked') <= B + faults'
<1>1. /\ pass.lostReplies \in Nat /\ pass.budget \in Int /\ faults \in Nat
      /\ pass.lostReplies <= faults
  BY DEF TypeOK, ProcessTypeOK, PassType, HistoryTypeOK, MaxInv
<1>2. ASSUME NEW R \in Nat, NEW B \in Nat, WithinMax(R, B)
      PROVE  pass.budget <= B /\ Cardinality(Unlinked) <= B + faults
  BY <1>2 DEF MaxInv
<1>3. CASE UnlinkPod
  <2>1. /\ pass'.budget = pass.budget
        /\ \/ pass'.lostReplies = pass.lostReplies /\ faults' \in {faults, faults + 1}
           \/ pass'.lostReplies = pass.lostReplies + 1 /\ faults' = faults + 1
        /\ phase' = phase
    BY <1>3, UnlinkNumbers
  <2>2. pass'.lostReplies <= faults' /\ pass'.lostReplies \in Nat /\ faults' \in Nat
    BY <1>1, <2>1
  <2>3. CASE hash' = hash
    <3>1. Unlinked' = Unlinked
      BY <2>1, <2>3 DEF Unlinked, Exists
    <3>2. QED
      BY <1>1, <1>2, <2>1, <2>2, <3>1, UnlinkedFinite
  <2>4. CASE hash' # hash
    <3>1. Cardinality(Unlinked') <= pass.budget + pass'.lostReplies
      BY <1>3, <2>4, UnlinkAccount
    <3>2. Cardinality(Unlinked') \in Nat
      <4>1. Unlinked' \subseteq Pods
        BY DEF Unlinked
      <4>2. QED
        BY <4>1, PodsAssumption, FS_Subset, FS_CardinalityType
    <3>3. QED
      BY <1>1, <1>2, <2>1, <2>2, <3>1, <3>2
  <2>5. QED
    BY <2>3, <2>4
<1>4. CASE ~UnlinkPod
  <2>1. /\ faults' \in {faults, faults + 1}
        /\ pass' \in {pass, NoPass} \/ BeginMaintenance
    BY <1>4, PassNumbers
  <2>2. Unlinked' \subseteq Unlinked
    BY <1>4, OnlyUnlinkPodUnlinks
  <2>3. Cardinality(Unlinked') <= Cardinality(Unlinked) /\ Cardinality(Unlinked') \in Nat
    BY <2>2, UnlinkedFinite, FS_Subset, FS_CardinalityType
  <2>4. pass'.lostReplies <= faults'
    <3>1. CASE pass' = pass
      BY <1>1, <2>1, <3>1
    <3>2. CASE pass' = NoPass \/ BeginMaintenance
      <4>1. pass'.lostReplies = 0
        BY <3>2 DEF BeginMaintenance, ReadNow, NoPass
      <4>2. QED
        BY <1>1, <2>1, <4>1
    <3>3. QED
      BY <2>1, <3>1, <3>2
  <2>5. ASSUME NEW R \in Nat, NEW B \in Nat, WithinMax(R, B)
        PROVE  pass'.budget <= B
    <3>1. CASE pass' = pass
      BY <1>2, <2>5, <3>1
    <3>2. CASE pass' = NoPass
      BY <3>2 DEF NoPass
    <3>3. CASE BeginMaintenance
      <4>1. pass'.budget = pconf.maxRunnerPods - pconf.replicas
        BY <3>3 DEF BeginMaintenance, ReadNow
      <4>2. QED
        BY <2>5, <4>1 DEF WithinMax, TypeOK, ProcessTypeOK
    <3>4. QED
      BY <2>1, <3>1, <3>2, <3>3
  <2>6. ASSUME NEW R \in Nat, NEW B \in Nat, WithinMax(R, B)
        PROVE  Cardinality(Unlinked') <= B + faults'
    BY <1>1, <1>2, <2>1, <2>3, <2>6, UnlinkedFinite
  <2>7. QED
    BY <2>4, <2>5, <2>6
<1>5. QED
  BY <1>3, <1>4

\* A pool begins without pods.
LEMMA MaxInit == Init => MaxInv
<1> SUFFICES ASSUME Init PROVE MaxInv
  OBVIOUS
<1>1. Linked = {} /\ Unlinked = {}
  BY DEF Init, Linked, Unlinked, Exists
<1>2. pass.lostReplies = 0 /\ pass.budget = 0 /\ faults = 0
  BY DEF Init, NoPass
<1>3. Cardinality({}) = 0
  BY FS_EmptySet
<1>4. QED
  BY <1>1, <1>2, <1>3 DEF MaxInv

\* Both shares are kept by every step.
LEMMA MaxInvariant == Spec => []MaxInv
<1>1. TypeOK /\ BudgetInv /\ MaxInv /\ [Next]_vars => MaxInv'
  BY DeploymentShare, ProcessShare DEF MaxInv, WithinMax
<1>2. QED
  BY <1>1, MaxInit, TypeCorrect, BudgetInvariant, PTL DEF Spec

\* Deployment and process share the pods of a pool without knowing of each other: however
\* many pods they replace and unlink, and however often the spec is edited between any two
\* of their steps, there are no more than the largest replicas, with the surge of the
\* Deployment when templates are edited too, and the largest budget of the specs add up to,
\* and one for every failure.
THEOREM PodsWithinMax == Spec => []PodsStayWithinMax
<1>1. MaxInv /\ TypeOK => PodsStayWithinMax
  <2> SUFFICES ASSUME MaxInv, TypeOK, NEW R \in 0..Cardinality(Pods),
                      NEW B \in 0..Cardinality(Pods), WithinMax(R, B)
               PROVE  Cardinality(Existing) <= R + B + faults
    BY DEF PodsStayWithinMax, WithinMax, Existing
  <2>1. Existing = Linked \union Unlinked
    BY DEF Existing, Linked, Unlinked, TypeOK, K8sTypeOK
  <2>2. Cardinality(Existing) <= Cardinality(Linked) + Cardinality(Unlinked)
    <3>1. Linked \intersect Unlinked = {}
      BY DEF Linked, Unlinked
    <3>2. Cardinality(Linked \intersect Unlinked) = 0
      BY <3>1, FS_EmptySet
    <3>3. QED
      <4>1. Cardinality(Linked \union Unlinked)
              = Cardinality(Linked) + Cardinality(Unlinked)
                - Cardinality(Linked \intersect Unlinked)
        BY LinkedFinite, UnlinkedFinite, FS_Union
      <4>2. QED
        BY <2>1, <3>2, <4>1, LinkedFinite, UnlinkedFinite
  <2>3. R \in Nat /\ B \in Nat
    OBVIOUS
  <2>4. Cardinality(Linked) <= R /\ Cardinality(Unlinked) <= B + faults
    BY <2>3 DEF MaxInv
  <2>5. Cardinality(Existing) \in Nat
    <3>1. Existing \subseteq Pods
      BY DEF Existing
    <3>2. QED
      BY <3>1, PodsAssumption, FS_Subset, FS_CardinalityType
  <2>6. QED
    BY <2>2, <2>3, <2>4, <2>5, LinkedFinite, UnlinkedFinite DEF TypeOK, HistoryTypeOK
<1>2. QED
  BY <1>1, MaxInvariant, TypeCorrect, PTL

-----------------------------------------------------------------------------
(* Metrics.                                                                *)

\* A process that is started has listed no runner yet.
MetricsInv ==
    /\ MetricsFollowTheList
    /\ mpc = "down" => prevRunnerNames = {}

\* Every step keeps the exported metrics those of the last list.
LEMMA MetricsNext == MetricsInv /\ [Next]_vars => MetricsInv'
<1> SUFFICES ASSUME MetricsInv, [Next]_vars PROVE MetricsInv'
  OBVIOUS
<1> USE DEF MetricsInv, MetricsFollowTheList
<1>1. CASE (\E p \in Pods : PodEnvironment(p)) \/ EditPool \/ UNCHANGED vars
  BY <1>1 DEF PodEnvironment, PodRuns, ContainerRestarts, ClientSetsDeletionTime,
              ReplicaSetCreates, ReplicaSetDeletes, KubeletStarts, PodLost, GitHubForgets,
              GitHubNotices,
              EditPool, vars, mgrVars, procVars
<1>2. CASE StartProcess \/ UpdateProcess \/ StopProcess \/ ProcessCrashes
  BY <1>2 DEF StartProcess, UpdateProcess, StopProcess, ProcessCrashes
<1>3. CASE Cleanup
  BY <1>3 DEF Cleanup, LeaveRun, ListAllRunners, RemoveAnyRunner, AllRemoved, ProcessEnds,
              procVars
<1>4. CASE FetchRunners
  <2>1. CASE \E missing \in SUBSET Pods : ListRunners(missing)
    BY <1>4, <2>1 DEF FetchRunners, ListRunners, UpdateMetrics
  <2>2. CASE UNCHANGED <<prevRunnerNames, metricNames>>
    BY <1>4, <2>2 DEF FetchRunners
  <2>3. QED
    BY <1>4, <2>1, <2>2 DEF FetchRunners, Registered
<1>5. CASE FetchRunnerPods \/ BeginMaintenance \/ MaintenanceEnds \/ AllOfflineRemoved
  BY <1>5 DEF FetchRunnerPods, BeginMaintenance, ReadNow, MaintenanceEnds, AllOfflineRemoved,
              PassEnds, procVars
<1>6. CASE \E p \in Pods : SkipPod(p) \/ GetStatus(p) \/ RemoveOfflineRunner(p)
  <2>1. /\ UNCHANGED <<metricNames, prevRunnerNames>> /\ mpc \in {"loop", "offline"}
        /\ mpc' \in CallPCs \union {"loop", "offline", "idle"}
    BY <1>6, NextCall DEF SkipPod, GetStatus, RemoveOfflineRunner, PassEnds, Proceed, procVars
  <2>2. QED
    BY <2>1 DEF CallPCs
<1>7. CASE PostResult \/ DeletePod \/ PutDeletionTime \/ CreatePDB \/ RelabelPod \/ UnlinkPod
  <2>1. /\ UNCHANGED <<metricNames, prevRunnerNames>> /\ mpc \in CallPCs
        /\ mpc' \in CallPCs \union {"loop"}
    BY <1>7, NextCall DEF PostResult, DeletePod, PutDeletionTime, CreatePDB, RelabelPod,
                          UnlinkPod, NextPod, Proceed, procVars, CallPCs
  <2>2. QED
    BY <2>1 DEF CallPCs
<1>8. QED
  BY <1>1, <1>2, <1>3, <1>4, <1>5, <1>6, <1>7 DEF Next, Pass

\* The metrics of a pool are those of the runners that were listed last, and none are left
\* when nobody manages the pool, whatever appears and disappears between two lists.
THEOREM MetricsFollow == Spec => []MetricsFollowTheList
<1>1. Init => MetricsInv
  BY DEF Init, MetricsInv, MetricsFollowTheList
<1>2. MetricsInv => MetricsFollowTheList
  BY DEF MetricsInv
<1>3. QED
  BY <1>1, <1>2, MetricsNext, PTL DEF Spec

-----------------------------------------------------------------------------
(* Protection.                                                             *)

\* A pass is about pods that it has listed, and a listed pod has existed.
ListedPods ==
    /\ podList.protected \subseteq podList.pods
    /\ \A p \in podList.pods : phase[p] # "absent"
    /\ mpc \in MaintenancePCs => todo \subseteq podList.pods
    /\ cur \in Pods => cur \in podList.pods

\* The label follows the budget, and the unlinking follows the label.
ProtectionInv ==
    /\ \A p \in Pods : phase[p] = "absent" => ~protected[p] /\ hash[p]
    /\ \A p \in Pods : protected[p] /\ Exists(p) => pdb[p]
    /\ \A p \in podList.protected : protected[p]
    /\ mpc = "relabel" /\ Exists(cur) => pdb[cur]
    /\ (\A c \in Confs : c.denyDisruption) =>
          /\ mpc = "unlink" => cur \in podList.protected
          /\ \A p \in Unlinked : protected[p]

GuardInv == ListedPods /\ ProtectionInv

\* The next call for a pod is never a new relabelling, and an unlinking only of a pod whose
\* label has been listed, in a pool that denies disruption.
LEMMA UnlinkNeedsLabel ==
    ASSUME NEW p, NEW st, pconf.denyDisruption
    PROVE  /\ AfterDebugging(p, st) = "unlink" => p \in podList.protected
           /\ AfterNotification(p, st) = "unlink" => p \in podList.protected
           /\ AfterStatus(p, st) = "unlink" => p \in podList.protected
<1>1. AfterDebugging(p, st) = "unlink" => p \in podList.protected
  BY DEF AfterDebugging
<1>2. AfterNotification(p, st) = "unlink" => p \in podList.protected
  BY <1>1 DEF AfterNotification
<1>3. AfterStatus(p, st) = "unlink" => p \in podList.protected
  BY <1>1, <1>2 DEF AfterStatus
<1>4. QED
  BY <1>1, <1>2, <1>3

\* No pod is relabelled without a budget of its own.
LEMMA RelabelNeedsBudget ==
    ASSUME NEW p, NEW st
    PROVE  /\ AfterProtection(p) # "relabel" /\ AfterDebugging(p, st) # "relabel"
           /\ AfterNotification(p, st) # "relabel" /\ AfterStatus(p, st) # "relabel"
<1>1. AfterProtection(p) # "relabel"
  BY DEF AfterProtection
<1>2. AfterDebugging(p, st) # "relabel"
  BY <1>1 DEF AfterDebugging
<1>3. AfterNotification(p, st) # "relabel"
  BY <1>2 DEF AfterNotification
<1>4. QED
  BY <1>1, <1>2, <1>3 DEF AfterStatus

\* A process that gives up its pass outside the loop has nothing to guard.
LEMMA ForgottenIsGuarded ==
    ASSUME GuardInv, ForgetPass, UNCHANGED <<phase, hash, protected, pdb>>,
           mpc' \notin MaintenancePCs
    PROVE  GuardInv'
BY PodsAssumption DEF GuardInv, ListedPods, ProtectionInv, ForgetPass, NoList, Exists, Unlinked,
                      MaintenancePCs

\* A pod that is deleted needs no protection any more.
LEMMA TerminateIsGuarded ==
    ASSUME TypeOK, GuardInv, NEW p \in Pods, Terminate(p), UNCHANGED <<podList, todo>>,
           \/ mpc' = mpc /\ cur' = cur
           \/ mpc \in MaintenancePCs /\ mpc' = "loop" /\ cur' = NoPod
    PROVE  GuardInv'
<1> USE DEF GuardInv, ListedPods, ProtectionInv, Terminate, TypeOK, K8sTypeOK, MaintenancePCs
<1>1. ListedPods'
  BY PodsAssumption
<1>2. ProtectionInv'
  BY DEF Exists, Unlinked, ProcessTypeOK
<1>3. QED
  BY <1>1, <1>2

\* The steps of the pods, the Deployment, the users and GitHub.
LEMMA EnvironmentIsGuarded ==
    ASSUME TypeOK, GuardInv, (\E p \in Pods : PodEnvironment(p)) \/ EditPool \/ UNCHANGED vars
    PROVE  GuardInv'
<1> USE DEF GuardInv, ListedPods, ProtectionInv
<1>1. ASSUME UNCHANGED <<phase, hash, protected, pdb, mpc, podList, todo, cur>> PROVE GuardInv'
  BY <1>1 DEF Exists, Unlinked
<1>2. ASSUME NEW p \in Pods, PodEnvironment(p) PROVE GuardInv'
  <2>1. CASE PodRuns(p) \/ ContainerRestarts(p) \/ ClientSetsDeletionTime(p) \/ GitHubForgets(p)
           \/ GitHubNotices(p)
    BY <1>1, <2>1 DEF PodRuns, ContainerRestarts, ClientSetsDeletionTime, GitHubForgets,
                      GitHubNotices, k8sVars, mgrVars, podLists, loopVars
  <2>2. CASE ReplicaSetCreates(p)
    <3>1. /\ phase[p] = "absent" /\ phase' = [phase EXCEPT ![p] = "pending"]
          /\ UNCHANGED <<hash, protected, pdb, mpc, podList, todo, cur>>
      BY <2>2 DEF ReplicaSetCreates, mgrVars, podLists, loopVars
    <3>2. p \notin podList.pods /\ cur # p /\ ~protected[p] /\ hash[p]
      BY <3>1
    <3>3. ListedPods'
      BY <3>1, <3>2 DEF TypeOK, K8sTypeOK
    <3>4. \A q \in Pods : q # p => (Exists(q)' <=> Exists(q))
      BY <3>1 DEF Exists, TypeOK, K8sTypeOK
    <3>5. mpc = "relabel" => cur \in Pods
      BY DEF TypeOK, ProcessTypeOK, CallPCs
    <3>6. ProtectionInv'
      BY <3>1, <3>2, <3>4, <3>5 DEF Exists, Unlinked, TypeOK, K8sTypeOK, ProcessTypeOK
    <3>7. QED
      BY <3>3, <3>6
  <2>3. CASE KubeletStarts(p)
    <3>1. /\ phase[p] = "pending" /\ phase' = [phase EXCEPT ![p] = "running"]
          /\ UNCHANGED <<hash, protected, pdb, mpc, podList, todo, cur>>
      BY <2>3 DEF KubeletStarts, mgrVars, podLists, loopVars
    <3>2. \A q \in Pods : /\ Exists(q)' <=> Exists(q)
                          /\ phase'[q] = "absent" <=> phase[q] = "absent"
      BY <3>1 DEF Exists, TypeOK, K8sTypeOK
    <3>3. mpc = "relabel" => cur \in Pods
      BY DEF TypeOK, ProcessTypeOK, CallPCs
    <3>4. QED
      BY <3>1, <3>2, <3>3 DEF Exists, Unlinked, TypeOK, ProcessTypeOK
  <2>4. CASE ReplicaSetDeletes(p) \/ PodLost(p)
    BY <2>4, TerminateIsGuarded DEF ReplicaSetDeletes, PodLost, mgrVars, podLists, loopVars
  <2>5. QED
    BY <1>2, <2>1, <2>2, <2>3, <2>4 DEF PodEnvironment
<1>3. CASE EditPool \/ UNCHANGED vars
  BY <1>1, <1>3 DEF EditPool, vars, k8sVars, mgrVars, podLists, loopVars
<1>4. QED
  BY <1>2, <1>3

\* The life of the process.
LEMMA LifeIsGuarded ==
    ASSUME TypeOK, GuardInv,
           StartProcess \/ UpdateProcess \/ StopProcess \/ ProcessCrashes \/ Cleanup
    PROVE  GuardInv'
<1>1. CASE StartProcess \/ UpdateProcess \/ StopProcess
  BY <1>1 DEF StartProcess, UpdateProcess, StopProcess, GuardInv, ListedPods, ProtectionInv,
              Exists, Unlinked, k8sVars, podLists, loopVars, MaintenancePCs
<1>2. CASE ProcessCrashes
  BY <1>2, ForgottenIsGuarded DEF ProcessCrashes, k8sVars, MaintenancePCs
<1>3. CASE Cleanup
  <2>1. UNCHANGED <<phase, hash, protected, pdb>> /\ mpc' \notin MaintenancePCs
    BY <1>3 DEF Cleanup, LeaveRun, ListAllRunners, AllRemoved, RemoveAnyRunner, ProcessEnds,
                k8sVars, MaintenancePCs
  <2>2. CASE ForgetPass
    BY <2>1, <2>2, ForgottenIsGuarded
  <2>3. CASE UNCHANGED <<podList, cur>>
    BY <2>1, <2>3 DEF GuardInv, ListedPods, ProtectionInv, Exists, Unlinked, MaintenancePCs
  <2>4. QED
    BY <1>3, <2>2, <2>3 DEF Cleanup, LeaveRun, ListAllRunners, AllRemoved, RemoveAnyRunner,
                            ProcessEnds, podLists, loopVars
<1>4. QED
  BY <1>1, <1>2, <1>3

\* The lists, and the loop that visits the pods.
LEMMA VisitsAreGuarded ==
    ASSUME TypeOK, GuardInv,
           \/ FetchRunnerPods \/ FetchRunners \/ BeginMaintenance
           \/ MaintenanceEnds \/ AllOfflineRemoved
           \/ \E p \in Pods : SkipPod(p) \/ GetStatus(p) \/ RemoveOfflineRunner(p)
    PROVE  GuardInv'
<1> USE DEF GuardInv, ListedPods, ProtectionInv, Exists, Unlinked, k8sVars, MaintenancePCs
<1>1. CASE FetchRunnerPods
  BY <1>1, PodsAssumption
     DEF FetchRunnerPods, loopVars, TypeOK, ProcessTypeOK, K8sTypeOK, CallPCs
<1>2. CASE FetchRunners
  <2>1. CASE ForgetPass
    <3>1. mpc' \in {"idle", "begin"} /\ UNCHANGED k8sVars
      BY <1>2 DEF FetchRunners
    <3>2. QED
      BY <2>1, <3>1, ForgottenIsGuarded
  <2>2. CASE mpc' = "begin" /\ UNCHANGED <<podList, loopVars>>
    BY <1>2, <2>2 DEF FetchRunners, loopVars
  <2>3. QED
    BY <1>2, <2>1, <2>2 DEF FetchRunners
<1>3. CASE BeginMaintenance
  BY <1>3 DEF BeginMaintenance, ReadNow, podLists
<1>4. CASE MaintenanceEnds
  BY <1>4 DEF MaintenanceEnds, podLists
<1>5. CASE AllOfflineRemoved
  BY <1>5, ForgottenIsGuarded DEF AllOfflineRemoved, PassEnds
<1>6. ASSUME NEW p \in Pods, RemoveOfflineRunner(p) PROVE GuardInv'
  <2>1. CASE PassEnds
    BY <1>6, <2>1, ForgottenIsGuarded DEF RemoveOfflineRunner, PassEnds
  <2>2. CASE UNCHANGED <<mpc, podLists, cur>>
    BY <1>6, <2>2 DEF RemoveOfflineRunner, podLists
  <2>3. QED
    BY <1>6, <2>1, <2>2 DEF RemoveOfflineRunner
<1>7. ASSUME NEW p \in Pods, SkipPod(p) PROVE GuardInv'
  BY <1>7 DEF SkipPod, podLists
<1>8. ASSUME NEW p \in Pods, GetStatus(p) PROVE GuardInv'
  <2>1. /\ mpc = "loop" /\ p \in podList.pods /\ todo' = todo \ {p}
        /\ UNCHANGED <<phase, hash, protected, pdb, podList>>
    BY <1>8 DEF GetStatus, podLists
  <2>2. CASE UNCHANGED <<mpc, cur>>
    BY <2>1, <2>2
  <2>3. CASE Proceed(p, status[p], AfterStatus(p, status[p]))
    <3>1. mpc' \in CallPCs \union {"loop"} /\ mpc' # "relabel" /\ (cur' \in Pods => cur' = p)
      BY <2>3, NextCall, RelabelNeedsBudget, PodsAssumption DEF Proceed
    <3>2. mpc' = "unlink" => cur' = p
      BY <2>3 DEF Proceed
    <3>3. (\A c \in Confs : c.denyDisruption) => (mpc' = "unlink" => p \in podList.protected)
      BY <2>3, UnlinkNeedsLabel DEF Proceed, TypeOK, ProcessTypeOK
    <3>4. QED
      BY <2>1, <3>1, <3>2, <3>3 DEF CallPCs
  <2>4. QED
    BY <1>8, <2>2, <2>3 DEF GetStatus
<1>9. QED
  BY <1>1, <1>2, <1>3, <1>4, <1>5, <1>6, <1>7, <1>8

\* The calls about one pod: the budget comes first, then the label, then the unlinking.
LEMMA CallsAreGuarded ==
    ASSUME TypeOK, GuardInv,
           \/ PostResult \/ DeletePod \/ PutDeletionTime
           \/ CreatePDB \/ RelabelPod \/ UnlinkPod
    PROVE  GuardInv'
<1> USE DEF GuardInv, ListedPods, ProtectionInv
<1>1. cur \in Pods /\ cur \in podList.pods /\ mpc \in MaintenancePCs
  BY CallPod DEF PostResult, DeletePod, PutDeletionTime, CreatePDB, RelabelPod, UnlinkPod, TypeOK,
                 CallPCs, MaintenancePCs
<1>2. CASE PostResult \/ PutDeletionTime
  <2>1. /\ UNCHANGED <<phase, hash, protected, pdb, podList, todo, pconf>>
        /\ mpc' \in CallPCs \union {"loop"} /\ mpc' # "relabel" /\ cur' \in {cur, NoPod}
        /\ mpc' = "unlink" => cur' = cur
    BY <1>2, NextCall, RelabelNeedsBudget
       DEF PostResult, PutDeletionTime, Proceed, k8sVars, podLists, procVars
  <2>2. (\A c \in Confs : c.denyDisruption) => (mpc' = "unlink" => cur \in podList.protected)
    BY <1>2, UnlinkNeedsLabel DEF PostResult, PutDeletionTime, Proceed, TypeOK, ProcessTypeOK
  <2>3. QED
    BY <1>1, <2>1, <2>2, PodsAssumption DEF CallPCs, Exists, Unlinked, MaintenancePCs
<1>3. CASE DeletePod
  <2>1. UNCHANGED <<podList, todo>> /\ mpc' = "loop" /\ cur' = NoPod
    BY <1>3 DEF DeletePod, NextPod, Proceed, podLists
  <2>2. CASE Terminate(cur)
    BY <1>1, <2>1, <2>2, TerminateIsGuarded
  <2>3. CASE UNCHANGED k8sVars
    BY <1>1, <2>1, <2>3, PodsAssumption DEF k8sVars, Exists, Unlinked
  <2>4. QED
    BY <1>3, <2>2, <2>3 DEF DeletePod
<1>4. CASE CreatePDB
  <2>1. UNCHANGED <<phase, hash, protected, podList, todo>>
    BY <1>4 DEF CreatePDB, podLists
  <2>2. CASE /\ mpc' = "relabel" /\ cur' = cur
             /\ pdb' = IF Exists(cur) THEN [pdb EXCEPT ![cur] = TRUE] ELSE pdb
    BY <1>1, <2>1, <2>2 DEF Exists, Unlinked, MaintenancePCs, TypeOK, K8sTypeOK
  <2>3. CASE mpc' = "loop" /\ cur' = NoPod /\ UNCHANGED pdb
    BY <1>1, <2>1, <2>3, PodsAssumption DEF Exists, Unlinked
  <2>4. QED
    BY <1>4, <2>2, <2>3 DEF CreatePDB, NextPod, Proceed
<1>5. CASE RelabelPod
  <2>1. UNCHANGED <<phase, hash, pdb, todo>> /\ mpc = "relabel"
    BY <1>5 DEF RelabelPod
  <2>2. CASE /\ Updatable(cur)
             /\ protected' = [protected EXCEPT ![cur] = TRUE]
             /\ podList' = [podList EXCEPT !.protected = @ \union {cur}]
             /\ Proceed(cur, got, AfterProtection(cur))
    <3>1. podList'.pods = podList.pods /\ podList'.protected = podList.protected \union {cur}
      BY <2>2 DEF TypeOK, ProcessTypeOK
    <3>2. mpc' \in {"unlink", "loop"} /\ cur' \in {cur, NoPod} /\ (mpc' = "unlink" => cur' = cur)
      BY <2>2 DEF Proceed, AfterProtection
    <3>3. Exists(cur) /\ pdb[cur]
      BY <2>1, <2>2 DEF Updatable
    <3>4. ListedPods'
      BY <1>1, <2>1, <3>1, <3>2, PodsAssumption
    <3>5. \A p \in Pods : protected'[p] = (protected[p] \/ p = cur)
      BY <1>1, <2>2 DEF TypeOK, K8sTypeOK
    <3>6. podList.protected \subseteq Pods
      BY DEF TypeOK, ProcessTypeOK
    <3>7. ProtectionInv'
      BY <1>1, <2>1, <3>1, <3>2, <3>3, <3>5, <3>6 DEF Exists, Unlinked
    <3>8. QED
      BY <3>4, <3>7
  <2>3. CASE NextPod /\ UNCHANGED <<protected, podList>>
    BY <1>1, <2>1, <2>3, PodsAssumption DEF NextPod, Proceed, Exists, Unlinked
  <2>4. QED
    BY <1>5, <2>2, <2>3 DEF RelabelPod
<1>6. CASE UnlinkPod
  <2>1. /\ UNCHANGED <<phase, protected, pdb, podList, todo>>
        /\ mpc = "unlink" /\ mpc' = "loop" /\ cur' = NoPod
    BY <1>6 DEF UnlinkPod, podLists, NextPod, Proceed
  <2>2. CASE Updatable(cur) /\ hash' = [hash EXCEPT ![cur] = FALSE]
    <3>1. phase[cur] # "absent"
      BY <1>1
    <3>2. (\A c \in Confs : c.denyDisruption) => protected[cur]
      BY <2>1
    <3>3. \A p \in Pods : p # cur => hash'[p] = hash[p]
      BY <2>2 DEF TypeOK, K8sTypeOK
    <3>4. QED
      BY <1>1, <2>1, <3>1, <3>2, <3>3, PodsAssumption DEF Exists, Unlinked
  <2>3. CASE UNCHANGED hash
    BY <1>1, <2>1, <2>3, PodsAssumption DEF Exists, Unlinked
  <2>4. QED
    BY <1>6, <2>2, <2>3 DEF UnlinkPod
<1>7. QED
  BY <1>2, <1>3, <1>4, <1>5, <1>6

\* The protection holds in every reachable state.
LEMMA GuardInvariant == Spec => []GuardInv
<1>1. Init => GuardInv
  BY PodsAssumption DEF Init, GuardInv, ListedPods, ProtectionInv, NoList, Exists, Unlinked,
                        MaintenancePCs
<1>2. TypeOK /\ GuardInv /\ [Next]_vars => GuardInv'
  BY EnvironmentIsGuarded, LifeIsGuarded, VisitsAreGuarded, CallsAreGuarded DEF Next, Pass
<1>3. QED
  BY <1>1, <1>2, TypeCorrect, PTL DEF Spec

\* In a pool that denies disruption, a pod that has left the ReplicaSet carries the label
\* and has its budget, whatever failed or was edited in between.
THEOREM UnlinkedAreProtected == Spec => []UnlinkedIsProtected
<1>1. GuardInv => UnlinkedIsProtected
  BY DEF GuardInv, ProtectionInv, UnlinkedIsProtected, Unlinked
<1>2. QED
  BY <1>1, GuardInvariant, PTL
=============================================================================
