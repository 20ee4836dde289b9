----------------------- MODULE RunnerManagerJobProofs -----------------------
(***************************************************************************)
(* Proofs about what RunnerManager does to jobs and their results, for     *)
(* every finite set of pods, every set of RunnerPool specs and every       *)
(* bound: a result is posted at most twice, it is missing only for one of  *)
(* the known causes, and a job the list shows is not killed.               *)
(***************************************************************************)
EXTENDS RunnerManagerProofs

-----------------------------------------------------------------------------
(* How often a result is posted.                                           *)

\* A pod whose job is over and whose finish time can only be forgotten.
Settled(p) == phase[p] = "gone" \/ (started[p] /\ stage[p] \in {"over", "boot"})

\* The stage a pod with a finish time is at, and the readings of its clock.
PodsInv ==
    \A p \in Pods :
        /\ stage[p] # "boot" => started[p]
        /\ status[p].finishedAt # NoTime \/ Debugging(status[p]) => stage[p] = "over"
        /\ phase[p] = "gone" => stage[p] = "boot"
        /\ status[p].finishedAt <= clock + Ahead /\ status[p].finishedAt <= MaxClock + Ahead
        /\ draft[p].finishedAt <= clock + Ahead /\ draft[p].finishedAt <= MaxClock + Ahead

\* What a step of the system can do to the pods.
PodsMove ==
    \/ \E p \in Pods : PodRuns(p)
    \/ \E p \in Pods : Restart(p) /\ phase[p] = "running" /\ UNCHANGED phase
    \/ \E p \in Pods : Terminate(p) /\ UNCHANGED clock
    \/ \E p \in Pods, t \in Nat : SetDeletionTime(p, t) /\ UNCHANGED phase
    \/ /\ UNCHANGED <<stage, started, status, draft>>
       /\ clock' \in Nat /\ clock' >= clock
       /\ \A p \in Pods : phase[p] = "gone" <=> phase'[p] = "gone"

\* The clock is not turned back, and its next reading is not before the finish time of a pod
\* whose clock is ahead.
LEMMA ClockGrows ==
    PodsTypeOK /\ ReadClock =>
        /\ clock' \in Nat /\ clock' >= clock
        /\ \A f \in Nat : f <= clock + Ahead /\ f <= MaxClock + Ahead => f <= clock'
BY ManagerBounds, SkewAssumption, MaxClockAssumption DEF PodsTypeOK, ReadClock

\* No step turns the clock back.
LEMMA ClocksGrow == PodsTypeOK /\ PodsMove => clock' \in Nat /\ clock' >= clock
BY DEF PodsMove, PodRuns, PodsTypeOK, PodStep, Start, TurnStale, Register, Connect, TakeJob,
       Disconnect, EndListen, DraftStatus, Publish, Restart, Terminate, SetDeletionTime

\* Every step does one of these things to the pods.
LEMMA PodsOnlyMove == TypeOK /\ [Next]_vars => PodsMove
<1> SUFFICES ASSUME TypeOK, [Next]_vars PROVE PodsMove
  OBVIOUS
<1>0. clock \in Nat
  BY DEF TypeOK, PodsTypeOK
<1>1. ASSUME UNCHANGED <<clock, stage, started, status, draft, phase>> PROVE PodsMove
  BY <1>0, <1>1 DEF PodsMove
<1>2. ASSUME NEW p \in Pods, PodEnvironment(p) PROVE PodsMove
  <2>1. CASE PodRuns(p) \/ ContainerRestarts(p)
    BY <2>1 DEF ContainerRestarts, k8sVars, PodsMove
  <2>2. CASE ReplicaSetDeletes(p) \/ PodLost(p)
    BY <2>2 DEF ReplicaSetDeletes, PodLost, PodsMove
  <2>3. CASE ClientSetsDeletionTime(p)
    BY <2>3, TimesAssumption DEF ClientSetsDeletionTime, k8sVars, PodsMove
  <2>4. CASE ReplicaSetCreates(p) \/ KubeletStarts(p)
    BY <1>0, <2>4 DEF ReplicaSetCreates, KubeletStarts, podVars, PodsMove, TypeOK, K8sTypeOK
  <2>5. CASE GitHubForgets(p) \/ GitHubNotices(p)
    BY <1>1, <2>5 DEF GitHubForgets, GitHubNotices, Deregister, k8sVars
  <2>6. QED
    BY <1>2, <2>1, <2>2, <2>3, <2>4, <2>5 DEF PodEnvironment
<1>3. CASE EditPool \/ UpdateProcess \/ StopProcess \/ ProcessCrashes \/ UNCHANGED vars
  BY <1>1, <1>3 DEF EditPool, UpdateProcess, StopProcess, ProcessCrashes, vars, podVars, k8sVars
<1>4. CASE StartProcess \/ BeginMaintenance
  BY <1>4, ClockGrows DEF StartProcess, BeginMaintenance, ReadNow, podVars, k8sVars,
                      PodsMove, TypeOK
<1>5. CASE Cleanup
  BY <1>1, <1>5 DEF Cleanup, LeaveRun, ListAllRunners, RemoveAnyRunner, AllRemoved, RemoveRunner,
                    Deregister, podVars, k8sVars
<1>6. CASE FetchRunnerPods \/ FetchRunners \/ MaintenanceEnds \/ AllOfflineRemoved
  BY <1>1, <1>6 DEF FetchRunnerPods, FetchRunners, MaintenanceEnds, AllOfflineRemoved, podVars,
                    k8sVars
<1>7. CASE \E p \in Pods : SkipPod(p) \/ GetStatus(p) \/ RemoveOfflineRunner(p)
  BY <1>1, <1>7 DEF SkipPod, GetStatus, RemoveOfflineRunner, RemoveRunner, Deregister, podVars,
                    k8sVars
<1>8. CASE PostResult \/ CreatePDB \/ RelabelPod \/ UnlinkPod
  BY <1>1, <1>8 DEF PostResult, CreatePDB, RelabelPod, UnlinkPod, podVars, k8sVars
<1>9. CASE DeletePod
  <2>1. cur \in Pods
    BY <1>9, CallPod DEF DeletePod, CallPCs, TypeOK
  <2>2. QED
    BY <1>1, <1>9, <2>1 DEF DeletePod, podVars, k8sVars, PodsMove
<1>10. CASE PutDeletionTime
  <2>1. cur \in Pods /\ got.finishedAt + pass.extendDuration \in Nat
    BY <1>10, CallPod DEF PutDeletionTime, CallPCs, TypeOK, ProcessTypeOK, PassType, Statuses
  <2>2. UNCHANGED phase
    BY <1>10 DEF PutDeletionTime, k8sVars
  <2>3. QED
    BY <1>1, <1>10, <2>1, <2>2 DEF PutDeletionTime, podVars, PodsMove
<1>11. QED
  BY <1>2, <1>3, <1>4, <1>5, <1>6, <1>7, <1>8, <1>9, <1>10 DEF Next, Pass

\* The finish time of a pod is that of a pod that is over, and lies in the past.
LEMMA PodsStay == TypeOK /\ PodsInv /\ PodsMove => PodsInv'
<1> SUFFICES ASSUME TypeOK, PodsInv, PodsMove PROVE PodsInv'
  OBVIOUS
<1> USE DEF PodsInv, Debugging, NoTime
<1>0. /\ PodsTypeOK /\ clock \in Nat
      /\ Ahead \in Nat /\ MaxClock \in Nat /\ 0 <= clock + Ahead /\ 0 <= MaxClock + Ahead
  BY BlankTypes, SkewAssumption, MaxClockAssumption DEF TypeOK, PodsTypeOK
<1>1. ASSUME NEW p \in Pods, PodStep(p), phase[p] = "running", UNCHANGED phase PROVE PodsInv'
  <2>1. CASE Start(p) \/ Register(p) \/ Connect(p) \/ TakeJob(p) \/ Disconnect(p) \/ EndListen(p)
    BY <1>0, <1>1, <2>1
       DEF Start, Register, Connect, TakeJob, Disconnect, EndListen, PodsTypeOK
  <2>2. CASE TurnStale(p)
    BY <1>0, <1>1, <2>2 DEF TurnStale, PodsTypeOK, Statuses
  <2>3. CASE DraftStatus(p)
    <3>1. /\ clock' = clock + 1 /\ clock' <= MaxClock /\ stage[p] = "finished"
          /\ stage' = [stage EXCEPT ![p] = "drafted"] /\ UNCHANGED <<started, status, phase>>
      BY <1>0, <1>1, <2>3 DEF DraftStatus
    <3>2. PICK t \in PodClock(clock'), e \in BOOLEAN :
              draft' = [draft EXCEPT ![p] = [finishedAt |-> t, extend |-> e]]
      BY <2>3 DEF DraftStatus
    <3>3. t \in Nat /\ t <= clock' + Ahead /\ t <= MaxClock + Ahead
      BY <1>0, <3>1 DEF PodClock, PastTime
    <3>4. QED
      BY <1>0, <1>1, <3>1, <3>2, <3>3 DEF PodsTypeOK, Statuses, Drafts
  <2>4. CASE Publish(p)
    BY <1>0, <1>1, <2>4 DEF Publish, PodsTypeOK, Statuses, Drafts, NoDraft
  <2>5. QED
    BY <1>1, <2>1, <2>2, <2>3, <2>4 DEF PodStep
<1>2. ASSUME NEW p \in Pods, Restart(p), UNCHANGED phase PROVE PodsInv'
  BY <1>0, <1>2 DEF Restart, PodsTypeOK, Blank, NoDraft
<1>3. ASSUME NEW p \in Pods, Terminate(p), UNCHANGED clock PROVE PodsInv'
  BY <1>0, <1>3 DEF Terminate, PodsTypeOK, TypeOK, K8sTypeOK, Blank, NoDraft
<1>4. ASSUME NEW p \in Pods, NEW t \in Nat, SetDeletionTime(p, t), UNCHANGED phase PROVE PodsInv'
  BY <1>0, <1>4 DEF SetDeletionTime, PodsTypeOK, Statuses
<1>5. ASSUME UNCHANGED <<stage, started, status, draft>>, clock' \in Nat, clock' >= clock,
             \A p \in Pods : phase[p] = "gone" <=> phase'[p] = "gone"
      PROVE  PodsInv'
  BY <1>0, <1>5 DEF PodsTypeOK, Statuses, Drafts
<1>6. QED
  BY <1>1, <1>2, <1>3, <1>4, <1>5 DEF PodsMove, PodRuns, k8sVars

\* A settled pod stays settled, and keeps its finish time or forgets it.
LEMMA SettledStays ==
    ASSUME TypeOK, PodsMove, NEW p \in Pods, Settled(p)
    PROVE  Settled(p)' /\ status'[p].finishedAt \in {NoTime, status[p].finishedAt}
<1> USE DEF Settled, TypeOK, PodsTypeOK, K8sTypeOK
<1>1. ASSUME NEW q \in Pods, PodStep(q), phase[q] = "running", UNCHANGED phase
      PROVE  Settled(p)' /\ status'[p].finishedAt \in {NoTime, status[p].finishedAt}
  <2>1. CASE q # p
    BY <1>1, <2>1 DEF PodStep, Start, TurnStale, Register, Connect, TakeJob, Disconnect, EndListen,
                      DraftStatus, Publish
  <2>2. CASE q = p
    <3>1. TurnStale(p)
      BY <1>1, <2>2 DEF PodStep, Start, Register, Connect, TakeJob, Disconnect, EndListen,
                        DraftStatus, Publish
    <3>2. QED
      BY <1>1, <3>1 DEF TurnStale, Statuses
  <2>3. QED
    BY <2>1, <2>2
<1>2. ASSUME NEW q \in Pods, Restart(q), phase[q] = "running", UNCHANGED phase
      PROVE  Settled(p)' /\ status'[p].finishedAt \in {NoTime, status[p].finishedAt}
  BY <1>2 DEF Restart, Blank
<1>3. ASSUME NEW q \in Pods, Terminate(q), UNCHANGED clock
      PROVE  Settled(p)' /\ status'[p].finishedAt \in {NoTime, status[p].finishedAt}
  BY <1>3 DEF Terminate, Blank
<1>4. ASSUME NEW q \in Pods, NEW t \in Nat, SetDeletionTime(q, t), UNCHANGED phase
      PROVE  Settled(p)' /\ status'[p].finishedAt \in {NoTime, status[p].finishedAt}
  BY <1>4 DEF SetDeletionTime, Statuses
<1>5. ASSUME UNCHANGED <<stage, started, status, draft>>,
             \A q \in Pods : phase[q] = "gone" <=> phase'[q] = "gone"
      PROVE  Settled(p)' /\ status'[p].finishedAt \in {NoTime, status[p].finishedAt}
  BY <1>5
<1>6. QED
  BY <1>1, <1>2, <1>3, <1>4, <1>5 DEF PodsMove, PodRuns, k8sVars

\* The pass works with its own reading of the clock, and visits a pod once.
PassInv ==
    /\ mpc \in MaintenancePCs => lastCheckTime = pass.now
    /\ mpc \in CallPCs => cur \notin todo

\* A result is posted for a pod that is settled.  After the first time no later pass takes
\* it for one that came after the reading of the clock, after the second time none takes
\* it for one that came after the reading before.
PostsInv ==
    /\ mpc = "notify" =>
          Settled(cur) /\ status[cur].finishedAt \in {NoTime, got.finishedAt}
    /\ \A p \in Pods : notified[p] >= 1 =>
          /\ Settled(p)
          /\ mpc \in MaintenancePCs /\ p \in todo => status[p].finishedAt <= pass.now
          /\ mpc = "notify" /\ cur = p => got.finishedAt <= pass.now
    /\ \A p \in Pods : notified[p] >= 2 =>
          /\ status[p].finishedAt <= lastCheckTime
          /\ mpc \in MaintenancePCs /\ p \in todo => status[p].finishedAt <= pass.last
          /\ ~(mpc = "notify" /\ cur = p)
    /\ NotifiedAtMostTwice

NotifyInv == PodsInv /\ PassInv /\ PostsInv

\* What later steps may rely on: where the pods are after a step.
LEMMA AfterMove ==
    ASSUME TypeOK, NotifyInv, [Next]_vars
    PROVE  /\ PodsInv'
           /\ \A p \in Pods : Settled(p) =>
                 Settled(p)' /\ status'[p].finishedAt \in {NoTime, status[p].finishedAt}
BY PodsOnlyMove, PodsStay, SettledStays DEF NotifyInv

\* A result is posted only from a visit that has found it fresh, and at most once per visit.
LEMMA NotifyOnlyIfFresh ==
    ASSUME NEW p, NEW st
    PROVE  /\ AfterProtection(p) # "notify" /\ AfterDebugging(p, st) # "notify"
           /\ AfterNotification(p, st) # "notify"
           /\ AfterStatus(p, st) = "notify" => Debugging(st) /\ Fresh(st)
<1>1. AfterProtection(p) # "notify"
  BY DEF AfterProtection
<1>2. AfterDebugging(p, st) # "notify"
  BY <1>1 DEF AfterDebugging
<1>3. AfterNotification(p, st) # "notify"
  BY <1>2 DEF AfterNotification
<1>4. QED
  BY <1>1, <1>2, <1>3 DEF AfterStatus

\* Outside the loop of the maintenance nothing is posted.
LEMMA OutsideIsSilent ==
    ASSUME TypeOK, NotifyInv, [Next]_vars, mpc' \notin MaintenancePCs, UNCHANGED notified,
           UNCHANGED lastCheckTime \/ (ReadClock /\ lastCheckTime' = clock')
    PROVE  PassInv' /\ PostsInv'
<1> USE DEF PassInv, PostsInv, MaintenancePCs, CallPCs, NotifiedAtMostTwice
<1>1. PassInv'
  OBVIOUS
<1>2. ASSUME NEW p \in Pods, notified[p] >= 2 PROVE status[p].finishedAt <= lastCheckTime'
  BY <1>2, ClockGrows DEF NotifyInv, PodsInv, TypeOK, PodsTypeOK, Statuses
<1>4. \A p \in Pods : notified[p] \in Nat /\ status[p].finishedAt \in Nat
  BY DEF TypeOK, HistoryTypeOK, PodsTypeOK, Statuses
<1>5. lastCheckTime' \in Nat
  BY TypeNext DEF TypeOK, ProcessTypeOK
<1>6. PostsInv'
  BY <1>2, <1>4, <1>5, AfterMove DEF NotifyInv, NoTime
<1>3. QED
  BY <1>1, <1>6

\* Inside the loop a step that does not lead to a post leaves the times alone.
LEMMA InsideIsSilent ==
    ASSUME TypeOK, NotifyInv, [Next]_vars, UNCHANGED <<notified, lastCheckTime>>,
           mpc \in MaintenancePCs, mpc' \in MaintenancePCs,
           mpc' = "notify" => mpc = "notify" /\ UNCHANGED <<cur, got>>,
           pass'.now = pass.now, pass'.last = pass.last, todo' \subseteq todo,
           mpc' \in CallPCs => cur' \notin todo'
    PROVE  PassInv' /\ PostsInv'
<1> USE DEF PassInv, PostsInv, MaintenancePCs, CallPCs, NotifiedAtMostTwice
<1>1. PassInv'
  BY DEF NotifyInv
<1>2. mpc = "notify" => cur \in Pods
  BY DEF TypeOK, ProcessTypeOK
<1>3. /\ \A p \in Pods : notified[p] \in Nat /\ status[p].finishedAt \in Nat
      /\ pass.now \in Nat /\ pass.last \in Nat /\ lastCheckTime \in Nat
  BY DEF TypeOK, HistoryTypeOK, PodsTypeOK, Statuses, ProcessTypeOK, PassType
<1>4. \A p \in Pods : Settled(p) =>
         Settled(p)' /\ status'[p].finishedAt \in {0, status[p].finishedAt}
  BY AfterMove DEF NoTime
<1>5. mpc' = "notify" => Settled(cur)' /\ status'[cur'].finishedAt \in {NoTime, got'.finishedAt}
  BY <1>2, <1>4 DEF NotifyInv, NoTime, Settled
<1>6. ASSUME NEW p \in Pods, notified[p] >= 1
      PROVE  /\ Settled(p)'
             /\ p \in todo' => status'[p].finishedAt <= pass'.now
             /\ mpc' = "notify" /\ cur' = p => got'.finishedAt <= pass'.now
  BY <1>3, <1>4, <1>6 DEF NotifyInv
<1>7. ASSUME NEW p \in Pods, notified[p] >= 2
      PROVE  /\ status'[p].finishedAt <= lastCheckTime'
             /\ p \in todo' => status'[p].finishedAt <= pass'.last
             /\ ~(mpc' = "notify" /\ cur' = p)
  BY <1>3, <1>4, <1>6, <1>7 DEF NotifyInv
<1>8. PostsInv'
  BY <1>5, <1>6, <1>7 DEF NotifyInv
<1>9. QED
  BY <1>1, <1>8

\* A step that leaves the pass alone posts nothing.
LEMMA PassIsSilent ==
    ASSUME TypeOK, NotifyInv, [Next]_vars,
           UNCHANGED <<mpc, lastCheckTime, pass, todo, cur, got, notified>>
    PROVE  PassInv' /\ PostsInv'
<1>1. CASE mpc \in MaintenancePCs
  BY <1>1, InsideIsSilent DEF NotifyInv, PassInv
<1>2. CASE mpc \notin MaintenancePCs
  BY <1>2, OutsideIsSilent
<1>3. QED
  BY <1>1, <1>2

\* The head of the maintenance: what was fresh in the pass before lies before its clock
\* reading now, and what lay before that lies before the last check.
LEMMA BeginIsSilent ==
    ASSUME TypeOK, NotifyInv, [Next]_vars, BeginMaintenance
    PROVE  PassInv' /\ PostsInv'
<1> USE DEF PassInv, PostsInv, MaintenancePCs, CallPCs, NotifiedAtMostTwice
<1>1. /\ mpc' = "loop" /\ UNCHANGED <<notified, status>> /\ lastCheckTime' = clock'
      /\ pass'.now = clock' /\ pass'.last = lastCheckTime
  BY DEF BeginMaintenance, ReadNow, podVars
<1>2. clock' \in Nat /\ \A p \in Pods : status[p].finishedAt <= clock'
  BY ClockGrows DEF BeginMaintenance, ReadNow, NotifyInv, PodsInv, TypeOK, PodsTypeOK, Statuses
<1>3. PassInv'
  BY <1>1
<1>4. PostsInv'
  BY <1>1, <1>2, AfterMove DEF NotifyInv, TypeOK, HistoryTypeOK, PodsTypeOK, Statuses,
                               ProcessTypeOK, NoTime
<1>5. QED
  BY <1>3, <1>4

\* A visit decides on a post by a finish time of a settled pod that is later than the last
\* check; such a pod has not been posted twice.
LEMMA VisitsAreCounted ==
    ASSUME TypeOK, NotifyInv, [Next]_vars, NEW p \in Pods, GetStatus(p)
    PROVE  PassInv' /\ PostsInv'
<1>1. /\ mpc = "loop" /\ p \in todo /\ todo' = todo \ {p} /\ phase[p] = phase'[p]
      /\ UNCHANGED <<notified, lastCheckTime, pass, status, started, stage>>
  BY DEF GetStatus, procVars, podVars, k8sVars
<1>2. CASE UNCHANGED <<mpc, cur, got>>
  BY <1>1, <1>2, InsideIsSilent DEF MaintenancePCs, CallPCs
<1>3. CASE Proceed(p, status[p], AfterStatus(p, status[p])) /\ phase[p] = "running"
  <2>1. mpc' \in CallPCs \union {"loop"} /\ (mpc' # "loop" => cur' = p /\ got' = status[p])
    BY <1>3, NextCall DEF Proceed
  <2>2. CASE mpc' # "notify"
    BY <1>1, <2>1, <2>2, InsideIsSilent DEF MaintenancePCs, CallPCs
  <2>3. CASE mpc' = "notify"
    <3>1. Debugging(status[p]) /\ status[p].finishedAt > pass.last
      BY <1>3, <2>3, NotifyOnlyIfFresh DEF Proceed, Fresh
    <3>2. Settled(p)
      BY <3>1 DEF NotifyInv, PodsInv, Settled
    <3>3. PassInv'
      BY <1>1, <2>1, <2>3 DEF NotifyInv, PassInv, MaintenancePCs
    <3>4. notified[p] >= 2 => FALSE
      BY <1>1, <3>1 DEF NotifyInv, PostsInv, MaintenancePCs, TypeOK, PodsTypeOK, Statuses,
                        ProcessTypeOK, PassType
    <3>5. notified[p] >= 1 => got'.finishedAt <= pass.now
      BY <1>1, <2>1, <2>3 DEF NotifyInv, PostsInv, MaintenancePCs
    <3>6. PostsInv'
      BY <1>1, <2>1, <2>3, <3>2, <3>4, <3>5, AfterMove
         DEF NotifyInv, PostsInv, MaintenancePCs, NotifiedAtMostTwice
    <3>7. QED
      BY <3>3, <3>6
  <2>4. QED
    BY <2>2, <2>3
<1>4. QED
  BY <1>2, <1>3 DEF GetStatus

\* A post is counted: the second one is of a finish time before the pass's clock reading.
LEMMA PostsAreCounted ==
    ASSUME TypeOK, NotifyInv, [Next]_vars, PostResult
    PROVE  PassInv' /\ PostsInv'
<1>1. /\ mpc = "notify" /\ mpc' \in (CallPCs \union {"loop"}) \ {"notify"}
      /\ cur \in Pods /\ cur' \in {cur, NoPod}
      /\ UNCHANGED <<lastCheckTime, pass, todo, status, stage, started, phase>>
  BY NextCall, NotifyOnlyIfFresh, CallPod
     DEF PostResult, Proceed, procVars, podVars, k8sVars, TypeOK, CallPCs
<1>2. cur \notin todo /\ lastCheckTime = pass.now
  BY <1>1 DEF NotifyInv, PassInv, CallPCs, MaintenancePCs
<1>3. NoPod \notin todo
  BY PodsAssumption DEF TypeOK, ProcessTypeOK
<1>4. PassInv'
  BY <1>1, <1>2, <1>3 DEF PassInv
<1>5. CASE UNCHANGED notified
  BY <1>1, <1>2, <1>3, <1>5, InsideIsSilent DEF MaintenancePCs, CallPCs
<1>6. CASE notified' = [notified EXCEPT ![cur] = @ + 1]
  <2>1. /\ \A p \in Pods : p # cur => notified'[p] = notified[p]
        /\ notified'[cur] = notified[cur] + 1 /\ notified[cur] \in Nat
    BY <1>1, <1>6 DEF TypeOK, HistoryTypeOK
  <2>2. notified[cur] < 2 /\ Settled(cur)
    BY <1>1, <2>1 DEF NotifyInv, PostsInv
  <2>3. notified[cur] >= 1 => status[cur].finishedAt <= lastCheckTime
    BY <1>1, <1>2 DEF NotifyInv, PostsInv, TypeOK, ProcessTypeOK, PassType, NoTime
  <2>4. PostsInv'
    BY <1>1, <1>2, <2>1, <2>2, <2>3
       DEF NotifyInv, PostsInv, NotifiedAtMostTwice, Settled, MaintenancePCs, CallPCs
  <2>5. QED
    BY <1>4, <2>4
<1>7. QED
  BY <1>5, <1>6 DEF PostResult

\* Every step counts its posts.
LEMMA NotifyNext == TypeOK /\ NotifyInv /\ [Next]_vars => NotifyInv'
<1> SUFFICES ASSUME TypeOK, NotifyInv, [Next]_vars PROVE PassInv' /\ PostsInv'
  BY AfterMove DEF NotifyInv
<1>1. CASE (\E p \in Pods : PodEnvironment(p)) \/ EditPool \/ UNCHANGED vars
  BY <1>1, PassIsSilent
     DEF PodEnvironment, PodRuns, ContainerRestarts, ClientSetsDeletionTime, ReplicaSetCreates,
         ReplicaSetDeletes, KubeletStarts, PodLost, GitHubForgets, GitHubNotices, EditPool, vars,
         mgrVars, procVars, loopVars, ghostVars
<1>2. CASE UpdateProcess \/ StopProcess
  BY <1>2, PassIsSilent DEF UpdateProcess, StopProcess, loopVars, ghostVars
<1>3. CASE StartProcess \/ ProcessCrashes
  BY <1>3, OutsideIsSilent DEF StartProcess, ProcessCrashes, MaintenancePCs
<1>4. CASE Cleanup
  BY <1>4, OutsideIsSilent DEF Cleanup, LeaveRun, ListAllRunners, RemoveAnyRunner, AllRemoved,
                               ProcessEnds, MaintenancePCs, procVars, ghostVars
<1>5. CASE FetchRunnerPods \/ FetchRunners \/ MaintenanceEnds \/ AllOfflineRemoved
  BY <1>5, OutsideIsSilent DEF FetchRunnerPods, FetchRunners, MaintenanceEnds, AllOfflineRemoved,
                               PassEnds, MaintenancePCs, procVars, ghostVars
<1>6. CASE BeginMaintenance
  BY <1>6, BeginIsSilent
<1>7. ASSUME NEW p \in Pods, SkipPod(p) \/ GetStatus(p) \/ RemoveOfflineRunner(p)
      PROVE  PassInv' /\ PostsInv'
  <2>1. CASE SkipPod(p)
    BY <2>1, InsideIsSilent DEF SkipPod, MaintenancePCs, CallPCs, procVars, ghostVars
  <2>2. CASE RemoveOfflineRunner(p)
    BY <2>2, OutsideIsSilent DEF RemoveOfflineRunner, PassEnds, MaintenancePCs, procVars
  <2>3. QED
    BY <1>7, <2>1, <2>2, VisitsAreCounted
<1>8. CASE PostResult
  BY <1>8, PostsAreCounted
<1>9. CASE DeletePod \/ PutDeletionTime \/ CreatePDB \/ RelabelPod \/ UnlinkPod
  <2>1. /\ mpc \in CallPCs /\ mpc' \in (CallPCs \union {"loop"}) \ {"notify"}
        /\ cur' \in {cur, NoPod} /\ UNCHANGED <<notified, lastCheckTime, todo>>
    BY <1>9, NextCall, NotifyOnlyIfFresh
       DEF DeletePod, PutDeletionTime, CreatePDB, RelabelPod, UnlinkPod, NextPod, Proceed, CallPCs,
           procVars
  <2>2. pass'.now = pass.now /\ pass'.last = pass.last
    BY <1>9 DEF DeletePod, PutDeletionTime, CreatePDB, RelabelPod, UnlinkPod, TypeOK, ProcessTypeOK,
                PassType
  <2>3. cur \notin todo /\ NoPod \notin todo
    BY <2>1, PodsAssumption DEF NotifyInv, PassInv, TypeOK, ProcessTypeOK
  <2>4. QED
    BY <2>1, <2>2, <2>3, InsideIsSilent DEF MaintenancePCs, CallPCs
<1>10. QED
  BY <1>1, <1>2, <1>3, <1>4, <1>5, <1>6, <1>7, <1>8, <1>9 DEF Next, Pass

\* The account of the posts holds in every reachable state.
LEMMA NotifyInvariant == Spec => []NotifyInv
<1>1. Init => NotifyInv
  BY PodsAssumption, SkewAssumption, MaxClockAssumption
     DEF Init, ContractInit, NotifyInv, PodsInv, PassInv, PostsInv, NotifiedAtMostTwice, Settled,
         Debugging, Blank, NoDraft, NoTime, PastTime, MaintenancePCs, CallPCs
<1>2. QED
  BY <1>1, NotifyNext, TypeCorrect, PTL DEF Spec

\* The result of a job is posted at most twice, however many passes, processes, container
\* restarts and failed calls there are, and whatever the specs say.
THEOREM NotifiedTwice == Spec => []NotifiedAtMostTwice
<1>1. NotifyInv => NotifiedAtMostTwice
  BY DEF NotifyInv, PostsInv
<1>2. QED
  BY <1>1, NotifyInvariant, PTL

-----------------------------------------------------------------------------
(* Why a result can be missing.                                            *)

\* Only a running pod is past its boot; a published status in debugging state has a finish
\* time, and a drafted one as well.
FinishInv ==
    /\ lastCheckTime <= clock
    /\ \A p \in Pods :
          /\ phase[p] # "running" => stage[p] = "boot"
          /\ Debugging(status[p]) <=> status[p].finishedAt # NoTime
          /\ stage[p] = "drafted" => draft[p].finishedAt # NoTime

\* A finish time changes when it is forgotten, or when the pod reads it from its clock: then
\* the pass, or the next one, will find it fresh, or the clock is behind.
FinishMoves ==
    \A p \in Pods :
        \/ FinishTime(p)' \in {NoTime, FinishTime(p)}
        \/ /\ UNCHANGED mgrVars
           /\ \/ excused'[p]
              \/ FinishTime(p)' > IF VisitDue(p) THEN pass.last ELSE lastCheckTime

\* The result of p is still to be posted, and no cause has taken it away.
Owed(p) == mpc # "down" /\ notified[p] = 0 /\ ~excused[p] /\ FinishTime(p) # NoTime

\* A result that is owed is in sight: the pass that looks at its pod will find it fresh.
LostInv ==
    /\ podList.running \subseteq podList.pods
    /\ mpc \in MaintenancePCs => pass.last <= pass.now
    /\ \A p \in Pods : Owed(p) =>
          /\ FinishTime(p) <= lastCheckTime =>
                \/ mpc \in MaintenancePCs /\ p \in todo
                \/ mpc = "notify" /\ cur = p
          /\ mpc \in MaintenancePCs /\ p \in todo => FinishTime(p) > pass.last
          /\ mpc \in MaintenancePCs /\ p \notin podList.running => FinishTime(p) > pass.now

OwedInv == PodsInv /\ PassInv /\ FinishInv /\ LostInv

\* What the steps do to the finish times.
LEMMA FinishTimesMove ==
    ASSUME TypeOK, PodsInv, FinishInv, [Next]_vars PROVE FinishMoves
<1> USE DEF FinishTime, NoTime
<1> DEFINE Stays(p) == FinishTime(p)' \in {NoTime, FinishTime(p)}
<1>0. PodsTypeOK
  BY DEF TypeOK
<1>1. ASSUME NEW q \in Pods, PodRuns(q) PROVE FinishMoves
  <2>1. CASE DraftStatus(q)
    <3>1. \A p \in Pods : p # q => Stays(p)
      BY <1>0, <2>1 DEF DraftStatus, PodsTypeOK
    <3>2. UNCHANGED mgrVars /\ excused' = [excused EXCEPT ![q] = @ \/ DraftsLate(q)]
      BY <1>1 DEF PodRuns
    <3>3. excused'[q] \/ ~DraftsLate(q)
      BY <3>2 DEF TypeOK, HistoryTypeOK
    <3>4. /\ stage[q] = "finished" /\ stage'[q] = "drafted"
          /\ draft'[q].finishedAt \in Nat
      BY <1>0, <2>1, TypeNext DEF DraftStatus, PodsTypeOK, TypeOK, Drafts
    <3>5. pass.last \in Nat /\ lastCheckTime \in Nat
      BY DEF TypeOK, ProcessTypeOK, PassType
    <3>6. excused'[q] \/ FinishTime(q)' > IF VisitDue(q) THEN pass.last ELSE lastCheckTime
      BY <3>3, <3>4, <3>5 DEF DraftsLate
    <3>7. QED
      BY <3>1, <3>2, <3>6 DEF FinishMoves
  <2>2. CASE ~DraftStatus(q)
    <3>1. CASE \/ Start(q) \/ Register(q) \/ Connect(q) \/ TakeJob(q)
               \/ Disconnect(q) \/ EndListen(q)
      BY <1>0, <3>1 DEF FinishMoves, Start, Register, Connect, TakeJob, Disconnect, EndListen,
                        PodsTypeOK
    <3>2. CASE TurnStale(q)
      BY <1>0, <3>2 DEF FinishMoves, TurnStale, PodsTypeOK, Statuses
    <3>3. CASE Publish(q)
      BY <1>0, <3>3 DEF FinishMoves, Publish, PodsTypeOK, Statuses
    <3>4. QED
      BY <1>1, <2>2, <3>1, <3>2, <3>3 DEF PodRuns, PodStep
  <2>3. QED
    BY <2>1, <2>2
<1>2. ASSUME NEW q \in Pods, Restart(q) \/ Terminate(q) PROVE FinishMoves
  BY <1>0, <1>2 DEF FinishMoves, Restart, Terminate, Blank, PodsTypeOK
<1>3. ASSUME NEW q \in Pods, NEW t \in Nat, SetDeletionTime(q, t) PROVE FinishMoves
  BY <1>0, <1>3 DEF FinishMoves, SetDeletionTime, PodsTypeOK, Statuses
<1>4. ASSUME UNCHANGED <<stage, started, status, draft>> PROVE FinishMoves
  BY <1>4 DEF FinishMoves
<1>5. PodsMove
  BY PodsOnlyMove
<1>6. QED
  BY <1>1, <1>2, <1>3, <1>4, <1>5 DEF PodsMove

\* What a step can do to the clock of the manager and to its last reading.
LEMMA CheckTimeFollows ==
    ASSUME TypeOK, [Next]_vars
    PROVE  \/ lastCheckTime' = lastCheckTime
           \/ /\ lastCheckTime' = clock'
              /\ clock' = IF clock < MaxTime THEN clock + 1 ELSE clock
              /\ UNCHANGED <<podVars, k8sVars>>
<1>1. CASE (\E p \in Pods : PodEnvironment(p)) \/ EditPool \/ UNCHANGED vars
  BY <1>1 DEF PodEnvironment, PodRuns, ContainerRestarts, ClientSetsDeletionTime,
              ReplicaSetCreates, ReplicaSetDeletes, KubeletStarts, PodLost, GitHubForgets,
              GitHubNotices, EditPool, vars, mgrVars, procVars
<1>2. CASE StartProcess \/ BeginMaintenance
  BY <1>2 DEF StartProcess, BeginMaintenance, ReadNow, ReadClock
<1>3. CASE UpdateProcess \/ StopProcess \/ ProcessCrashes
  BY <1>3 DEF UpdateProcess, StopProcess, ProcessCrashes
<1>4. CASE Cleanup
  BY <1>4 DEF Cleanup, LeaveRun, ListAllRunners, RemoveAnyRunner, AllRemoved, ProcessEnds, procVars
<1>5. CASE FetchRunnerPods \/ FetchRunners \/ MaintenanceEnds \/ AllOfflineRemoved
  BY <1>5 DEF FetchRunnerPods, FetchRunners, MaintenanceEnds, AllOfflineRemoved, procVars
<1>6. CASE \E p \in Pods : SkipPod(p) \/ GetStatus(p) \/ RemoveOfflineRunner(p)
  BY <1>6 DEF SkipPod, GetStatus, RemoveOfflineRunner, procVars
<1>7. CASE PostResult \/ DeletePod \/ PutDeletionTime \/ CreatePDB \/ RelabelPod \/ UnlinkPod
  BY <1>7 DEF PostResult, DeletePod, PutDeletionTime, CreatePDB, RelabelPod, UnlinkPod, procVars
<1>8. QED
  BY <1>1, <1>2, <1>3, <1>4, <1>5, <1>6, <1>7 DEF Next, Pass

\* Only a pod that is running is past its boot.
LEMMA RunningPods ==
    ASSUME TypeOK, \A p \in Pods : phase[p] # "running" => stage[p] = "boot", [Next]_vars
    PROVE  \A p \in Pods : phase'[p] # "running" => stage'[p] = "boot"
<1> USE DEF TypeOK, PodsTypeOK, K8sTypeOK
<1>1. ASSUME UNCHANGED <<phase, stage>>
      PROVE  \A p \in Pods : phase'[p] # "running" => stage'[p] = "boot"
  BY <1>1
<1>2. ASSUME NEW q \in Pods, PodEnvironment(q)
      PROVE  \A p \in Pods : phase'[p] # "running" => stage'[p] = "boot"
  <2>1. CASE PodRuns(q) \/ ContainerRestarts(q)
    <3>1. phase[q] = "running" /\ UNCHANGED phase
      BY <2>1 DEF PodRuns, ContainerRestarts, k8sVars
    <3>2. \A p \in Pods : p # q => stage'[p] = stage[p]
      BY <2>1 DEF PodRuns, ContainerRestarts, PodStep, Start, TurnStale, Register, Connect, TakeJob,
                  Disconnect, EndListen, DraftStatus, Publish, Restart
    <3>3. QED
      BY <3>1, <3>2
  <2>2. CASE ReplicaSetDeletes(q) \/ PodLost(q)
    BY <2>2 DEF ReplicaSetDeletes, PodLost, Terminate
  <2>3. CASE ReplicaSetCreates(q) \/ KubeletStarts(q)
    BY <2>3 DEF ReplicaSetCreates, KubeletStarts, podVars
  <2>4. CASE ClientSetsDeletionTime(q) \/ GitHubForgets(q) \/ GitHubNotices(q)
    BY <2>4 DEF ClientSetsDeletionTime, SetDeletionTime, GitHubForgets, GitHubNotices, Deregister,
                k8sVars
  <2>5. QED
    BY <1>2, <2>1, <2>2, <2>3, <2>4 DEF PodEnvironment
<1>3. CASE \/ EditPool \/ StartProcess \/ UpdateProcess
           \/ StopProcess \/ ProcessCrashes \/ UNCHANGED vars
  BY <1>1, <1>3 DEF EditPool, StartProcess, UpdateProcess, StopProcess, ProcessCrashes, vars,
                    podVars, k8sVars
<1>4. CASE Cleanup
  BY <1>1, <1>4 DEF Cleanup, LeaveRun, ListAllRunners, RemoveAnyRunner, AllRemoved, RemoveRunner,
                    Deregister, podVars, k8sVars
<1>5. CASE \/ FetchRunnerPods \/ FetchRunners \/ BeginMaintenance
           \/ MaintenanceEnds \/ AllOfflineRemoved
  BY <1>1, <1>5 DEF FetchRunnerPods, FetchRunners, BeginMaintenance, ReadNow, MaintenanceEnds,
                    AllOfflineRemoved, podVars, k8sVars
<1>6. CASE \E p \in Pods : SkipPod(p) \/ GetStatus(p) \/ RemoveOfflineRunner(p)
  BY <1>1, <1>6 DEF SkipPod, GetStatus, RemoveOfflineRunner, RemoveRunner, Deregister, podVars,
                    k8sVars
<1>7. CASE PostResult \/ PutDeletionTime \/ CreatePDB \/ RelabelPod \/ UnlinkPod
  BY <1>1, <1>7 DEF PostResult, PutDeletionTime, SetDeletionTime, CreatePDB, RelabelPod, UnlinkPod,
                    podVars, k8sVars
<1>8. CASE DeletePod
  BY <1>1, <1>8 DEF DeletePod, Terminate, podVars, k8sVars
<1>9. QED
  BY <1>2, <1>3, <1>4, <1>5, <1>6, <1>7, <1>8 DEF Next, Pass

\* A status has a finish time exactly when its state is debugging.
LEMMA FinishedPods ==
    ASSUME TypeOK, PodsInv, FinishInv, PodsMove
    PROVE  \A p \in Pods : /\ Debugging(status[p])' <=> status'[p].finishedAt # NoTime
                           /\ stage'[p] = "drafted" => draft'[p].finishedAt # NoTime
<1> DEFINE Goal == \A p \in Pods : /\ Debugging(status[p])' <=> status'[p].finishedAt # NoTime
                                   /\ stage'[p] = "drafted" => draft'[p].finishedAt # NoTime
<1> USE DEF FinishInv, PodsInv, Debugging, TypeOK, PodsTypeOK, NoTime
<1>1. ASSUME NEW p \in Pods, PodStep(p) PROVE Goal
  <2>1. CASE Start(p) \/ Register(p) \/ Connect(p) \/ TakeJob(p) \/ Disconnect(p) \/ EndListen(p)
    BY <2>1 DEF Start, Register, Connect, TakeJob, Disconnect, EndListen
  <2>2. CASE TurnStale(p)
    BY <2>2 DEF TurnStale, Statuses
  <2>3. CASE DraftStatus(p)
    BY <2>3 DEF DraftStatus, Drafts, PodClock, PastTime
  <2>4. CASE Publish(p)
    BY <2>4 DEF Publish, Statuses
  <2>5. QED
    BY <1>1, <2>1, <2>2, <2>3, <2>4 DEF PodStep
<1>2. ASSUME NEW p \in Pods, Restart(p) \/ Terminate(p) PROVE Goal
  BY <1>2 DEF Restart, Terminate, Blank
<1>3. ASSUME NEW p \in Pods, NEW t \in Nat, SetDeletionTime(p, t) PROVE Goal
  BY <1>3 DEF SetDeletionTime, Statuses
<1>4. ASSUME UNCHANGED <<stage, started, status, draft>> PROVE Goal
  BY <1>4
<1>5. QED
  BY <1>1, <1>2, <1>3, <1>4 DEF PodsMove, PodRuns

\* Every step keeps these facts about the finish times.
LEMMA FinishNext == TypeOK /\ PodsInv /\ FinishInv /\ [Next]_vars => FinishInv'
<1> SUFFICES ASSUME TypeOK, PodsInv, FinishInv, [Next]_vars PROVE FinishInv'
  OBVIOUS
<1>1. clock \in Nat /\ lastCheckTime \in Nat /\ clock' \in Nat /\ clock' >= clock
  BY PodsOnlyMove, ClocksGrow DEF TypeOK, PodsTypeOK, ProcessTypeOK
<1>2. lastCheckTime' <= clock'
  BY <1>1, CheckTimeFollows DEF FinishInv
<1>3. QED
  BY <1>2, PodsOnlyMove, RunningPods, FinishedPods DEF FinishInv

\* The times in play are numbers.
LEMMA TimesInPlay ==
    ASSUME TypeOK, OwedInv, [Next]_vars
    PROVE  /\ clock \in Nat /\ lastCheckTime \in Nat /\ lastCheckTime <= clock
           /\ pass.now \in Nat /\ pass.last \in Nat
           /\ \A p \in Pods : FinishTime(p) \in Nat /\ FinishTime(p)' \in Nat
           /\ FinishMoves
<1> USE DEF TypeOK, PodsTypeOK, ProcessTypeOK, PassType, Statuses, Drafts
<1>1. clock \in Nat /\ lastCheckTime \in Nat /\ lastCheckTime <= clock
  BY DEF OwedInv, FinishInv
<1>2. pass.now \in Nat /\ pass.last \in Nat
  OBVIOUS
<1>3. \A p \in Pods : FinishTime(p) \in Nat
  BY DEF FinishTime
<1>4. \A p \in Pods : FinishTime(p)' \in Nat
  <2>1. TypeOK'
    BY TypeNext
  <2>2. QED
    BY <2>1 DEF FinishTime
<1>5. FinishMoves
  BY FinishTimesMove DEF OwedInv
<1>6. QED
  BY <1>1, <1>2, <1>3, <1>4, <1>5

\* Outside the loop nothing that is owed is lost.
LEMMA OutsideLosesNothing ==
    ASSUME TypeOK, OwedInv, [Next]_vars, mpc' \notin MaintenancePCs,
           podList'.running \subseteq podList'.pods,
           \/ mpc' = "down"
           \/ /\ mpc # "down" /\ UNCHANGED <<lastCheckTime, notified>>
              /\ \A p \in Pods : excused[p] => excused'[p]
              /\ mpc \in MaintenancePCs => mpc = "loop" /\ todo = {}
    PROVE  LostInv'
<1>1. CASE mpc' = "down"
  BY <1>1 DEF LostInv, Owed
<1>2. CASE mpc' # "down"
  <2>1. ASSUME NEW p \in Pods, Owed(p)' PROVE FinishTime(p)' > lastCheckTime
    <3>1. CASE FinishTime(p)' = FinishTime(p)
      <4>1. Owed(p)
        BY <1>2, <2>1, <3>1 DEF Owed
      <4>2. ~(FinishTime(p) <= lastCheckTime)
        BY <1>2, <4>1 DEF OwedInv, LostInv, MaintenancePCs
      <4>3. QED
        BY <3>1, <4>2, TimesInPlay
    <3>2. CASE FinishTime(p)' # FinishTime(p)
      <4>1. UNCHANGED mpc /\ FinishTime(p)' > IF VisitDue(p) THEN pass.last ELSE lastCheckTime
        BY <2>1, <3>2, TimesInPlay DEF Owed, FinishMoves, mgrVars
      <4>2. QED
        BY <4>1 DEF VisitDue
    <3>3. QED
      BY <3>1, <3>2
  <2>2. \A p \in Pods : FinishTime(p)' > lastCheckTime => ~(FinishTime(p)' <= lastCheckTime)
    BY TimesInPlay
  <2>3. QED
    BY <1>2, <2>1, <2>2 DEF LostInv
<1>3. QED
  BY <1>1, <1>2

\* Inside the loop a step that leaves p to a later visit, or has nothing owed to p, loses
\* nothing of p.
LEMMA InsideLosesNothing ==
    ASSUME TypeOK, OwedInv, [Next]_vars, UNCHANGED <<lastCheckTime>>,
           mpc \in MaintenancePCs, mpc' \in MaintenancePCs,
           pass'.now = pass.now, pass'.last = pass.last,
           podList'.running = podList.running, podList'.pods = podList.pods,
           todo' \subseteq todo,
           \A p \in Pods : notified'[p] = 0 => notified[p] = 0,
           \A p \in Pods : excused[p] => excused'[p],
           \A p \in Pods :
              \/ p \in todo' <=> p \in todo
              \/ p \in podList.running /\ Owed(p)' /\ FinishTime(p) # NoTime =>
                    \/ FinishTime(p) > pass.now
                    \/ mpc' = "notify" /\ cur' = p,
           \A p \in Pods : mpc = "notify" /\ cur = p =>
              ~Owed(p)' \/ FinishTime(p) > pass.now \/ (mpc' = "notify" /\ cur' = p)
    PROVE  LostInv'
<1>1. lastCheckTime = pass.now /\ pass.last <= pass.now
  BY DEF OwedInv, PassInv, LostInv
<1>2. ASSUME NEW p \in Pods, Owed(p)'
      PROVE  /\ FinishTime(p)' <= lastCheckTime => p \in todo' \/ (mpc' = "notify" /\ cur' = p)
             /\ p \in todo' => FinishTime(p)' > pass.last
             /\ p \notin podList.running => FinishTime(p)' > pass.now
  <2>1. CASE FinishTime(p)' # FinishTime(p)
    <3>1. /\ UNCHANGED <<mpc, todo>>
          /\ FinishTime(p)' > IF VisitDue(p) THEN pass.last ELSE lastCheckTime
      BY <1>2, <2>1, TimesInPlay DEF Owed, FinishMoves, mgrVars, loopVars
    <3>2. CASE VisitDue(p)
      BY <3>1, <3>2, TimesInPlay DEF VisitDue
    <3>3. CASE ~VisitDue(p)
      <4>1. FinishTime(p)' > lastCheckTime /\ (p \in todo' => p \notin podList.running)
        BY <3>1, <3>3 DEF VisitDue
      <4>2. QED
        BY <1>1, <4>1, TimesInPlay
    <3>4. QED
      BY <3>2, <3>3
  <2>2. CASE FinishTime(p)' = FinishTime(p)
    <3>1. Owed(p)
      BY <1>2, <2>2 DEF Owed, MaintenancePCs
    <3>2. /\ FinishTime(p) <= lastCheckTime => p \in todo \/ (mpc = "notify" /\ cur = p)
          /\ p \in todo => FinishTime(p) > pass.last
          /\ p \notin podList.running => FinishTime(p) > pass.now
      BY <3>1 DEF OwedInv, LostInv
    <3>3. FinishTime(p) # NoTime
      BY <3>1 DEF Owed
    <3>4. QED
      BY <1>1, <1>2, <2>2, <3>2, <3>3, TimesInPlay
  <2>3. QED
    BY <2>1, <2>2
<1>3. QED
  BY <1>1, <1>2 DEF OwedInv, LostInv

\* A step that leaves the pass alone loses nothing.
LEMMA StepLosesNothing ==
    ASSUME TypeOK, OwedInv, [Next]_vars,
           UNCHANGED <<mpc, lastCheckTime, podList, pass, todo, cur, notified>>,
           \A p \in Pods : excused[p] => excused'[p]
    PROVE  LostInv'
<1>1. CASE mpc \in MaintenancePCs
  BY <1>1, InsideLosesNothing
<1>2. CASE mpc \notin MaintenancePCs
  BY <1>2, OutsideLosesNothing DEF OwedInv, LostInv
<1>3. QED
  BY <1>1, <1>2

\* A process that starts owes nothing to the pods that have finished.
LEMMA StartLosesNothing == ASSUME TypeOK, OwedInv, [Next]_vars, StartProcess PROVE LostInv'
<1>1. /\ mpc' = "idle" /\ UNCHANGED podList
      /\ excused' = [p \in Pods |-> excused[p] \/ FinishTime(p) # NoTime]
      /\ UNCHANGED <<stage, draft, status>>
  BY DEF StartProcess, podLists, podVars
<1>2. \A p \in Pods : ~Owed(p)'
  BY <1>1 DEF Owed, FinishTime
<1>3. QED
  BY <1>1, <1>2 DEF OwedInv, LostInv, MaintenancePCs

\* What is owed when the maintenance begins has finished since the last check.
LEMMA BeginLosesNothing ==
    ASSUME TypeOK, OwedInv, [Next]_vars, BeginMaintenance PROVE LostInv'
<1>1. /\ mpc = "begin" /\ mpc' = "loop" /\ lastCheckTime' = clock' /\ todo' = podList.pods
      /\ UNCHANGED <<podList, notified, stage, draft, status>>
      /\ excused' = [p \in Pods |-> excused[p] \/ (p \notin podList.running
                                                   /\ FinishTime(p) # NoTime)]
      /\ pass'.now = clock' /\ pass'.last = lastCheckTime
  BY DEF BeginMaintenance, ReadNow, podLists, podVars
<1>2. clock' \in Nat /\ clock' >= clock
  BY ClockGrows DEF BeginMaintenance, ReadNow, TypeOK
<1>3. ASSUME NEW p \in Pods, Owed(p)'
      PROVE  p \in todo' /\ p \in podList.running /\ FinishTime(p)' > pass'.last
  <2>1. FinishTime(p)' = FinishTime(p)
    BY <1>1 DEF FinishTime
  <2>2. Owed(p) /\ p \in podList.running
    BY <1>1, <1>3, <2>1 DEF Owed
  <2>3. ~(FinishTime(p) <= lastCheckTime)
    BY <1>1, <2>2 DEF OwedInv, LostInv, MaintenancePCs
  <2>4. QED
    BY <1>1, <2>1, <2>2, <2>3, TimesInPlay DEF OwedInv, LostInv
<1>4. pass'.last <= pass'.now
  BY <1>1, <1>2, TimesInPlay
<1>5. QED
  BY <1>1, <1>3, <1>4 DEF OwedInv, LostInv, MaintenancePCs

\* A visit posts what is owed, or finds a cause that takes it away, or leaves it to the next
\* pass, for which it will be fresh.
LEMMA VisitLosesNothing ==
    ASSUME TypeOK, OwedInv, [Next]_vars, NEW p \in Pods, GetStatus(p) PROVE LostInv'
<1>1. /\ mpc = "loop" /\ p \in todo /\ p \in podList.running /\ todo' = todo \ {p}
      /\ UNCHANGED <<lastCheckTime, podList, pass, notified, status, draft, stage>>
  BY DEF GetStatus, procVars, podLists, podVars
<1>2. mpc' \in MaintenancePCs
  BY <1>1, NextCall DEF GetStatus, Proceed, MaintenancePCs, CallPCs
<1>3. \A q \in Pods : (q # p => excused'[q] = excused[q]) /\ (excused[q] => excused'[q])
  BY DEF GetStatus, TypeOK, HistoryTypeOK
<1>4. ASSUME Owed(p)' PROVE FinishTime(p) > pass.now \/ (mpc' = "notify" /\ cur' = p)
  <2>1. FinishTime(p)' = FinishTime(p)
    BY <1>1 DEF FinishTime
  <2>2. Owed(p) /\ ~excused'[p] /\ FinishTime(p) # NoTime
    BY <1>1, <1>3, <1>4, <2>1 DEF Owed
  <2>3. FinishTime(p) > pass.last
    BY <1>1, <2>2 DEF OwedInv, LostInv, MaintenancePCs
  <2>4. phase[p] = "running"
    BY <2>2 DEF OwedInv, FinishInv, PodsInv, FinishTime
  <2>5. stage[p] # "boot"
    BY <2>2 DEF OwedInv, PodsInv, FinishTime
  <2>6. CASE DueNow(p)
    <3>1. /\ Proceed(p, status[p], AfterStatus(p, status[p]))
          /\ stage[p] # "drafted" /\ pass.needNotification
      BY <1>1, <2>2, <2>4, <2>5, <2>6
         DEF GetStatus, NoAnswer, TypeOK, HistoryTypeOK, ProcessTypeOK, PassType
    <3>2. Debugging(status[p]) /\ status[p].finishedAt > pass.last
      BY <2>2, <2>3, <3>1 DEF FinishTime, OwedInv, FinishInv
    <3>3. AfterStatus(p, status[p]) = "notify"
      BY <3>1, <3>2 DEF AfterStatus, Debugging, Fresh
    <3>4. QED
      BY <3>1, <3>3 DEF Proceed
  <2>7. CASE ~DueNow(p)
    BY <2>2, <2>7, TimesInPlay DEF DueNow
  <2>8. QED
    BY <2>6, <2>7
<1>5. QED
  BY <1>1, <1>2, <1>3, <1>4, InsideLosesNothing DEF MaintenancePCs

\* A post is counted, or its failure is a cause.
LEMMA PostLosesNothing == ASSUME TypeOK, OwedInv, [Next]_vars, PostResult PROVE LostInv'
<1>1. /\ mpc = "notify" /\ mpc' \in MaintenancePCs /\ cur \in Pods
      /\ UNCHANGED <<lastCheckTime, pass, todo, podList>>
  BY NextCall, CallPod
     DEF PostResult, Proceed, procVars, podLists, TypeOK, CallPCs, MaintenancePCs
<1>2. \/ notified' = [notified EXCEPT ![cur] = @ + 1] /\ UNCHANGED excused
      \/ excused' = [excused EXCEPT ![cur] = @ \/ DueNow(cur)] /\ UNCHANGED notified
  BY DEF PostResult
<1>3. /\ \A p \in Pods : notified'[p] = 0 => notified[p] = 0
      /\ \A p \in Pods : excused[p] => excused'[p]
      /\ notified'[cur] # 0 \/ excused'[cur] \/ ~DueNow(cur)
  <2>1. /\ \A p \in Pods : notified'[p] = 0 => notified[p] = 0
        /\ \A p \in Pods : excused[p] => excused'[p]
    BY <1>1, <1>2 DEF TypeOK, HistoryTypeOK
  <2>2. CASE notified' = [notified EXCEPT ![cur] = @ + 1]
    BY <1>1, <2>1, <2>2 DEF TypeOK, HistoryTypeOK
  <2>3. CASE excused' = [excused EXCEPT ![cur] = @ \/ DueNow(cur)]
    <3>1. excused'[cur] = (excused[cur] \/ DueNow(cur))
      BY <1>1, <2>3 DEF TypeOK, HistoryTypeOK
    <3>2. QED
      BY <2>1, <3>1, Zenon
  <2>4. QED
    BY <1>2, <2>2, <2>3
<1>4. \A p \in Pods : p = cur => ~Owed(p)' \/ FinishTime(p) > pass.now
  <2>1. UNCHANGED podVars
    BY DEF PostResult
  <2>2. ~DueNow(cur) => FinishTime(cur) = NoTime \/ FinishTime(cur) > pass.now
    BY <1>1, TimesInPlay DEF DueNow
  <2>3. \A p \in Pods : FinishTime(p)' = FinishTime(p)
    BY <2>1 DEF podVars, FinishTime
  <2>4. QED
    BY <1>3, <2>2, <2>3 DEF Owed
<1>5. QED
  BY <1>1, <1>3, <1>4, InsideLosesNothing DEF MaintenancePCs

\* No step loses a result that is owed.
LEMMA LostNext == TypeOK /\ OwedInv /\ [Next]_vars => LostInv'
<1> SUFFICES ASSUME TypeOK, OwedInv, [Next]_vars PROVE LostInv'
  OBVIOUS
<1>0. podList.running \subseteq podList.pods
  BY DEF OwedInv, LostInv
<1>1. CASE (\E p \in Pods : PodEnvironment(p)) \/ EditPool \/ UNCHANGED vars
  BY <1>1, StepLosesNothing
     DEF TypeOK, HistoryTypeOK, PodEnvironment, PodRuns, ContainerRestarts,
         ClientSetsDeletionTime, ReplicaSetCreates, ReplicaSetDeletes, KubeletStarts, PodLost,
         GitHubForgets, GitHubNotices, EditPool, vars,
         mgrVars, procVars, podLists, loopVars, ghostVars
<1>2. CASE UpdateProcess \/ StopProcess
  BY <1>2, StepLosesNothing DEF UpdateProcess, StopProcess, podLists, loopVars, ghostVars
<1>3. CASE StartProcess
  BY <1>3, StartLosesNothing
<1>4. CASE ProcessCrashes
  BY <1>4, OutsideLosesNothing DEF ProcessCrashes, ForgetPass, NoList, MaintenancePCs
<1>5. CASE Cleanup
  BY <1>0, <1>5, OutsideLosesNothing
     DEF Cleanup, LeaveRun, ListAllRunners, RemoveAnyRunner, AllRemoved, ProcessEnds, ForgetPass,
         NoList, MaintenancePCs, procVars, podLists, loopVars, ghostVars
<1>6. CASE FetchRunnerPods
  BY <1>6, OutsideLosesNothing DEF FetchRunnerPods, Exists, MaintenancePCs, procVars, ghostVars
<1>7. CASE FetchRunners
  BY <1>0, <1>7, OutsideLosesNothing DEF FetchRunners, ForgetPass, NoList, MaintenancePCs
<1>8. CASE BeginMaintenance
  BY <1>8, BeginLosesNothing
<1>9. CASE MaintenanceEnds \/ AllOfflineRemoved
  BY <1>0, <1>9, OutsideLosesNothing
     DEF MaintenanceEnds, AllOfflineRemoved, PassEnds, ForgetPass, NoList, MaintenancePCs, procVars,
         podLists, ghostVars
<1>10. ASSUME NEW p \in Pods, SkipPod(p) PROVE LostInv'
  <2>1. /\ mpc = "loop" /\ mpc' = "loop" /\ todo' = todo \ {p} /\ p \notin podList.running
        /\ UNCHANGED <<lastCheckTime, pass, podList, notified, excused>>
    BY <1>10 DEF SkipPod, procVars, podLists, ghostVars
  <2>2. QED
    BY <2>1, InsideLosesNothing DEF MaintenancePCs
<1>11. ASSUME NEW p \in Pods, RemoveOfflineRunner(p) PROVE LostInv'
  BY <1>0, <1>11, OutsideLosesNothing
     DEF RemoveOfflineRunner, PassEnds, ForgetPass, NoList, MaintenancePCs, procVars, podLists
<1>12. CASE PostResult
  BY <1>12, PostLosesNothing
<1>13. CASE DeletePod \/ PutDeletionTime \/ CreatePDB \/ RelabelPod \/ UnlinkPod
  <2>1. /\ mpc \in CallPCs \ {"notify"} /\ mpc' \in MaintenancePCs
        /\ UNCHANGED <<notified, excused, lastCheckTime, todo>>
    BY <1>13, NextCall
       DEF DeletePod, PutDeletionTime, CreatePDB, RelabelPod, UnlinkPod, NextPod, Proceed, CallPCs,
           MaintenancePCs, procVars
  <2>2. /\ pass'.now = pass.now /\ pass'.last = pass.last
        /\ podList'.running = podList.running /\ podList'.pods = podList.pods
    BY <1>13 DEF DeletePod, PutDeletionTime, CreatePDB, RelabelPod, UnlinkPod, podLists, TypeOK,
                 ProcessTypeOK, PassType
  <2>3. QED
    BY <2>1, <2>2, InsideLosesNothing DEF MaintenancePCs, CallPCs
<1>14. QED
  BY <1>1, <1>2, <1>3, <1>4, <1>5, <1>6, <1>7, <1>8, <1>9, <1>10, <1>11, <1>12, <1>13,
     VisitLosesNothing DEF Next, Pass

\* A result is lost only for one of the causes that are counted as excuses: a failed call to
\* the pod or to the slack agent, a process started since, a pod not listed as running, a
\* status drafted before the pass and published after its visit, a pass made while the edited
\* spec had notification off, or a finish time by a pod's clock that is behind a check already
\* made.
THEOREM LostOnlyExcused == Spec => []LostOnlyIfExcused
<1>1. Init => FinishInv /\ LostInv
  BY DEF Init, ContractInit, FinishInv, LostInv, Owed, FinishTime, Debugging, Blank, NoDraft,
         NoTime, PastTime, NoList, MaintenancePCs
<1>2. TypeOK /\ NotifyInv /\ FinishInv /\ LostInv /\ [Next]_vars => FinishInv' /\ LostInv'
  BY FinishNext, LostNext DEF NotifyInv, OwedInv
<1>3. NotifyInv /\ FinishInv /\ LostInv => LostOnlyIfExcused
  BY DEF NotifyInv, PodsInv, FinishInv, LostInv, LostOnlyIfExcused, Owed, FinishTime
<1>4. QED
  BY <1>1, <1>2, <1>3, NotifyInvariant, TypeCorrect, PTL DEF Spec

-----------------------------------------------------------------------------
(* Which jobs are killed.                                                  *)

\* A job runs in a pod that listens, a pod that has answered anything but active never
\* listens again, and a pod that has answered active is deleted only for its age, and
\* because the list shows no job.
SurvivalInv ==
    /\ \A p \in Pods : /\ job[p] = "running" => stage[p] = "listening"
                       /\ status[p].state = "stale" => stage[p] = "over"
    /\ mpc \in CallPCs /\ got.state # "active" => Settled(cur)
    /\ mpc = "notify" => got.state = "debugging"
    /\ mpc = "delete" /\ got.state = "active" => ~BusyRunner(cur) /\ TooOld(cur)

\* Every step leaves jobs to pods that listen.
LEMMA JobsStay ==
    ASSUME TypeOK, PodsInv, SurvivalInv, [Next]_vars
    PROVE  \A p \in Pods : /\ job'[p] = "running" => stage'[p] = "listening"
                           /\ status'[p].state = "stale" => stage'[p] = "over"
<1> DEFINE Goal == \A p \in Pods : /\ job'[p] = "running" => stage'[p] = "listening"
                                   /\ status'[p].state = "stale" => stage'[p] = "over"
<1> USE DEF SurvivalInv, PodsInv, TypeOK, PodsTypeOK
<1>1. ASSUME UNCHANGED <<job, stage, status>> PROVE Goal
  BY <1>1
<1>2. ASSUME NEW p \in Pods, PodStep(p) PROVE Goal
  <2>1. CASE Start(p) \/ Register(p) \/ Connect(p) \/ TakeJob(p) \/ Disconnect(p) \/ EndListen(p)
    BY <2>1 DEF Start, Register, Connect, TakeJob, Disconnect, EndListen
  <2>2. CASE TurnStale(p)
    BY <2>2 DEF TurnStale, Statuses
  <2>3. CASE DraftStatus(p)
    BY <2>3 DEF DraftStatus
  <2>4. CASE Publish(p)
    BY <2>4 DEF Publish, Statuses
  <2>5. QED
    BY <1>2, <2>1, <2>2, <2>3, <2>4 DEF PodStep
<1>3. ASSUME NEW p \in Pods, Restart(p) \/ Terminate(p) PROVE Goal
  BY <1>3 DEF Restart, Terminate, Blank
<1>4. ASSUME NEW p \in Pods, NEW t, SetDeletionTime(p, t) PROVE Goal
  BY <1>4 DEF SetDeletionTime, Statuses
<1>5. ASSUME NEW p \in Pods, Deregister(p) PROVE Goal
  BY <1>1, <1>5 DEF Deregister
<1>6. ASSUME NEW p \in Pods, PodEnvironment(p) PROVE Goal
  BY <1>1, <1>2, <1>3, <1>4, <1>5, <1>6
     DEF PodEnvironment, PodRuns, ContainerRestarts, ClientSetsDeletionTime, ReplicaSetCreates,
         ReplicaSetDeletes, KubeletStarts, PodLost, GitHubForgets, GitHubNotices, podVars
<1>7. CASE \/ EditPool \/ StartProcess \/ UpdateProcess
           \/ StopProcess \/ ProcessCrashes \/ UNCHANGED vars
  BY <1>1, <1>7 DEF EditPool, StartProcess, UpdateProcess, StopProcess, ProcessCrashes, vars,
                    podVars
<1>8. CASE Cleanup
  BY <1>1, <1>5, <1>8 DEF Cleanup, LeaveRun, ListAllRunners, RemoveAnyRunner, AllRemoved,
                          RemoveRunner, podVars
<1>9. CASE \/ FetchRunnerPods \/ FetchRunners \/ BeginMaintenance
           \/ MaintenanceEnds \/ AllOfflineRemoved
  BY <1>1, <1>9 DEF FetchRunnerPods, FetchRunners, BeginMaintenance, ReadNow, MaintenanceEnds,
                    AllOfflineRemoved, podVars
<1>10. CASE \E p \in Pods : SkipPod(p) \/ GetStatus(p) \/ RemoveOfflineRunner(p)
  BY <1>1, <1>5, <1>10 DEF SkipPod, GetStatus, RemoveOfflineRunner, RemoveRunner, podVars
<1>11. CASE PostResult \/ CreatePDB \/ RelabelPod \/ UnlinkPod
  BY <1>1, <1>11 DEF PostResult, CreatePDB, RelabelPod, UnlinkPod, podVars
<1>12. CASE DeletePod \/ PutDeletionTime
  <2>1. cur \in Pods
    BY <1>12, CallPod DEF DeletePod, PutDeletionTime, CallPCs
  <2>2. QED
    BY <1>1, <1>3, <1>4, <1>12, <2>1 DEF DeletePod, PutDeletionTime, podVars
<1>13. QED
  BY <1>6, <1>7, <1>8, <1>9, <1>10, <1>11, <1>12 DEF Next, Pass

\* A pod that answers active is deleted for its age, and when the list shows no job.
LEMMA DeletedForItsAge ==
    ASSUME NEW p, NEW st
    PROVE  /\ AfterProtection(p) # "delete"
           /\ AfterDebugging(p, st) = "delete" => ~BusyRunner(p) /\ TooOld(p)
           /\ AfterStatus(p, st) = "delete" /\ st.state = "active" => ~BusyRunner(p) /\ TooOld(p)
<1>1. AfterProtection(p) # "delete"
  BY DEF AfterProtection
<1>2. AfterDebugging(p, st) = "delete" => ~BusyRunner(p) /\ TooOld(p)
  BY <1>1 DEF AfterDebugging, Occupied
<1>3. QED
  BY <1>1, <1>2 DEF AfterStatus, Debugging

\* The age of a pod that is visited does not change.
LEMMA SurvivalOfTheCall ==
    ASSUME TypeOK, NotifyInv, GuardInv, SurvivalInv, [Next]_vars,
           mpc \in CallPCs => mpc' = mpc /\ UNCHANGED <<cur, got, runnerList, pass>>
                              /\ born'[cur] = born[cur],
           mpc \notin CallPCs => mpc' \notin CallPCs
    PROVE  SurvivalInv'
<1>1. cur \in Pods <=> mpc \in CallPCs
  BY DEF TypeOK, ProcessTypeOK
<1>2. \A p \in Pods : Settled(p) => Settled(p)'
  BY AfterMove
<1>3. CASE mpc \in CallPCs
  <2>1. BusyRunner(cur)' = BusyRunner(cur) /\ TooOld(cur)' = TooOld(cur)
    BY <1>3 DEF BusyRunner, TooOld
  <2>2. Settled(cur) => Settled(cur)'
    BY <1>1, <1>2, <1>3 DEF Settled
  <2>3. QED
    BY <1>3, <2>1, <2>2, JobsStay DEF SurvivalInv, NotifyInv
<1>4. CASE mpc \notin CallPCs
  BY <1>4, JobsStay DEF SurvivalInv, NotifyInv, CallPCs
<1>5. QED
  BY <1>3, <1>4

\* A step that ends at no call leaves nothing to be shown.
LEMMA SurvivalOutside ==
    ASSUME TypeOK, NotifyInv, SurvivalInv, [Next]_vars, mpc' \notin CallPCs
    PROVE  SurvivalInv'
BY JobsStay DEF SurvivalInv, NotifyInv, CallPCs

\* The environment leaves the visit of a pod alone: it has been born already.
LEMMA SurvivalEnvironment ==
    ASSUME TypeOK, NotifyInv, GuardInv, SurvivalInv, [Next]_vars,
           \/ (\E p \in Pods : PodEnvironment(p)) \/ EditPool \/ UNCHANGED vars
           \/ UpdateProcess \/ StopProcess
    PROVE  SurvivalInv'
<1>1. UNCHANGED <<mpc, cur, got, runnerList, pass>>
  BY DEF PodEnvironment, PodRuns, ContainerRestarts, ClientSetsDeletionTime, ReplicaSetCreates,
         ReplicaSetDeletes, KubeletStarts, PodLost, GitHubForgets, GitHubNotices, EditPool,
         UpdateProcess, StopProcess, vars, mgrVars, podLists, loopVars
<1>2. mpc \in CallPCs => phase[cur] # "absent"
  BY CallPod DEF GuardInv, ListedPods, TypeOK
<1>3. UNCHANGED born \/ \E p \in Pods : phase[p] = "absent" /\ born' = [born EXCEPT ![p] = clock]
  BY DEF PodEnvironment, PodRuns, ContainerRestarts, ClientSetsDeletionTime, ReplicaSetCreates,
         ReplicaSetDeletes, KubeletStarts, PodLost, GitHubForgets, GitHubNotices, EditPool,
         UpdateProcess, StopProcess, Terminate, vars, k8sVars
<1>4. mpc \in CallPCs => born'[cur] = born[cur]
  BY <1>2, <1>3, CallPod DEF TypeOK, K8sTypeOK
<1>5. QED
  BY <1>1, <1>4, SurvivalOfTheCall

\* A visit ends at a deletion only for a pod whose job is over, or by age.
LEMMA SurvivalVisit ==
    ASSUME TypeOK, NotifyInv, SurvivalInv, [Next]_vars, NEW p \in Pods, GetStatus(p)
    PROVE  SurvivalInv'
<1>1. /\ mpc = "loop" /\ UNCHANGED <<runnerList, pass, born, status, stage, started>>
  BY DEF GetStatus, podLists, podVars, k8sVars
<1>2. CASE UNCHANGED <<mpc, cur, got>>
  BY <1>1, <1>2, SurvivalOutside DEF CallPCs
<1>3. CASE Proceed(p, status[p], AfterStatus(p, status[p]))
  <2>1. mpc' # "loop" => cur' = p /\ got' = status[p] /\ mpc' = AfterStatus(p, status[p])
    BY <1>3 DEF Proceed
  <2>2. status[p].state # "active" => Settled(p)
    BY DEF SurvivalInv, NotifyInv, PodsInv, Debugging, Settled, TypeOK, PodsTypeOK, Statuses
  <2>3. Settled(p) => Settled(p)'
    BY AfterMove
  <2>4. BusyRunner(p)' = BusyRunner(p) /\ TooOld(p)' = TooOld(p)
    BY <1>1 DEF BusyRunner, TooOld
  <2>5. mpc' = "delete" /\ got'.state = "active" => ~BusyRunner(p)' /\ TooOld(p)'
    BY <2>1, <2>4, DeletedForItsAge
  <2>6. mpc' = "notify" => got'.state = "debugging"
    BY <2>1, NotifyOnlyIfFresh DEF Debugging
  <2>7. CASE mpc' = "loop"
    BY <2>7, SurvivalOutside DEF CallPCs
  <2>8. CASE mpc' # "loop"
    BY <2>1, <2>2, <2>3, <2>5, <2>6, <2>8, JobsStay
       DEF SurvivalInv, NotifyInv, BusyRunner, TooOld, Settled
  <2>9. QED
    BY <2>7, <2>8
<1>4. QED
  BY <1>2, <1>3 DEF GetStatus

\* A call leads to a deletion only of a pod whose job is over, or by age.
LEMMA SurvivalCall ==
    ASSUME TypeOK, NotifyInv, SurvivalInv, [Next]_vars,
           \/ PostResult \/ DeletePod \/ PutDeletionTime
           \/ CreatePDB \/ RelabelPod \/ UnlinkPod
    PROVE  SurvivalInv'
<1>1. cur \in Pods /\ mpc \in CallPCs
  BY CallPod DEF PostResult, DeletePod, PutDeletionTime, CreatePDB, RelabelPod, UnlinkPod, CallPCs,
                 TypeOK
<1>2. CASE mpc' = "loop"
  BY <1>2, SurvivalOutside DEF CallPCs
<1>3. CASE mpc' # "loop"
  <2>1. /\ cur' = cur /\ got' = got /\ mpc' # "notify" /\ UNCHANGED <<runnerList, pass, born>>
        /\ \/ mpc' = AfterNotification(cur, got) /\ mpc = "notify"
           \/ mpc' = AfterDebugging(cur, got)
           \/ mpc' = AfterProtection(cur)
           \/ mpc' = "relabel"
    BY <1>3, NotifyOnlyIfFresh
       DEF PostResult, DeletePod, PutDeletionTime, CreatePDB, RelabelPod, UnlinkPod, NextPod,
           Proceed, podLists, k8sVars
  <2>2. mpc' = "delete" /\ got.state = "active" => ~BusyRunner(cur) /\ TooOld(cur)
    BY <2>1, DeletedForItsAge DEF SurvivalInv
  <2>3. BusyRunner(cur)' = BusyRunner(cur) /\ TooOld(cur)' = TooOld(cur)
    BY <2>1 DEF BusyRunner, TooOld
  <2>4. \A p \in Pods : p = cur /\ Settled(p) => Settled(p)'
    BY AfterMove
  <2>5. got'.state # "active" => Settled(cur)'
    BY <1>1, <2>1, <2>4 DEF SurvivalInv, Settled
  <2>6. QED
    BY <2>1, <2>2, <2>3, <2>5, JobsStay DEF SurvivalInv, NotifyInv
<1>4. QED
  BY <1>2, <1>3

\* The reasons for deletions hold in every reachable state.
LEMMA SurvivalInvariant == Spec => []SurvivalInv
<1>1. Init => SurvivalInv
  BY DEF Init, ContractInit, SurvivalInv, Blank, CallPCs
<1>2. TypeOK /\ NotifyInv /\ GuardInv /\ SurvivalInv /\ [Next]_vars => SurvivalInv'
  <2> SUFFICES ASSUME TypeOK, NotifyInv, GuardInv, SurvivalInv, [Next]_vars PROVE SurvivalInv'
    OBVIOUS
  <2>1. CASE \/ StartProcess \/ ProcessCrashes \/ Cleanup
             \/ FetchRunnerPods \/ FetchRunners \/ BeginMaintenance
             \/ MaintenanceEnds \/ AllOfflineRemoved
    <3>1. mpc' \notin CallPCs
      BY <2>1 DEF StartProcess, ProcessCrashes, Cleanup, LeaveRun, ListAllRunners, RemoveAnyRunner,
                  AllRemoved, ProcessEnds, FetchRunnerPods, FetchRunners, BeginMaintenance, ReadNow,
                  MaintenanceEnds, AllOfflineRemoved, PassEnds, CallPCs
    <3>2. QED
      BY <3>1, SurvivalOutside
  <2>2. ASSUME NEW p \in Pods, SkipPod(p) \/ RemoveOfflineRunner(p) PROVE SurvivalInv'
    <3>1. mpc' \notin CallPCs
      BY <2>2 DEF SkipPod, RemoveOfflineRunner, PassEnds, CallPCs
    <3>2. QED
      BY <3>1, SurvivalOutside
  <2>3. QED
    BY <2>1, <2>2, SurvivalEnvironment, SurvivalVisit, SurvivalCall DEF Next, Pass
<1>3. QED
  BY <1>1, <1>2, TypeCorrect, NotifyInvariant, GuardInvariant, PTL DEF Spec

\* The process kills no job that was running when the pass listed the runners and that the
\* list shows.
THEOREM ListedJobsSurvive == Spec => ListedJobSurvives
<1>1. TypeOK /\ NotifyInv /\ SurvivalInv /\ [Next]_vars =>
         [\A p \in Pods : ProcessDeletes(p) /\ job[p] = "running" =>
             runnerList[p] # "busy" /\ TooOld(p) /\ got.state = "active"]_vars
  <2> SUFFICES ASSUME NotifyInv, SurvivalInv, NEW p \in Pods, ProcessDeletes(p),
                      job[p] = "running"
               PROVE  runnerList[p] # "busy" /\ TooOld(p) /\ got.state = "active"
    OBVIOUS
  <2>1. mpc = "delete" /\ cur = p /\ phase[p] # "gone" /\ stage[p] = "listening"
    BY DEF ProcessDeletes, Exists, SurvivalInv
  <2>2. got.state = "active"
    BY <2>1 DEF SurvivalInv, CallPCs, Settled
  <2>3. QED
    BY <2>1, <2>2 DEF SurvivalInv, BusyRunner
<1>2. QED
  BY <1>1, TypeCorrect, NotifyInvariant, SurvivalInvariant, PTL DEF Spec, ListedJobSurvives
=============================================================================
