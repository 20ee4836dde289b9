-------------------------- MODULE RunnerPodProofs --------------------------
(***************************************************************************)
(* Proofs about RunnerPod, for every bound on the clock, the restarts and  *)
(* the deletion times.  PodInv is the inductive invariant; the safety      *)
(* properties of RunnerPod and its refinement of PodContract follow.       *)
(***************************************************************************)
EXTENDS RunnerPod, TLAPS

\* What each place of runListener says about the published state.
StateAtPC ==
    /\ pc \in {"down", "boot", "create"} => status.state = ""
    /\ pc \in {"setup", "token", "configure", "registered"} => status.state = "initializing"
    /\ pc \in {"listen", "backoff", "finish", "publish"} => status.state = "running"
    /\ pc = "wait" => status.state \in {"debugging", "stale"}

\* Past the creation of the flag the flag is there, and it is never removed.
FlagAtPC ==
    /\ pc \notin {"down", "boot", "create"} => "started" \in files
    /\ pc = "create" => "started" \notin files

\* Only a pod that has left its flag has registered, and it registers once.
RegisteredOnce ==
    /\ regs <= 1 /\ jobs <= 1
    /\ "started" \notin files => regs = 0
    /\ pc \in {"setup", "token", "configure"} => regs = 0
    /\ regs = 0 => job = "none" /\ jobs = 0 /\ reg = "none"
    /\ job = "none" => jobs = 0

\* A connected listener and a running job belong to a listening process.
ListenerAlive ==
    /\ reg = "online" => pc = "listen"
    /\ job = "running" => pc = "listen"

\* The unpublished status and the published one agree with the flag files.
DraftAtPC ==
    pc = "publish" => /\ draft.result = JobResult(files)
                      /\ draft.extend = ("extend" \in files)
                      /\ draft.finishedAt \in 2..clock

PodInv ==
    /\ TypeOK
    /\ clock \in Nat \ {0}
    /\ StateAtPC /\ FlagAtPC /\ RegisteredOnce /\ ListenerAlive /\ DraftAtPC
    /\ DebuggingStatusIsTrue

-----------------------------------------------------------------------------
\* The result of a job is one of the four results.
LEMMA JobResultType == ASSUME NEW fs PROVE JobResult(fs) \in Results
BY DEF JobResult, Results

\* The empty status and the empty draft have their types, and no state.
LEMMA BlankTypes ==
    NoStatus \in StatusType /\ NoDraft \in DraftType /\ NoStatus.state = ""
BY DEF NoStatus, NoDraft, StatusType, DraftType, States, Results, NoTime

\* The initial state satisfies the invariant.
LEMMA PodInvInit == Init => PodInv
<1> SUFFICES ASSUME Init PROVE PodInv
  OBVIOUS
<1>1. status.state = "" /\ TypeOK
  BY BlankTypes DEF Init, TypeOK, PCs, Flags
<1>2. FlagAtPC /\ RegisteredOnce /\ ListenerAlive
  BY DEF Init, FlagAtPC, RegisteredOnce, ListenerAlive
<1>3. clock \in Nat \ {0} /\ pc = "boot"
  BY DEF Init
<1>4. StateAtPC /\ DraftAtPC
  BY <1>1, <1>3 DEF StateAtPC, DraftAtPC
<1>5. DebuggingStatusIsTrue
  BY <1>1 DEF DebuggingStatusIsTrue
<1>6. QED
  BY <1>1, <1>2, <1>3, <1>4, <1>5 DEF PodInv

\* Types are preserved by every step.
LEMMA TypeNext == TypeOK /\ [Next]_vars => TypeOK'
<1> SUFFICES ASSUME TypeOK, [Next]_vars PROVE TypeOK'
  OBVIOUS
<1> USE DEF TypeOK, PCs, github
<1>1. CASE Boot \/ SetupCommand \/ ReadToken \/ Relaunch
  BY <1>1 DEF Boot, SetupCommand, ReadToken, Relaunch
<1>2. CASE Kill \/ FailStep
  <2>1. ProcessGone
    BY <1>2 DEF Kill, FailStep
  <2>2. status' \in StatusType /\ draft' \in DraftType
    BY <2>1, BlankTypes DEF ProcessGone
  <2>3. QED
    BY <2>1, <2>2 DEF ProcessGone
<1>3. CASE CheckStarted \/ CreateFlag \/ ConfigReturns
  BY <1>3 DEF CheckStarted, CreateFlag, ConfigReturns, updateState, StatusType, States,
              Flags
<1>4. CASE ConfigRegisters \/ Connect \/ AssignJob \/ Deregister
  BY <1>4 DEF ConfigRegisters, Connect, AssignJob, Deregister
<1>5. CASE JobScript
  BY <1>5 DEF JobScript, Flags
<1>6. CASE ListenerExits \/ ListenerRetries
  BY <1>6 DEF ListenerExits, ListenerRetries
<1>7. CASE DraftStatus
  BY <1>7, JobResultType DEF DraftStatus, DraftType
<1>8. CASE PublishStatus
  BY <1>8, BlankTypes DEF PublishStatus, StatusType, DraftType, States
<1>9. CASE deletionTimeHandler
  BY <1>9, TimesAssumption DEF deletionTimeHandler, StatusType
<1>10. CASE UNCHANGED vars
  BY <1>10 DEF vars
<1>11. QED
  BY <1>1, <1>2, <1>3, <1>4, <1>5, <1>6, <1>7, <1>8, <1>9, <1>10 DEF Next

\* The flag, the registrations and the job: everything but the published status.
RunInv == FlagAtPC /\ RegisteredOnce /\ ListenerAlive

\* RunInv is preserved by every step.
LEMMA RunInvNext == TypeOK /\ RunInv /\ [Next]_vars => RunInv'
<1> SUFFICES ASSUME TypeOK, RunInv, [Next]_vars PROVE RunInv'
  OBVIOUS
<1> USE DEF TypeOK, RunInv, FlagAtPC, RegisteredOnce, ListenerAlive, github
<1>1. CASE Boot \/ SetupCommand \/ ReadToken \/ Relaunch
  BY <1>1 DEF Boot, SetupCommand, ReadToken, Relaunch
<1>2. CASE Kill \/ FailStep
  BY <1>2 DEF Kill, FailStep, ProcessGone
<1>3. CASE CheckStarted \/ CreateFlag \/ ConfigReturns
  BY <1>3 DEF CheckStarted, CreateFlag, ConfigReturns
<1>4. CASE ConfigRegisters
  BY <1>4 DEF ConfigRegisters
<1>5. CASE Connect \/ Deregister \/ JobScript
  BY <1>5 DEF Connect, Deregister, JobScript
<1>6. CASE AssignJob
  BY <1>6 DEF AssignJob
<1>7. CASE ListenerExits \/ ListenerRetries
  BY <1>7 DEF ListenerExits, ListenerRetries
<1>8. CASE DraftStatus \/ PublishStatus \/ deletionTimeHandler
  BY <1>8 DEF DraftStatus, PublishStatus, deletionTimeHandler
<1>9. CASE UNCHANGED vars
  BY <1>9 DEF vars
<1>10. QED
  BY <1>1, <1>2, <1>3, <1>4, <1>5, <1>6, <1>7, <1>8, <1>9 DEF Next

\* The published status, and the one about to be.
StatusInv == (clock \in Nat \ {0}) /\ StateAtPC /\ DraftAtPC /\ DebuggingStatusIsTrue

\* StatusInv is preserved by every step.
LEMMA StatusInvNext ==
    TypeOK /\ ListenerAlive /\ StatusInv /\ [Next]_vars => StatusInv'
<1> SUFFICES ASSUME TypeOK, ListenerAlive, StatusInv, [Next]_vars PROVE StatusInv'
  OBVIOUS
<1> USE DEF TypeOK, ListenerAlive, StatusInv, StateAtPC, DraftAtPC,
            DebuggingStatusIsTrue, github
<1>1. CASE Boot \/ SetupCommand \/ ReadToken \/ Relaunch \/ ConfigRegisters
  BY <1>1 DEF Boot, SetupCommand, ReadToken, Relaunch, ConfigRegisters
<1>2. CASE Kill \/ FailStep
  BY <1>2, BlankTypes DEF Kill, FailStep, ProcessGone
<1>3. CASE CheckStarted \/ CreateFlag \/ ConfigReturns
  BY <1>3 DEF CheckStarted, CreateFlag, ConfigReturns, updateState, StatusType
<1>4. CASE Connect \/ AssignJob \/ Deregister \/ JobScript
  BY <1>4 DEF Connect, AssignJob, Deregister, JobScript
<1>5. CASE ListenerExits \/ ListenerRetries
  BY <1>5 DEF ListenerExits, ListenerRetries
<1>6. CASE DraftStatus
  <2>1. clock' \in Nat \ {0} /\ clock' \in 2..clock'
    BY <1>6 DEF DraftStatus
  <2>2. /\ draft'.result = JobResult(files') /\ draft'.finishedAt = clock'
        /\ draft'.extend = ("extend" \in files')
    BY <1>6 DEF DraftStatus
  <2>3. pc' = "publish" /\ status' = status /\ status.state = "running"
    BY <1>6 DEF DraftStatus
  <2>4. QED
    BY <2>1, <2>2, <2>3
<1>7. CASE PublishStatus
  <2>1. /\ pc = "publish" /\ pc' = "wait" /\ clock' = clock /\ files' = files
        /\ status'.state = "debugging" /\ status'.result = draft.result
        /\ status'.extend = draft.extend /\ status'.finishedAt = draft.finishedAt
    BY <1>7 DEF PublishStatus, StatusType, DraftType
  <2>2. QED
    BY <2>1
<1>8. CASE deletionTimeHandler
  BY <1>8 DEF deletionTimeHandler, StatusType
<1>9. CASE UNCHANGED vars
  BY <1>9 DEF vars
<1>10. QED
  BY <1>1, <1>2, <1>3, <1>4, <1>5, <1>6, <1>7, <1>8, <1>9 DEF Next

\* Every step of the entrypoint, its container, its clients and GitHub preserves the
\* invariant.
LEMMA PodInvNext == PodInv /\ [Next]_vars => PodInv'
BY TypeNext, RunInvNext, StatusInvNext DEF PodInv, RunInv, StatusInv

\* PodInv holds in every reachable state.
THEOREM PodInvariant == Spec => []PodInv
BY PodInvInit, PodInvNext, PTL DEF Spec

\* The state of the entrypoint and its ghosts keep their types.
THEOREM TypeCorrect == Spec => []TypeOK
<1>1. PodInv => TypeOK
  BY DEF PodInv
<1>2. QED
  BY <1>1, PodInvariant, PTL

\* A pod registers at most one runner and gets at most one job, however often its
\* container is restarted.
THEOREM OneJob == Spec => []OneJobPerPod
<1>1. PodInv => OneJobPerPod
  BY DEF PodInv, RegisteredOnce, OneJobPerPod
<1>2. QED
  BY <1>1, PodInvariant, PTL

\* A published debugging status is complete and agrees with the flag files.
THEOREM TrueStatus == Spec => []DebuggingStatusIsTrue
<1>1. PodInv => DebuggingStatusIsTrue
  BY DEF PodInv
<1>2. QED
  BY <1>1, PodInvariant, PTL

\* A pod that runs a job answers "running", so that the manager does not delete it for
\* its state.
THEOREM NotDisowned == Spec => []JobIsNotDisowned
<1>1. PodInv => JobIsNotDisowned
  BY DEF PodInv, ListenerAlive, StateAtPC, JobIsNotDisowned
<1>2. QED
  BY <1>1, PodInvariant, PTL

-----------------------------------------------------------------------------
\* Where a started pod is after its container has ended once.
Ended ==
    /\ "started" \in files
    /\ \/ pc \in {"down", "boot"} /\ status.state = ""
       \/ pc = "wait" /\ status.state = "stale"

\* Nothing leads out of Ended.
LEMMA EndedNext == PodInv /\ Ended /\ [Next]_vars => Ended'
<1> SUFFICES ASSUME PodInv, Ended, [Next]_vars PROVE Ended'
  OBVIOUS
<1> USE DEF PodInv, Ended, TypeOK, ListenerAlive
<1>1. CASE Boot \/ Kill \/ FailStep \/ CheckStarted
  BY <1>1, BlankTypes DEF Boot, Kill, FailStep, ProcessGone, CheckStarted, updateState,
                          StatusType
<1>2. CASE deletionTimeHandler \/ Deregister \/ JobScript
  BY <1>2 DEF deletionTimeHandler, Deregister, JobScript, StatusType
<1>3. CASE UNCHANGED vars
  BY <1>3 DEF vars
<1>4. CASE \/ CreateFlag \/ SetupCommand \/ ReadToken \/ ConfigRegisters \/ ConfigReturns
           \/ Connect \/ AssignJob \/ ListenerExits \/ ListenerRetries \/ Relaunch
           \/ DraftStatus \/ PublishStatus
  BY <1>4 DEF CreateFlag, SetupCommand, ReadToken, ConfigRegisters, ConfigReturns, Connect,
              AssignJob, ListenerExits, ListenerRetries, Relaunch, DraftStatus,
              PublishStatus
<1>5. QED
  BY <1>1, <1>2, <1>3, <1>4 DEF Next

\* Once the container of a started pod has ended, the pod is blank or stale forever.
THEOREM OnlyTurnsStale == Spec => RestartedPodOnlyTurnsStale
<1>1. PodInv /\ pc = "down" /\ "started" \in files => Ended
  BY DEF PodInv, StateAtPC, Ended
<1>2. Ended => status.state \in {"", "stale"}
  BY DEF Ended
<1>3. QED
  BY <1>1, <1>2, EndedNext, PodInvariant, PTL DEF Spec, RestartedPodOnlyTurnsStale

-----------------------------------------------------------------------------
\* The abstract record of a status, and what updates of one pod's values look like in
\* the one-pod functions of the refinement mapping.
AbstractStatus ==
    [state |-> AbstractState, finishedAt |-> status.finishedAt,
     deletionTime |-> status.deletionTime, extend |-> status.extend]
AbstractDraft == [finishedAt |-> draft.finishedAt, extend |-> draft.extend]

\* The initial states of the entrypoint are initial states of the contract.
LEMMA ContractInitially == Init => Contract!ContractInit
<1> SUFFICES ASSUME Init PROVE Contract!ContractInit
  OBVIOUS
<1>1. Stage = "boot" /\ ("started" \in files) = FALSE
  BY DEF Init, Stage
<1>2. AbstractStatus = Contract!Blank
  BY DEF Init, AbstractStatus, AbstractState, NoStatus, NoTime, Contract!Blank,
         Contract!NoTime
<1>3. AbstractDraft = Contract!NoDraft
  BY DEF Init, AbstractDraft, NoDraft, NoTime, Contract!NoDraft, Contract!NoTime
<1>4. QED
  BY <1>1, <1>2, <1>3
     DEF Init, Contract!ContractInit, Of, Contract!PastTime, AbstractStatus, AbstractDraft

\* Steps that leave every mapped value alone are stutters of the contract.
LEMMA ContractStutter ==
    ASSUME UNCHANGED <<clock, Stage, "started" \in files, AbstractStatus, AbstractDraft,
                       reg, job>>
    PROVE  UNCHANGED Contract!podVars /\ clock' = clock
BY DEF Contract!podVars, Of, AbstractStatus, AbstractDraft

\* Every step of the entrypoint is a step of the contract, or a stutter.
LEMMA ContractStep ==
    PodInv /\ [Next]_vars => [Contract!ContractNext]_<<clock, Contract!podVars>>
<1> SUFFICES ASSUME PodInv, [Next]_vars
             PROVE  Contract!ContractNext \/ UNCHANGED <<clock, Contract!podVars>>
  OBVIOUS
<1>1. CASE Boot \/ SetupCommand \/ ReadToken \/ Relaunch
  <2>1. UNCHANGED <<clock, Stage, "started" \in files, AbstractStatus, AbstractDraft, reg, job>>
    BY <1>1 DEF Boot, SetupCommand, ReadToken, Relaunch, github, Stage, AbstractStatus,
                AbstractState, AbstractDraft
  <2>2. QED
    BY <2>1, ContractStutter
<1>2. CASE CreateFlag
  <2>1. /\ Stage = "boot" /\ Stage' = "init"
        /\ ("started" \in files) = FALSE /\ ("started" \in files)' = TRUE
    BY <1>2 DEF CreateFlag, Stage, PodInv, FlagAtPC
  <2>2. AbstractStatus' = AbstractStatus
    BY <1>2 DEF CreateFlag, updateState, AbstractStatus, AbstractState, PodInv, StateAtPC,
                TypeOK, StatusType
  <2>3. UNCHANGED <<clock, AbstractDraft, reg, job>>
    BY <1>2 DEF CreateFlag, AbstractDraft, github
  <2>4. Contract!Start(Pod)
    BY <2>1, <2>2, <2>3 DEF Contract!Start, Of, AbstractStatus, AbstractDraft
  <2>5. QED
    BY <2>4 DEF Contract!ContractNext, Contract!PodStep
<1>3. CASE CheckStarted
  <2>1. Stage = "boot" /\ UNCHANGED <<clock, files, AbstractDraft, reg, job>>
    BY <1>3 DEF CheckStarted, Stage, AbstractDraft, github
  <2>2. CASE "started" \in files
    <3>1. /\ Stage' = "over" /\ ("started" \in files) = TRUE
          /\ AbstractStatus' = [AbstractStatus EXCEPT !.state = "stale"]
      BY <1>3, <2>2 DEF CheckStarted, updateState, Stage, AbstractStatus, AbstractState,
                        PodInv, TypeOK, StatusType
    <3>2. Contract!TurnStale(Pod)
      BY <2>1, <3>1 DEF Contract!TurnStale, Of, AbstractStatus, AbstractDraft
    <3>3. QED
      BY <3>2 DEF Contract!ContractNext, Contract!PodStep
  <2>3. CASE "started" \notin files
    <3>1. Stage' = Stage /\ AbstractStatus' = AbstractStatus
      BY <1>3, <2>3 DEF CheckStarted, Stage, AbstractStatus, AbstractState
    <3>2. QED
      BY <2>1, <3>1, ContractStutter
  <2>4. QED
    BY <2>2, <2>3
<1>4. CASE Kill \/ FailStep
  <2>1. ProcessGone /\ pc # "down"
    BY <1>4 DEF Kill, FailStep
  <2>2. /\ Stage' = "boot" /\ AbstractStatus' = Contract!Blank
        /\ AbstractDraft' = Contract!NoDraft
    BY <2>1 DEF ProcessGone, Stage, AbstractStatus, AbstractState, AbstractDraft, NoStatus,
                NoDraft, NoTime, Contract!Blank, Contract!NoDraft, Contract!NoTime
  <2>3. UNCHANGED <<clock, files>>
    BY <2>1 DEF ProcessGone
  <2>4. /\ reg' = (IF reg = "online" THEN "offline" ELSE reg)
        /\ job' = (IF job = "running" THEN "done" ELSE job)
    BY <2>1 DEF ProcessGone
  <2>5. CASE Stage # "boot"
    <3>1. Contract!Restart(Pod)
      BY <2>2, <2>3, <2>4, <2>5 DEF Contract!Restart, Of, AbstractStatus, AbstractDraft
    <3>2. QED
      BY <3>1 DEF Contract!ContractNext
  <2>6. CASE Stage = "boot"
    <3>1. UNCHANGED <<reg, job>>
      BY <2>4, <2>6 DEF PodInv, TypeOK, PCs, ListenerAlive, Stage
    <3>2. Contract!Forget(Pod)
      BY <2>2, <2>3, <2>6, <3>1 DEF Contract!Forget, Of, AbstractStatus, AbstractDraft
    <3>3. QED
      BY <3>2 DEF Contract!ContractNext
  <2>7. QED
    BY <2>5, <2>6
<1>5. CASE ConfigRegisters
  <2>1. /\ Stage = "init" /\ Stage' = "listening" /\ job' = job
        /\ reg' = "offline"
        /\ UNCHANGED <<clock, files, AbstractStatus, AbstractDraft>>
    BY <1>5 DEF ConfigRegisters, Stage, AbstractStatus, AbstractState, AbstractDraft, PodInv,
                RegisteredOnce
  <2>2. Contract!Register(Pod)
    BY <2>1 DEF Contract!Register, Of, AbstractStatus, AbstractDraft
  <2>3. QED
    BY <2>2 DEF Contract!ContractNext, Contract!PodStep
<1>6. CASE ConfigReturns
  <2>1. UNCHANGED <<clock, Stage, "started" \in files, AbstractStatus, AbstractDraft, reg, job>>
    BY <1>6 DEF ConfigReturns, updateState, Stage, AbstractStatus, AbstractState,
                AbstractDraft, github, PodInv, TypeOK, StatusType, StateAtPC
  <2>2. QED
    BY <2>1, ContractStutter
<1>7. CASE Connect
  <2>1. /\ Stage = "listening" /\ reg = "offline" /\ reg' = "online"
        /\ UNCHANGED <<clock, Stage, files, AbstractStatus, AbstractDraft, job>>
    BY <1>7 DEF Connect, Stage, AbstractStatus, AbstractState, AbstractDraft
  <2>2. Contract!Connect(Pod)
    BY <2>1 DEF Contract!Connect, Of, AbstractStatus, AbstractDraft
  <2>3. QED
    BY <2>2 DEF Contract!ContractNext, Contract!PodStep
<1>8. CASE AssignJob
  <2>1. /\ Stage = "listening" /\ reg = "online" /\ job = "none" /\ reg' = "busy"
        /\ job' = "running"
        /\ UNCHANGED <<clock, Stage, files, AbstractStatus, AbstractDraft>>
    BY <1>8 DEF AssignJob, Stage, AbstractStatus, AbstractState, AbstractDraft
  <2>2. Contract!TakeJob(Pod)
    BY <2>1 DEF Contract!TakeJob, Of, AbstractStatus, AbstractDraft
  <2>3. QED
    BY <2>2 DEF Contract!ContractNext, Contract!PodStep
<1>9. CASE JobScript
  <2>1. UNCHANGED <<clock, Stage, "started" \in files, AbstractStatus, AbstractDraft, reg, job>>
    BY <1>9 DEF JobScript, Stage, AbstractStatus, AbstractState, AbstractDraft, github
  <2>2. QED
    BY <2>1, ContractStutter
<1>10. CASE Deregister
  <2>1. reg' = "none" /\ UNCHANGED <<clock, Stage, files, AbstractStatus, AbstractDraft, job>>
    BY <1>10 DEF Deregister, Stage, AbstractStatus, AbstractState, AbstractDraft
  <2>2. Contract!Deregister(Pod)
    BY <2>1 DEF Contract!Deregister, Of, AbstractStatus, AbstractDraft
  <2>3. QED
    BY <2>2 DEF Contract!ContractNext
<1>11. CASE ListenerExits
  <2>1. /\ Stage = "listening" /\ Stage' = "finished"
        /\ reg' = (IF reg = "none" \/ reg = "busy" THEN "none" ELSE "offline")
        /\ job' = (IF job = "running" THEN "done" ELSE job)
        /\ UNCHANGED <<clock, files, AbstractStatus, AbstractDraft>>
    BY <1>11 DEF ListenerExits, Stage, AbstractStatus, AbstractState, AbstractDraft
  <2>2. Contract!EndListen(Pod)
    BY <2>1 DEF Contract!EndListen, Of, AbstractStatus, AbstractDraft
  <2>3. QED
    BY <2>2 DEF Contract!ContractNext, Contract!PodStep
<1>12. CASE ListenerRetries
  <2>1. /\ Stage = "listening" /\ Stage' = Stage
        /\ reg' = (IF reg = "online" THEN "offline" ELSE reg)
        /\ job' = (IF job = "running" THEN "done" ELSE job)
        /\ UNCHANGED <<clock, files, AbstractStatus, AbstractDraft>>
    BY <1>12 DEF ListenerRetries, Stage, AbstractStatus, AbstractState, AbstractDraft
  <2>2. Contract!Disconnect(Pod)
    BY <2>1 DEF Contract!Disconnect, Of, AbstractStatus, AbstractDraft
  <2>3. QED
    BY <2>2 DEF Contract!ContractNext, Contract!PodStep
<1>13. CASE DraftStatus
  <2>1. /\ Stage = "finished" /\ Stage' = "drafted" /\ clock < MaxClock
        /\ clock' = clock + 1 /\ UNCHANGED <<files, AbstractStatus, reg, job>>
    BY <1>13 DEF DraftStatus, Stage, AbstractStatus, AbstractState, github
  <2>2. AbstractDraft' = [finishedAt |-> clock', extend |-> ("extend" \in files)]
    BY <1>13 DEF DraftStatus, AbstractDraft
  <2>3. \E e \in BOOLEAN : AbstractDraft' = [finishedAt |-> clock', extend |-> e]
    <3>1. CASE "extend" \in files
      BY <2>2, <3>1
    <3>2. CASE "extend" \notin files
      <4>1. ("extend" \in files) = FALSE
        BY <3>2
      <4>2. QED
        BY <2>2, <4>1, FALSE \in BOOLEAN
    <3>3. QED
      BY <3>1, <3>2
  <2>4. \E e \in BOOLEAN : Of(AbstractDraft') = [Of(AbstractDraft) EXCEPT ![Pod] =
                                 [finishedAt |-> clock', extend |-> e]]
    BY <2>3 DEF Of
  <2>5. clock' \in Contract!PodClock(clock')
    BY <2>1 DEF PodInv, Contract!PodClock, Contract!PastTime
  <2>6. Contract!DraftStatus(Pod)
    BY <2>1, <2>4, <2>5 DEF Contract!DraftStatus, Of, AbstractStatus, AbstractDraft
  <2>7. QED
    BY <2>6 DEF Contract!ContractNext, Contract!PodStep
<1>14. CASE PublishStatus
  <2>1. /\ Stage = "drafted" /\ Stage' = "over" /\ UNCHANGED <<clock, files, reg, job>>
    BY <1>14 DEF PublishStatus, Stage, github
  <2>2. AbstractStatus' = [state |-> "debugging", finishedAt |-> AbstractDraft.finishedAt,
                           deletionTime |-> AbstractStatus.deletionTime,
                           extend |-> AbstractDraft.extend]
    <3>1. /\ status'.state = "debugging" /\ status'.deletionTime = status.deletionTime
          /\ status'.finishedAt = draft.finishedAt /\ status'.extend = draft.extend
      BY <1>14 DEF PublishStatus, PodInv, TypeOK, StatusType, DraftType
    <3>2. AbstractState' = "debugging"
      BY <3>1 DEF AbstractState
    <3>3. QED
      BY <3>1, <3>2 DEF AbstractStatus, AbstractDraft
  <2>3. AbstractDraft' = Contract!NoDraft
    BY <1>14 DEF PublishStatus, AbstractDraft, NoDraft, NoTime, Contract!NoDraft,
                 Contract!NoTime
  <2>4. Contract!Publish(Pod)
    BY <2>1, <2>2, <2>3 DEF Contract!Publish, Of, AbstractStatus, AbstractDraft
  <2>5. QED
    BY <2>4 DEF Contract!ContractNext, Contract!PodStep
<1>15. CASE deletionTimeHandler
  <2>1. UNCHANGED <<clock, Stage, files, AbstractDraft, reg, job>>
    BY <1>15 DEF deletionTimeHandler, Stage, AbstractDraft, github
  <2>2. PICK t \in Times : status' = [status EXCEPT !.deletionTime = t]
    BY <1>15 DEF deletionTimeHandler
  <2>3. AbstractStatus' = [AbstractStatus EXCEPT !.deletionTime = t]
    BY <2>2 DEF AbstractStatus, AbstractState, PodInv, TypeOK, StatusType
  <2>4. Contract!SetDeletionTime(Pod, t)
    BY <2>1, <2>3 DEF Contract!SetDeletionTime, Of, AbstractStatus, AbstractDraft
  <2>5. QED
    BY <2>4 DEF Contract!ContractNext
<1>16. CASE UNCHANGED vars
  <2>1. UNCHANGED <<clock, Stage, "started" \in files, AbstractStatus, AbstractDraft, reg, job>>
    BY <1>16 DEF vars, Stage, AbstractStatus, AbstractState, AbstractDraft
  <2>2. QED
    BY <2>1, ContractStutter
<1>17. QED
  BY <1>1, <1>2, <1>3, <1>4, <1>5, <1>6, <1>7, <1>8, <1>9, <1>10, <1>11, <1>12, <1>13,
     <1>14, <1>15, <1>16 DEF Next

\* The entrypoint implements the contract the manager relies on.
THEOREM PodImplementsContract == Spec => ImplementsContract
BY ContractInitially, ContractStep, PodInvariant, PTL
   DEF Spec, ImplementsContract, Contract!ContractSpec
=============================================================================
