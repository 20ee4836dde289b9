----------------------------- MODULE RunnerPod -----------------------------
(***************************************************************************)
(* The entrypoint of one runner pod (runner/runner.go, runner/listener.go).*)
(* runListener is a sequential program that can fail at every step; a      *)
(* failure ends the process, and the kubelet restarts the container with   *)
(* the same /var/meows directory and an empty memory.  The HTTP handlers   *)
(* run beside it.  config.sh, Runner.Listener, the job steps and GitHub    *)
(* are external.                                                           *)
(***************************************************************************)
EXTENDS Naturals, FiniteSets

CONSTANTS
    Pod,          \* the name of this pod
    MaxClock,     \* bound: the clock is not read after this time
    MaxRestarts,  \* bound: number of times the container ends
    Times         \* the deletion times clients may PUT

ASSUME BoundsAssumption == MaxClock \in Nat \ {0} /\ MaxRestarts \in Nat
ASSUME TimesAssumption == Times \subseteq Nat \ {0}

VARIABLES
    pc,        \* where runListener is; "down" between two containers
    files,     \* the flag files in /var/meows (an emptyDir of the pod)
    status,    \* the fields of Runner guarded by mu
    draft,     \* local variables of updateToDebuggingState
    clock,     \* the last time read with time.Now()
    reg,       \* the runner registered on GitHub under the name of the pod
    job,       \* the job executed by the listener
    regs,      \* how many registrations the pod has made
    jobs,      \* how many jobs the pod has been given
    restarts   \* how often the container has ended

vars == <<pc, files, status, draft, clock, reg, job, regs, jobs, restarts>>
github == <<reg, job, regs, jobs>>

NoTime == 0

PCs     == {"down", "boot", "create", "setup", "token", "configure", "registered",
            "listen", "backoff", "finish", "publish", "wait"}
Flags   == {"started", "success", "failure", "cancelled", "extend"}
States  == {"", "initializing", "running", "debugging", "stale"}
Results == {"", "success", "failure", "cancelled", "unknown"}
StatusType == [state : States, result : Results, finishedAt : Nat,
               deletionTime : Nat, extend : BOOLEAN]
DraftType  == [result : Results, finishedAt : Nat, extend : BOOLEAN]
NoStatus == [state |-> "", result |-> "", finishedAt |-> NoTime,
             deletionTime |-> NoTime, extend |-> FALSE]
NoDraft  == [result |-> "", finishedAt |-> NoTime, extend |-> FALSE]

Init ==
    /\ pc = "boot" /\ files = {}
    /\ status = NoStatus /\ draft = NoDraft
    /\ clock = 1
    /\ reg = "none" /\ job = "none" /\ regs = 0 /\ jobs = 0
    /\ restarts = 0

-----------------------------------------------------------------------------
(* The process and its container.                                          *)

\* The process is gone, by an error or a kill: memory is lost, a connected
\* listener disconnects and the job it was executing is over.
ProcessGone ==
    /\ restarts < MaxRestarts
    /\ restarts' = restarts + 1
    /\ pc' = "down"
    /\ status' = NoStatus /\ draft' = NoDraft
    /\ reg' = IF reg = "online" THEN "offline" ELSE reg
    /\ job' = IF job = "running" THEN "done" ELSE job
    /\ UNCHANGED <<files, clock, regs, jobs>>

\* The container is killed from outside at any point.
Kill == pc # "down" /\ ProcessGone

\* The kubelet restarts the container (restartPolicy Always); NewRunner.
Boot ==
    /\ pc = "down"
    /\ pc' = "boot"
    /\ UNCHANGED <<files, status, draft, clock, github, restarts>>

-----------------------------------------------------------------------------
(* runListener, up to the listener.                                        *)

updateState(s) == status' = [status EXCEPT !.state = s]

\* Mutant: the flag file is not looked at.
CheckStartedIgnoringFlag ==
    /\ pc = "boot" /\ pc' = "create"
    /\ UNCHANGED <<status, files, draft, clock, github, restarts>>

\* Mutant: a pod that finds the flag does not say that it is stale.
CheckStartedSilently ==
    /\ pc = "boot"
    /\ pc' = IF "started" \in files THEN "wait" ELSE "create"
    /\ UNCHANGED <<status, files, draft, clock, github, restarts>>

CheckStarted ==
    /\ pc = "boot"
    /\ \/ /\ "started" \in files
          /\ updateState("stale")
          /\ pc' = "wait"
       \/ /\ "started" \notin files
          /\ pc' = "create"
          /\ UNCHANGED status
    /\ UNCHANGED <<files, draft, clock, github, restarts>>

\* The flag is created before anything the pod must not do twice.
CreateFlag ==
    /\ pc = "create"
    /\ files' = files \union {"started"}
    /\ updateState("initializing")
    /\ pc' = "setup"
    /\ UNCHANGED <<draft, clock, github, restarts>>

SetupCommand ==
    /\ pc = "setup"
    /\ pc' = "token"
    /\ UNCHANGED <<files, status, draft, clock, github, restarts>>

ReadToken ==
    /\ pc = "token"
    /\ pc' = "configure"
    /\ UNCHANGED <<files, status, draft, clock, github, restarts>>

\* config.sh registers the runner (--replace, --ephemeral), and the new registration
\* can be given a job; config.sh can still fail afterwards.
ConfigRegisters ==
    /\ pc = "configure"
    /\ reg' = "offline" /\ regs' = regs + 1
    /\ job' = "none"
    /\ pc' = "registered"
    /\ UNCHANGED <<files, status, draft, clock, jobs, restarts>>

ConfigReturns ==
    /\ pc = "registered"
    /\ updateState("running")
    /\ pc' = "listen"
    /\ UNCHANGED <<files, draft, clock, github, restarts>>

\* An error return of runListener: flag, setup command, token file, config.sh, or
\* a listener that cannot be run or exits with code 1.
FailStep ==
    /\ pc \in {"create", "setup", "token", "configure", "registered", "listen"}
    /\ ProcessGone

-----------------------------------------------------------------------------
(* The runner service and GitHub.                                          *)

Connect ==
    /\ pc = "listen" /\ reg = "offline"
    /\ reg' = "online"
    /\ UNCHANGED <<pc, files, status, draft, clock, job, regs, jobs, restarts>>

\* GitHub gives an ephemeral runner a single job per registration.
AssignJob ==
    /\ pc = "listen" /\ reg = "online" /\ job = "none"
    /\ reg' = "busy" /\ job' = "running" /\ jobs' = jobs + 1
    /\ UNCHANGED <<pc, files, status, draft, clock, regs, restarts>>

\* A step of the job touches a flag file: the scripts job-success, job-cancelled
\* and job-failure (which touches two, one after the other), or the user.
JobScript ==
    /\ job = "running"
    /\ \E f \in Flags \ {"started"} : files' = files \union {f}
    /\ UNCHANGED <<pc, status, draft, clock, github, restarts>>

\* The registration disappears: RemoveRunner, or GitHub itself.
Deregister ==
    /\ reg # "none"
    /\ reg' = "none"
    /\ UNCHANGED <<pc, files, status, draft, clock, job, regs, jobs, restarts>>

-----------------------------------------------------------------------------
(* listen: what the exit code of Runner.Listener leads to.                 *)

\* Mutant: the listener is started and not waited for.
ListenerDetached ==
    /\ pc = "listen"
    /\ pc' = "finish"
    /\ UNCHANGED <<files, status, draft, clock, github, restarts>>

\* Exit code 0: listen returns nil.
ListenerExits ==
    /\ pc = "listen"
    /\ pc' = "finish"
    /\ reg' = IF reg \in {"none", "busy"} THEN "none" ELSE "offline"
    /\ job' = IF job = "running" THEN "done" ELSE job
    /\ UNCHANGED <<files, status, draft, clock, regs, jobs, restarts>>

\* Exit codes 2, 3, 4 and unknown ones: sleep 10 seconds.
ListenerRetries ==
    /\ pc = "listen"
    /\ pc' = "backoff"
    /\ reg' = IF reg = "online" THEN "offline" ELSE reg
    /\ job' = IF job = "running" THEN "done" ELSE job
    /\ UNCHANGED <<files, status, draft, clock, regs, jobs, restarts>>

\* ... and run the listener again.
Relaunch ==
    /\ pc = "backoff"
    /\ pc' = "listen"
    /\ UNCHANGED <<files, status, draft, clock, github, restarts>>

-----------------------------------------------------------------------------
(* updateToDebuggingState: the flags and the clock are read first, the     *)
(* fields are published together under the mutex.                          *)

JobResult(fs) ==
    CASE "failure" \in fs   -> "failure"
      [] "failure" \notin fs /\ "cancelled" \in fs -> "cancelled"
      [] "failure" \notin fs /\ "cancelled" \notin fs /\ "success" \in fs -> "success"
      [] OTHER -> "unknown"

\* Mutant: the status is computed when a result script has left its flag.
DraftWithResult ==
    /\ pc = "finish" /\ clock < MaxClock /\ JobResult(files) # "unknown"
    /\ clock' = clock + 1
    /\ draft' = [result |-> JobResult(files), finishedAt |-> clock',
                 extend |-> "extend" \in files]
    /\ pc' = "publish"
    /\ UNCHANGED <<files, status, github, restarts>>

DraftStatus ==
    /\ pc = "finish"
    /\ clock < MaxClock
    /\ clock' = clock + 1
    /\ draft' = [result |-> JobResult(files), finishedAt |-> clock',
                 extend |-> "extend" \in files]
    /\ pc' = "publish"
    /\ UNCHANGED <<files, status, github, restarts>>

\* Mutant: the finish time is not published.
PublishWithoutTime ==
    /\ pc = "publish"
    /\ status' = [status EXCEPT !.state = "debugging", !.result = draft.result,
                                !.extend = draft.extend]
    /\ draft' = NoDraft
    /\ pc' = "wait"
    /\ UNCHANGED <<files, clock, github, restarts>>

\* Mutant: publishing replaces the status as a whole.
PublishOverTime ==
    /\ pc = "publish"
    /\ status' = [NoStatus EXCEPT !.state = "debugging", !.result = draft.result,
                                  !.finishedAt = draft.finishedAt,
                                  !.extend = draft.extend]
    /\ draft' = NoDraft
    /\ pc' = "wait"
    /\ UNCHANGED <<files, clock, github, restarts>>

PublishStatus ==
    /\ pc = "publish"
    /\ status' = [status EXCEPT !.state = "debugging", !.result = draft.result,
                                !.finishedAt = draft.finishedAt,
                                !.extend = draft.extend]
    /\ draft' = NoDraft
    /\ pc' = "wait"
    /\ UNCHANGED <<files, clock, github, restarts>>

\* Mutant: the payload takes the place of the status.
deletionTimeReplacesStatus ==
    /\ pc # "down"
    /\ \E t \in Times : status' = [deletionTime |-> t]
    /\ UNCHANGED <<pc, files, draft, clock, github, restarts>>

\* PUT /deletion_time; there is no check of the state.
deletionTimeHandler ==
    /\ pc # "down"
    /\ \E t \in Times : status' = [status EXCEPT !.deletionTime = t]
    /\ UNCHANGED <<pc, files, draft, clock, github, restarts>>

-----------------------------------------------------------------------------
Next ==
    \/ Boot \/ Kill \/ FailStep
    \/ CheckStarted \/ CreateFlag \/ SetupCommand \/ ReadToken
    \/ ConfigRegisters \/ ConfigReturns
    \/ Connect \/ AssignJob \/ JobScript \/ Deregister
    \/ ListenerExits \/ ListenerRetries \/ Relaunch
    \/ DraftStatus \/ PublishStatus
    \/ deletionTimeHandler

Spec == Init /\ [][Next]_vars

\* The kubelet restarts an ended container, and the steps that wait for nothing
\* outside the process are taken.  Nothing is assumed of the setup command, of
\* config.sh, of the listener and of GitHub: they may take forever.
Fairness ==
    /\ WF_vars(Boot) /\ WF_vars(CheckStarted)
    /\ WF_vars(DraftStatus) /\ WF_vars(PublishStatus)

FairSpec == Spec /\ Fairness

-----------------------------------------------------------------------------
(* Properties.                                                             *)

TypeOK ==
    /\ pc \in PCs
    /\ files \subseteq Flags
    /\ status \in StatusType /\ draft \in DraftType
    /\ clock \in Nat
    /\ reg \in {"none", "offline", "online", "busy"}
    /\ job \in {"none", "running", "done"}
    /\ regs \in Nat /\ jobs \in Nat /\ restarts \in Nat

\* "meows only runs one job on a single runner pod": whatever fails and however often
\* the container is restarted, the pod registers at most one runner and that runner
\* is given at most one job.  The started flag, created before config.sh, is what
\* ensures it.
OneJobPerPod == regs <= 1 /\ jobs <= 1

\* A status in debugging state tells what the job left behind: the result and the
\* extension the flag files stand for, and a finish time that has been reached.  The
\* manager dereferences finishedAt as soon as it reads "debugging".
DebuggingStatusIsTrue ==
    status.state = "debugging" =>
        /\ status.result = JobResult(files)
        /\ status.extend = ("extend" \in files)
        /\ status.finishedAt \in 2..clock

\* While the job is executed the pod answers neither "stale" nor "debugging": the
\* manager deletes a pod that does, without looking at its runner.
JobIsNotDisowned == job = "running" => status.state = "running"

\* Once the container of a started pod has ended, the pod never again runs a job or
\* reports its end: all it can become is stale.
RestartedPodOnlyTurnsStale ==
    [](pc = "down" /\ "started" \in files => [](status.state \in {"", "stale"}))

\* When the listener ends without error the pod becomes deletable: it reaches the
\* debugging state, or the stale state if its container is killed before.
EndedListenerIsReported ==
    pc = "finish" ~> status.state \in {"debugging", "stale"}

\* A pod whose entrypoint fails after it has left its flag reaches the stale state, so
\* that the manager can delete it.
FailedPodTurnsStale ==
    (pc = "down" /\ "started" \in files) ~> status.state = "stale"

-----------------------------------------------------------------------------
(* RunnerPod implements PodContract for one pod.                           *)

Of(v) == [p \in {Pod} |-> v]

Stage ==
    CASE pc \in {"down", "boot", "create"}           -> "boot"
      [] pc \in {"setup", "token", "configure"}      -> "init"
      [] pc \in {"registered", "listen", "backoff"}  -> "listening"
      [] pc = "finish"  -> "finished"
      [] pc = "publish" -> "drafted"
      [] pc = "wait"    -> "over"

AbstractState ==
    IF status.state \in {"stale", "debugging"} THEN status.state ELSE "active"

Contract == INSTANCE PodContract WITH
    Pods    <- {Pod},
    stage   <- Of(Stage),
    started <- Of("started" \in files),
    status  <- Of([state |-> AbstractState, finishedAt |-> status.finishedAt,
                   deletionTime |-> status.deletionTime, extend |-> status.extend]),
    draft   <- Of([finishedAt |-> draft.finishedAt, extend |-> draft.extend]),
    reg     <- Of(reg),
    job     <- Of(job),
    Behind  <- 0,   \* the clock is the pod's own
    Ahead   <- 0

\* The detailed entrypoint does only what PodContract, the view RunnerManager is
\* composed with, allows.
ImplementsContract == Contract!ContractSpec
=============================================================================
