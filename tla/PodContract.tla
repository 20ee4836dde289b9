---------------------------- MODULE PodContract ----------------------------
(***************************************************************************)
(* What the runner manager and the slack agent may rely on about runner    *)
(* pods: the status a pod answers on GET /status, how that status evolves, *)
(* and what the pod's registration does on the GitHub side.  It is the     *)
(* abstract specification of the entrypoint of a runner pod; RunnerPod is  *)
(* the detailed one and implements it, RunnerManager is composed of it.    *)
(*                                                                         *)
(* Times are naturals.  NoTime is Go's nil *time.Time; PastTime stands for *)
(* the zero time.Time{} and for the time at which the behaviours begin,    *)
(* earlier than every later reading.  The clock is the manager's and       *)
(* advances at every reading.  A pod reads the clock of its own node,      *)
(* which may be behind or ahead of the manager's.                          *)
(***************************************************************************)
EXTENDS Naturals

CONSTANTS
    Pods,      \* the names of the runner pods; a name is never used twice
    MaxClock,  \* the clock is not read after this time
    Times,     \* the deletion times clients of the pod may set
    Behind,    \* how far the clock of a pod may be behind
    Ahead      \* how far it may be ahead: not beyond the next reading

ASSUME MaxClockAssumption == MaxClock \in Nat \ {0}
ASSUME TimesAssumption == Times \subseteq Nat \ {0}
ASSUME SkewAssumption == Behind \in Nat /\ Ahead \in {0, 1}

NoTime   == 0
PastTime == 1

VARIABLES
    clock,     \* the last time read
    stage,     \* how far the entrypoint of the pod is
    started,   \* the "started" flag file, which survives container restarts
    status,    \* the status kept in the memory of the entrypoint
    draft,     \* a status computed and not yet published
    reg,       \* the registration of the runner named after the pod
    job        \* the job executed in the pod

podVars == <<stage, started, status, draft, reg, job>>

\* The manager tells only stale and debugging from the rest: "", initializing
\* and running are all "active" here.
Statuses == [state : {"active", "debugging", "stale"},
             finishedAt : Nat, deletionTime : Nat, extend : BOOLEAN]
Drafts   == [finishedAt : Nat, extend : BOOLEAN]
Blank    == [state |-> "active", finishedAt |-> NoTime,
             deletionTime |-> NoTime, extend |-> FALSE]
NoDraft  == [finishedAt |-> NoTime, extend |-> FALSE]

Stages == {"boot", "init", "listening", "finished", "drafted", "over"}
Regs   == {"none", "offline", "online", "busy"}
Jobs   == {"none", "running", "done"}

ContractInit ==
    /\ clock = PastTime
    /\ stage = [p \in Pods |-> "boot"]
    /\ started = [p \in Pods |-> FALSE]
    /\ status = [p \in Pods |-> Blank]
    /\ draft = [p \in Pods |-> NoDraft]
    /\ reg = [p \in Pods |-> "none"]
    /\ job = [p \in Pods |-> "none"]

-----------------------------------------------------------------------------
\* The first start of the pod leaves the started flag behind.
Start(p) ==
    /\ stage[p] = "boot" /\ ~started[p]
    /\ stage' = [stage EXCEPT ![p] = "init"]
    /\ started' = [started EXCEPT ![p] = TRUE]
    /\ UNCHANGED <<clock, status, draft, reg, job>>

\* A start that finds the flag makes the pod stale.
TurnStale(p) ==
    /\ stage[p] = "boot" /\ started[p]
    /\ stage' = [stage EXCEPT ![p] = "over"]
    /\ status' = [status EXCEPT ![p].state = "stale"]
    /\ UNCHANGED <<clock, started, draft, reg, job>>

\* The runner is registered; it is offline until its listener connects.
Register(p) ==
    /\ stage[p] = "init"
    /\ stage' = [stage EXCEPT ![p] = "listening"]
    /\ reg' = [reg EXCEPT ![p] = "offline"]
    /\ UNCHANGED <<clock, started, status, draft, job>>

Connect(p) ==
    /\ stage[p] = "listening" /\ reg[p] = "offline"
    /\ reg' = [reg EXCEPT ![p] = "online"]
    /\ UNCHANGED <<clock, stage, started, status, draft, job>>

TakeJob(p) ==
    /\ stage[p] = "listening" /\ reg[p] = "online" /\ job[p] = "none"
    /\ reg' = [reg EXCEPT ![p] = "busy"]
    /\ job' = [job EXCEPT ![p] = "running"]
    /\ UNCHANGED <<clock, stage, started, status, draft>>

\* The runner service died and will be relaunched: the job it ran is over, GitHub
\* may see the runner busy for a while.
Disconnect(p) ==
    /\ stage[p] = "listening"
    /\ reg' = [reg EXCEPT ![p] = IF @ = "online" THEN "offline" ELSE @]
    /\ job' = [job EXCEPT ![p] = IF @ = "running" THEN "done" ELSE @]
    /\ UNCHANGED <<clock, stage, started, status, draft>>

\* The listener ends.  GitHub forgets an ephemeral runner that had its job.
EndListen(p) ==
    /\ stage[p] = "listening"
    /\ stage' = [stage EXCEPT ![p] = "finished"]
    /\ reg' = [reg EXCEPT ![p] = IF @ = "none" \/ @ = "busy" THEN "none" ELSE "offline"]
    /\ job' = [job EXCEPT ![p] = IF @ = "running" THEN "done" ELSE @]
    /\ UNCHANGED <<clock, started, status, draft>>

\* What the clock of a pod may show when the manager's shows now.
PodClock(now) == {t \in (PastTime + 1)..(now + Ahead) : now <= t + Behind}

\* finishedAt is read from the pod's clock before the status is published.
DraftStatus(p) ==
    /\ stage[p] = "finished"
    /\ clock < MaxClock
    /\ stage' = [stage EXCEPT ![p] = "drafted"]
    /\ clock' = clock + 1
    /\ \E t \in PodClock(clock'), e \in BOOLEAN :
          draft' = [draft EXCEPT ![p] = [finishedAt |-> t, extend |-> e]]
    /\ UNCHANGED <<started, status, reg, job>>

\* A status in debugging state is published in one step, with all its fields;
\* a deletion time that was set before is kept.
Publish(p) ==
    /\ stage[p] = "drafted"
    /\ stage' = [stage EXCEPT ![p] = "over"]
    /\ status' = [status EXCEPT ![p] = [state |-> "debugging",
                                         finishedAt |-> draft[p].finishedAt,
                                         deletionTime |-> @.deletionTime,
                                         extend |-> draft[p].extend]]
    /\ draft' = [draft EXCEPT ![p] = NoDraft]
    /\ UNCHANGED <<clock, started, reg, job>>

\* The container dies: its memory is lost, its files and registration are not.
Restart(p) ==
    /\ stage[p] # "boot"
    /\ stage' = [stage EXCEPT ![p] = "boot"]
    /\ status' = [status EXCEPT ![p] = Blank]
    /\ draft' = [draft EXCEPT ![p] = NoDraft]
    /\ reg' = [reg EXCEPT ![p] = IF @ = "online" THEN "offline" ELSE @]
    /\ job' = [job EXCEPT ![p] = IF @ = "running" THEN "done" ELSE @]
    /\ UNCHANGED <<clock, started>>

\* PUT /deletion_time is accepted in every state.
SetDeletionTime(p, t) ==
    /\ status' = [status EXCEPT ![p].deletionTime = t]
    /\ UNCHANGED <<clock, stage, started, draft, reg, job>>

\* A pod that dies before it has left its flag starts over with a blank memory.
Forget(p) ==
    /\ stage[p] = "boot"
    /\ status' = [status EXCEPT ![p] = Blank]
    /\ draft' = [draft EXCEPT ![p] = NoDraft]
    /\ UNCHANGED <<clock, stage, started, reg, job>>

\* The registration disappears from GitHub.
Deregister(p) ==
    /\ reg' = [reg EXCEPT ![p] = "none"]
    /\ UNCHANGED <<clock, stage, started, status, draft, job>>

\* Everything a pod does by itself.
PodStep(p) ==
    \/ Start(p) \/ TurnStale(p) \/ Register(p) \/ Connect(p) \/ TakeJob(p)
    \/ Disconnect(p) \/ EndListen(p) \/ DraftStatus(p) \/ Publish(p)

ContractNext ==
    \E p \in Pods :
        \/ PodStep(p) \/ Restart(p) \/ Forget(p) \/ Deregister(p)
        \/ \E t \in Times : SetDeletionTime(p, t)

ContractSpec == ContractInit /\ [][ContractNext]_<<clock, podVars>>
=============================================================================
