----------------------------- MODULE SlackAgent -----------------------------
(***************************************************************************)
(* The slack agent (agent/socket.go, agent/server.go, agent/client.go): it *)
(* posts the result of a finished job to Slack, with an Extend and a       *)
(* Delete button, and turns clicks on them into PUT /deletion_time of the  *)
(* pod.  The runner manager sets and reads the same deletion time.  The    *)
(* agent is one goroutine handling one event after the other; an error of  *)
(* a handler ends the whole agent, before the event is acknowledged.       *)
(*                                                                         *)
(* Times are integers, in hours.  Slack, the API server and the HTTP       *)
(* transport are external.                                                 *)
(***************************************************************************)
EXTENDS Integers, FiniteSets

CONSTANTS
    Pods,            \* runner pods whose job is finished, with an extension
    Clicks,          \* bound: the clicks users make
    ExtendDuration,  \* spec.notification.extendDuration of their RunnerPool
    ExtendHours,     \* extendDurationHours
    LimitHours,      \* extendLimitHours
    ZeroTime,        \* time.Time{}, which the Delete button stands for
    MaxClock,        \* bound: time stops here
    MaxFaults        \* bound: failed calls, lost pods, kills of the agent

ASSUME HoursAssumption ==
    /\ ExtendDuration \in Nat \ {0} /\ ExtendHours \in Nat /\ LimitHours \in Nat
    /\ ExtendHours <= LimitHours
ASSUME AgentBounds == IsFiniteSet(Clicks) /\ MaxClock \in Nat /\ MaxFaults \in Nat

\* The zero time is that of the year 1: all extensions together do not reach the present.
ASSUME ZeroTimeAssumption ==
    ZeroTime \in Int /\ ZeroTime + ExtendHours * (Cardinality(Clicks) + MaxFaults) < 0

VARIABLES
    clock,
    managed,       \* what the manager has done with the pod, see Managed
    finishedAt,    \* of the pod's status
    deletionTime,  \* of the pod's status
    buttons,       \* the pods whose result is on Slack, with buttons
    unused,        \* the clicks not made yet
    pending,       \* the events Slack is going to deliver
    apc, event, target,  \* the agent: next call, event at hand, time to be set
    (* history *)
    promised,      \* the last time the agent has set
    raced,         \* see GetStatus and PutDeletionTime
    faults

agentVars == <<apc, event, target>>
slackVars == <<buttons, unused, pending>>
podState  == <<managed, finishedAt, deletionTime>>
history   == <<promised, raced>>
vars      == <<clock, podState, slackVars, agentVars, history, faults>>

\* fresh: finished and not seen; posted: the result has been sent, the status read before
\* that is still in use; put: the deletion time has been set, or that failed; expired: the
\* pass has decided to delete the pod.
Managed == {"fresh", "posted", "put", "expired", "gone"}

Nil        == [set |-> FALSE, time |-> 0]
At(t)      == [set |-> TRUE, time |-> t]
Events     == [click : Clicks, pod : Pods, button : {"extend", "delete"}]
NoEvent    == [click |-> 0]
Alive(p)   == managed[p] # "gone"
Fault      == faults < MaxFaults /\ faults' = faults + 1

Init ==
    /\ clock = 0
    /\ managed = [p \in Pods |-> "fresh"]
    /\ finishedAt = [p \in Pods |-> 0]
    /\ deletionTime = [p \in Pods |-> Nil]
    /\ buttons = {} /\ unused = Clicks /\ pending = {}
    /\ apc = "idle" /\ event = NoEvent /\ target = Nil
    /\ promised = [p \in Pods |-> Nil] /\ raced = [p \in Pods |-> {}]
    /\ faults = 0

-----------------------------------------------------------------------------
(* Time, pods, users and Slack.                                            *)

Tick ==
    /\ clock < MaxClock
    /\ clock' = clock + 1
    /\ UNCHANGED <<podState, slackVars, agentVars, history, faults>>

PodLost(p) ==
    /\ Alive(p) /\ Fault
    /\ managed' = [managed EXCEPT ![p] = "gone"]
    /\ UNCHANGED <<clock, finishedAt, deletionTime, slackVars, agentVars, history>>

\* The message stays on Slack after the pod is gone.
Click(c, p, b) ==
    /\ c \in unused /\ p \in buttons
    /\ unused' = unused \ {c}
    /\ pending' = pending \union {[click |-> c, pod |-> p, button |-> b]}
    /\ UNCHANGED <<clock, podState, buttons, agentVars, history, faults>>

-----------------------------------------------------------------------------
(* The runner manager's part: one pass over a pod in debugging state.      *)

\* PostResult and the agent's HTTP handler.  A failure is only logged.
PostResult(p) ==
    /\ managed[p] = "fresh"
    /\ managed' = [managed EXCEPT ![p] = "posted"]
    /\ finishedAt' = [finishedAt EXCEPT ![p] = clock]
    /\ \/ apc # "down" /\ buttons' = buttons \union {p} /\ UNCHANGED faults
       \/ apc = "down" /\ UNCHANGED <<buttons, faults>>
       \/ Fault /\ UNCHANGED buttons
    /\ UNCHANGED <<clock, deletionTime, unused, pending, agentVars, history>>

\* Mutant: the deletion time of the pod is not looked at.
ExpiredByDefault(p) == clock > finishedAt[p] + ExtendDuration

\* The deletion time as the manager has read it.
SeenTime(p) == IF managed[p] = "posted" THEN Nil ELSE deletionTime[p]

Expired(p) ==
    IF SeenTime(p).set THEN clock > SeenTime(p).time ELSE clock > finishedAt[p] + ExtendDuration

\* Mutant: only the first pass over a pod can delete it.
FindExpiredOnce(p) ==
    /\ managed[p] = "posted" /\ Expired(p)
    /\ managed' = [managed EXCEPT ![p] = "expired"]
    /\ UNCHANGED <<clock, finishedAt, deletionTime, slackVars, agentVars, history, faults>>

FindExpired(p) ==
    /\ managed[p] \in {"posted", "put"}
    /\ Expired(p)
    /\ managed' = [managed EXCEPT ![p] = "expired"]
    /\ UNCHANGED <<clock, finishedAt, deletionTime, slackVars, agentVars, history, faults>>

\* The first deletion time, set after the result was posted and without asking again.
SetFirstTime(p) ==
    /\ managed[p] = "posted"
    /\ managed' = [managed EXCEPT ![p] = "put"]
    /\ \/ /\ deletionTime' = [deletionTime EXCEPT ![p] = At(finishedAt[p] + ExtendDuration)]
          /\ UNCHANGED faults
       \/ Fault /\ UNCHANGED deletionTime
    /\ UNCHANGED <<clock, finishedAt, slackVars, agentVars, history>>

\* Delete; when it fails a later pass asks the pod again.
DeletePod(p) ==
    /\ managed[p] = "expired"
    /\ \/ managed' = [managed EXCEPT ![p] = "gone"] /\ UNCHANGED faults
       \/ managed' = [managed EXCEPT ![p] = "put"] /\ Fault
    /\ UNCHANGED <<clock, finishedAt, deletionTime, slackVars, agentVars, history>>

-----------------------------------------------------------------------------
(* The agent.                                                              *)

AgentStep(next) == apc' = next /\ UNCHANGED <<clock, slackVars, podState, history>>

ReceiveEvent(e) ==
    /\ apc = "idle" /\ e \in pending
    /\ apc' = "get" /\ event' = e /\ target' = Nil
    /\ pending' = pending \ {e}
    /\ UNCHANGED <<clock, podState, buttons, unused, history, faults>>

\* The agent ends and forgets its events.  Slack delivers an event that was not
\* acknowledged again, or gives it up.
AgentEnds ==
    /\ apc' = "down" /\ event' = NoEvent /\ target' = Nil
    /\ pending' \in SUBSET (pending \union ({event} \ {NoEvent}))
    /\ UNCHANGED <<clock, podState, buttons, unused, history>>

\* The API server knows the pod, or the handler returns an error.
GetPod ==
    /\ apc = "get"
    /\ \/ /\ Alive(event.pod) /\ event.button = "extend"
          /\ AgentStep("status")
          /\ UNCHANGED <<event, target, faults>>
       \/ /\ Alive(event.pod) /\ event.button = "delete"
          /\ AgentStep("put")
          /\ target' = At(ZeroTime)
          /\ UNCHANGED <<event, faults>>
       \/ ~Alive(event.pod) /\ AgentEnds /\ UNCHANGED faults
       \/ AgentEnds /\ Fault

\* Mutants: the limit counts from the time set; the extension counts from the present; it
\* counts from whichever is later.
ExtendedFromSeen(seen, now) ==
    LET tm    == (IF seen.set THEN seen.time ELSE now) + ExtendHours
        limit == (IF seen.set THEN seen.time ELSE now) + LimitHours
    IN  IF tm > limit THEN limit ELSE tm

ExtendedFromNow(seen, now) == now + ExtendHours

ExtendedFromLater(seen, now) ==
    LET tm    == (IF seen.set /\ seen.time > now THEN seen.time ELSE now) + ExtendHours
        limit == now + LimitHours
    IN  IF tm > limit THEN limit ELSE tm

\* The time set, or the present as a fail safe, plus two hours; six hours from now at most.
Extended(seen, now) ==
    LET tm    == (IF seen.set THEN seen.time ELSE now) + ExtendHours
        limit == now + LimitHours
    IN  IF tm > limit THEN limit ELSE tm

\* A status read before the manager has set the first time is raced: the fail safe applies.
GetStatus ==
    /\ apc = "status"
    /\ \/ /\ Alive(event.pod)
          /\ apc' = "put"
          /\ target' = At(Extended(deletionTime[event.pod], clock))
          /\ raced' = IF deletionTime[event.pod].set THEN raced
                      ELSE [raced EXCEPT ![event.pod] = @ \union {"status"}]
          /\ UNCHANGED <<clock, slackVars, podState, event, promised, faults>>
       \/ ~Alive(event.pod) /\ AgentEnds /\ UNCHANGED faults
       \/ AgentEnds /\ Fault

\* A failed PUT is announced as such and is no error.  A time set while the manager has
\* still to set its first one, or has already decided to delete the pod, is raced.
PutDeletionTime ==
    /\ apc = "put"
    /\ \/ /\ Alive(event.pod)
          /\ deletionTime' = [deletionTime EXCEPT ![event.pod] = target]
          /\ promised' = [promised EXCEPT ![event.pod] = target]
          /\ raced' = IF managed[event.pod] \notin {"posted", "expired"} THEN raced
                      ELSE [raced EXCEPT ![event.pod] = @ \union {"put"}]
          /\ UNCHANGED faults
       \/ ~Alive(event.pod) /\ UNCHANGED <<deletionTime, history, faults>>
       \/ Fault /\ UNCHANGED <<deletionTime, history>>
    /\ apc' = "announce"
    /\ UNCHANGED <<clock, managed, finishedAt, slackVars, event, target>>

\* messagePodExtendSuccess or messagePodExtendFailure to the channel.
Announce ==
    /\ apc = "announce"
    /\ \/ AgentStep("ack") /\ UNCHANGED <<event, target, faults>>
       \/ AgentEnds /\ Fault

\* Mutant: the event is kept.
AckOnly ==
    /\ apc = "ack"
    /\ AgentStep("idle")
    /\ UNCHANGED <<event, target, faults>>

Ack ==
    /\ apc = "ack"
    /\ AgentStep("idle")
    /\ event' = NoEvent /\ target' = Nil
    /\ UNCHANGED faults

AgentKilled == apc # "down" /\ AgentEnds /\ Fault

AgentRestarts ==
    /\ apc = "down"
    /\ AgentStep("idle")
    /\ UNCHANGED <<event, target, faults>>

-----------------------------------------------------------------------------
Manager(p) == PostResult(p) \/ FindExpired(p) \/ SetFirstTime(p) \/ DeletePod(p)

Agent ==
    \/ \E e \in pending : ReceiveEvent(e)
    \/ GetPod \/ GetStatus \/ PutDeletionTime \/ Announce \/ Ack
    \/ AgentRestarts

Next ==
    \/ Tick \/ AgentKilled \/ Agent
    \/ \E p \in Pods :
          \/ PodLost(p) \/ Manager(p)
          \/ \E c \in Clicks, b \in {"extend", "delete"} : Click(c, p, b)

Spec == Init /\ [][Next]_vars

\* The manager looks at every pod in every pass, and time goes on.
Fairness == WF_vars(Tick) /\ \A p \in Pods : WF_vars(Manager(p))

FairSpec == Spec /\ Fairness

-----------------------------------------------------------------------------
(* Properties.                                                             *)

Moment == [set : BOOLEAN, time : Int]

TypeOK ==
    /\ clock \in 0..MaxClock
    /\ managed \in [Pods -> Managed]
    /\ finishedAt \in [Pods -> 0..MaxClock]
    /\ deletionTime \in [Pods -> Moment] /\ promised \in [Pods -> Moment]
    /\ buttons \subseteq Pods /\ unused \subseteq Clicks /\ pending \subseteq Events
    /\ apc \in {"down", "idle", "get", "status", "put", "announce", "ack"}
    /\ event \in Events \union {NoEvent} /\ target \in Moment
    /\ apc \in {"down", "idle"} <=> event = NoEvent
    /\ raced \in [Pods -> SUBSET {"status", "put"}]
    /\ faults \in 0..MaxFaults

\* docs/user-manual.md: "Extension is limited to "6 hours from now"": whatever users click,
\* however often an event is delivered again and whenever the manager sets its own time, the
\* time of a pod lies no further ahead than six hours or the pool's own extension.
LifetimeIsCapped ==
    \A p \in Pods : deletionTime[p].set =>
        \/ deletionTime[p].time <= clock + LimitHours
        \/ deletionTime[p].time = finishedAt[p] + ExtendDuration

\* A pod is deleted before the time its users were promised only if the click crossed the
\* manager's own pass over the pod.
EarlyDeletionIsARace ==
    [][\A p \in Pods :
          /\ managed[p] = "expired" /\ managed'[p] = "gone" /\ faults' = faults
          /\ promised[p].set /\ "put" \notin raced[p]
          => clock > promised[p].time]_vars

\* Delete wins: once a pod has been given up, no later or repeated Extend event brings
\* it back.
DeletionIsFinal ==
    [][\A p \in Pods :
          promised[p].set /\ promised[p].time < 0 /\ "put" \notin raced[p]
          => deletionTime'[p].time < 0]_vars

\* The pod is not deleted before the time it has: only the manager's first time, when the
\* extension of the pool is longer than the limit, may be cut, to the limit.
NotShortened(p, t) ==
    \/ t >= deletionTime[p].time
    \/ /\ ExtendDuration > LimitHours
       /\ deletionTime[p].time = finishedAt[p] + ExtendDuration
       /\ t >= finishedAt[p] + LimitHours

\* An Extend click does not bring the deletion of the pod forward: "If you want to extend
\* the pod, click `Extend 2 hours` button" (docs/user-manual.md); but for the cut above.  The
\* exception is a click that crosses the manager's first pass over the pod: the agent's fail
\* safe counts from the present and may then replace a later time.
ExtendNeverShortens ==
    [][\A p \in Pods :
          /\ apc = "put" /\ event.pod = p /\ event.button = "extend"
          /\ deletionTime[p].set /\ raced'[p] = {}
          => NotShortened(p, deletionTime'[p].time)]_vars

\* "If you want to delete the pod immediately": a pod users gave up is deleted, for good.
GivenUpPodIsDeleted ==
    \A p \in Pods :
        promised[p].set /\ promised[p].time < 0 /\ "put" \notin raced[p] ~> managed[p] = "gone"
=============================================================================
