-------------------------- MODULE SlackAgentProofs --------------------------
(***************************************************************************)
(* Proofs about SlackAgent, for every set of pods and clicks, every number *)
(* of faults and every extension: types, the cap on the deletion time, and *)
(* what a click can take away from the users.                              *)
(***************************************************************************)
EXTENDS SlackAgent, FiniteSetTheorems, TLAPS

-----------------------------------------------------------------------------
(* Types.                                                                  *)

\* The parts of the state of which each step changes few.
PodsType ==
    /\ managed \in [Pods -> Managed]
    /\ finishedAt \in [Pods -> 0..MaxClock]
    /\ deletionTime \in [Pods -> Moment]

HistoryType ==
    /\ promised \in [Pods -> Moment]
    /\ raced \in [Pods -> SUBSET {"status", "put"}]

SlackType == buttons \subseteq Pods /\ unused \subseteq Clicks /\ pending \subseteq Events

AgentType ==
    /\ apc \in {"down", "idle", "get", "status", "put", "announce", "ack"}
    /\ event \in Events \union {NoEvent} /\ target \in Moment
    /\ apc \in {"down", "idle"} <=> event = NoEvent

CountersType == clock \in 0..MaxClock /\ faults \in 0..MaxFaults

\* They make up the type invariant, before and after a step.
LEMMA TypeParts ==
    /\ TypeOK <=> PodsType /\ HistoryType /\ SlackType /\ AgentType /\ CountersType
    /\ TypeOK' <=> PodsType' /\ HistoryType' /\ SlackType' /\ AgentType' /\ CountersType'
BY DEF TypeOK, PodsType, HistoryType, SlackType, AgentType, CountersType

\* What is left unchanged keeps its type.
LEMMA KeptTypes ==
    /\ PodsType /\ UNCHANGED podState => PodsType'
    /\ HistoryType /\ UNCHANGED history => HistoryType'
    /\ SlackType /\ UNCHANGED slackVars => SlackType'
    /\ AgentType /\ UNCHANGED agentVars => AgentType'
    /\ CountersType /\ UNCHANGED <<clock, faults>> => CountersType'
BY DEF PodsType, podState, HistoryType, history, SlackType, slackVars, AgentType, agentVars,
       CountersType

\* The moments the code works with.
LEMMA Moments == Nil \in Moment /\ \A t \in Int : At(t) \in Moment /\ At(t).set /\ At(t).time = t
BY DEF Nil, At, Moment

\* No event of Slack is the absent event.
LEMMA EventsAreEvents == NoEvent \notin Events
<1> SUFFICES ASSUME NEW e \in Events, e = NoEvent PROVE FALSE
  OBVIOUS
<1>1. "pod" \in DOMAIN e
  BY DEF Events
<1>2. "pod" \notin DOMAIN NoEvent
  BY DEF NoEvent
<1>3. QED
  BY <1>1, <1>2

\* A counted fault stays within the bound.
LEMMA FaultType == CountersType /\ Fault => faults' \in 0..MaxFaults
BY AgentBounds DEF CountersType, Fault

\* The event at hand is an event of Slack while it is handled.
LEMMA EventAtHand ==
    ASSUME AgentType, apc \notin {"down", "idle"}
    PROVE  event \in Events /\ event.pod \in Pods
BY DEF AgentType, Events

\* The end of the agent keeps the types.
LEMMA AgentEndsType ==
    ASSUME TypeOK, AgentEnds
    PROVE  PodsType' /\ HistoryType' /\ SlackType' /\ AgentType' /\ clock' = clock
<1>1. SlackType'
  BY TypeParts DEF AgentEnds, SlackType, AgentType
<1>2. AgentType'
  BY Moments DEF AgentEnds, AgentType
<1>3. QED
  BY <1>1, <1>2, TypeParts, KeptTypes DEF AgentEnds, podState, history

\* The new time of a pod is a time.
LEMMA ExtendedType ==
    ASSUME NEW seen \in Moment, NEW now \in Nat
    PROVE  /\ Extended(seen, now) \in Int
           /\ Extended(seen, now) <= now + LimitHours
           /\ seen.set /\ seen.time <= now + LimitHours => Extended(seen, now) >= seen.time
           /\ seen.set /\ seen.time >= now + LimitHours => Extended(seen, now) = now + LimitHours
BY HoursAssumption DEF Extended, Moment

\* The steps of time, users and Slack keep the types.
LEMMA WorldTypes ==
    ASSUME TypeOK,
           \/ Tick
           \/ \E p \in Pods : \/ PodLost(p)
                             \/ \E c \in Clicks, b \in {"extend", "delete"} : Click(c, p, b)
    PROVE  TypeOK'
<1>1. CASE Tick
  <2>1. CountersType'
    BY <1>1, TypeParts, AgentBounds DEF Tick, CountersType
  <2>2. QED
    BY <1>1, <2>1, TypeParts, KeptTypes DEF Tick
<1>2. ASSUME NEW p \in Pods, PodLost(p) PROVE TypeOK'
  <2>1. PodsType'
    BY <1>2, TypeParts DEF PodLost, PodsType, Managed
  <2>2. CountersType'
    BY <1>2, TypeParts, FaultType DEF PodLost, CountersType
  <2>3. QED
    BY <1>2, <2>1, <2>2, TypeParts, KeptTypes DEF PodLost
<1>3. ASSUME NEW p \in Pods, NEW c \in Clicks, NEW b \in {"extend", "delete"}, Click(c, p, b)
      PROVE  TypeOK'
  <2>1. SlackType'
    BY <1>3, TypeParts DEF Click, SlackType, Events
  <2>2. QED
    BY <1>3, <2>1, TypeParts, KeptTypes DEF Click
<1>4. QED
  BY <1>1, <1>2, <1>3

\* The steps of the manager keep the types.
LEMMA ManagerTypes ==
    ASSUME TypeOK, NEW p \in Pods, Manager(p)
    PROVE  TypeOK'
<1> USE DEF PodsType, Managed
<1>1. CASE PostResult(p)
  <2>1. PodsType'
    BY <1>1, TypeParts DEF PostResult, CountersType
  <2>2. SlackType' /\ CountersType'
    BY <1>1, TypeParts, FaultType DEF PostResult, SlackType, CountersType
  <2>3. QED
    BY <1>1, <2>1, <2>2, TypeParts, KeptTypes DEF PostResult
<1>2. CASE FindExpired(p)
  <2>1. PodsType'
    BY <1>2, TypeParts DEF FindExpired
  <2>2. QED
    BY <1>2, <2>1, TypeParts, KeptTypes DEF FindExpired
<1>3. CASE SetFirstTime(p)
  <2>1. At(finishedAt[p] + ExtendDuration) \in Moment
    BY TypeParts, Moments, HoursAssumption
  <2>2. PodsType'
    BY <1>3, <2>1, TypeParts DEF SetFirstTime
  <2>3. CountersType'
    BY <1>3, TypeParts, FaultType DEF SetFirstTime, CountersType
  <2>4. QED
    BY <1>3, <2>2, <2>3, TypeParts, KeptTypes DEF SetFirstTime
<1>4. CASE DeletePod(p)
  <2>1. PodsType'
    BY <1>4, TypeParts DEF DeletePod
  <2>2. CountersType'
    BY <1>4, TypeParts, FaultType DEF DeletePod, CountersType
  <2>3. QED
    BY <1>4, <2>1, <2>2, TypeParts, KeptTypes DEF DeletePod
<1>5. QED
  BY <1>1, <1>2, <1>3, <1>4 DEF Manager

\* The steps of the agent keep the types.
LEMMA AgentTypes ==
    ASSUME TypeOK, Agent \/ AgentKilled
    PROVE  TypeOK'
<1>0. CountersType /\ AgentType
  BY TypeParts
<1>1. ASSUME NEW e \in pending, ReceiveEvent(e) PROVE TypeOK'
  <2>1. e \in Events /\ e # NoEvent
    BY TypeParts, EventsAreEvents DEF SlackType
  <2>2. SlackType' /\ AgentType' /\ CountersType'
    BY <1>1, <2>1, TypeParts, Moments DEF ReceiveEvent, SlackType, AgentType, CountersType
  <2>3. QED
    BY <1>1, <2>2, TypeParts, KeptTypes DEF ReceiveEvent
<1>2. ASSUME AgentEnds, faults' \in 0..MaxFaults PROVE TypeOK'
  BY <1>2, AgentEndsType, TypeParts DEF CountersType
<1>3. ASSUME AgentEnds, UNCHANGED faults \/ Fault PROVE TypeOK'
  BY <1>0, <1>2, <1>3, FaultType DEF CountersType
<1>4. CASE GetPod
  <2>1. CASE AgentEnds
    BY <1>3, <1>4, <2>1 DEF GetPod, AgentEnds, AgentStep
  <2>2. CASE ~AgentEnds
    <3>1. AgentType' /\ CountersType'
      BY <1>0, <1>4, <2>2, Moments, ZeroTimeAssumption
         DEF GetPod, AgentStep, AgentType, CountersType
    <3>2. QED
      BY <1>4, <2>2, <3>1, TypeParts, KeptTypes DEF GetPod, AgentStep
  <2>3. QED
    BY <2>1, <2>2
<1>5. CASE GetStatus
  <2>1. CASE AgentEnds
    BY <1>3, <1>5, <2>1 DEF GetStatus, AgentEnds
  <2>2. CASE ~AgentEnds
    <3>1. event.pod \in Pods
      BY <1>0, <1>5, EventAtHand DEF GetStatus
    <3>2. Extended(deletionTime[event.pod], clock) \in Int
      BY <1>0, <3>1, TypeParts, ExtendedType DEF PodsType, CountersType
    <3>3. AgentType' /\ CountersType'
      BY <1>0, <1>5, <2>2, <3>2, Moments DEF GetStatus, AgentType, CountersType
    <3>4. HistoryType'
      BY <1>5, <2>2, <3>1, TypeParts DEF GetStatus, HistoryType
    <3>5. QED
      BY <1>5, <2>2, <3>3, <3>4, TypeParts, KeptTypes DEF GetStatus
  <2>3. QED
    BY <2>1, <2>2
<1>6. CASE PutDeletionTime
  <2>1. event.pod \in Pods
    BY <1>0, <1>6, EventAtHand DEF PutDeletionTime
  <2>2. PodsType'
    BY <1>0, <1>6, <2>1, TypeParts DEF PutDeletionTime, PodsType, AgentType
  <2>3. HistoryType'
    BY <1>0, <1>6, <2>1, TypeParts DEF PutDeletionTime, HistoryType, AgentType, history
  <2>4. AgentType' /\ CountersType'
    BY <1>0, <1>6, FaultType DEF PutDeletionTime, AgentType, CountersType
  <2>5. QED
    BY <1>6, <2>2, <2>3, <2>4, TypeParts, KeptTypes DEF PutDeletionTime
<1>7. CASE Announce
  <2>1. CASE AgentEnds
    BY <1>3, <1>7, <2>1 DEF Announce, AgentEnds, AgentStep
  <2>2. CASE ~AgentEnds
    <3>1. AgentType' /\ CountersType'
      BY <1>0, <1>7, <2>2 DEF Announce, AgentStep, AgentType, CountersType
    <3>2. QED
      BY <1>7, <2>2, <3>1, TypeParts, KeptTypes DEF Announce, AgentStep
  <2>3. QED
    BY <2>1, <2>2
<1>8. CASE Ack \/ AgentRestarts
  <2>1. AgentType' /\ CountersType'
    BY <1>0, <1>8, Moments DEF Ack, AgentRestarts, AgentStep, AgentType, CountersType
  <2>2. QED
    BY <1>8, <2>1, TypeParts, KeptTypes DEF Ack, AgentRestarts, AgentStep
<1>9. CASE AgentKilled
  BY <1>3, <1>9 DEF AgentKilled
<1>10. QED
  BY <1>1, <1>4, <1>5, <1>6, <1>7, <1>8, <1>9 DEF Agent

\* Every step keeps the types.
LEMMA TypeNext == TypeOK /\ [Next]_vars => TypeOK'
<1>1. TypeOK /\ UNCHANGED vars => TypeOK'
  BY TypeParts, KeptTypes DEF vars
<1>2. QED
  BY <1>1, WorldTypes, ManagerTypes, AgentTypes DEF Next

\* The variables keep their types, for every number of pods, clicks and faults.
THEOREM TypeCorrect == Spec => []TypeOK
<1>1. Init => TypeOK
  BY Moments, AgentBounds DEF Init, TypeOK, Managed
<1>2. QED
  BY <1>1, TypeNext, PTL DEF Spec

-----------------------------------------------------------------------------
(* The limit.                                                              *)

\* The time the agent is about to set is within the limit, and so is one that is set before
\* the manager has seen that the pod has finished.
CapInv ==
    /\ LifetimeIsCapped
    /\ \A p \in Pods : managed[p] = "fresh" /\ deletionTime[p].set =>
          deletionTime[p].time <= clock + LimitHours
    /\ apc = "put" => target.set /\ target.time <= clock + LimitHours

\* The Delete button sets a time before the beginning.
LEMMA ZeroIsPast == ZeroTime \in Int /\ ZeroTime < 0
<1>1. ExtendHours \in Nat /\ Cardinality(Clicks) + MaxFaults \in Nat
  BY HoursAssumption, AgentBounds, FS_CardinalityType
<1>2. ExtendHours * (Cardinality(Clicks) + MaxFaults) \in Nat
  BY <1>1
<1>3. QED
  BY <1>2, ZeroTimeAssumption

\* A step that sets no time keeps what is set within the limit.
LEMMA NoTimeSet ==
    ASSUME TypeOK, CapInv, clock' \in Nat, clock' >= clock, UNCHANGED <<finishedAt, deletionTime>>,
           \A p \in Pods : managed'[p] = "fresh" => managed[p] = "fresh",
           apc' = "put" => apc = "put" /\ UNCHANGED target
    PROVE  CapInv'
<1> USE DEF CapInv, LifetimeIsCapped
<1>1. clock \in Nat /\ LimitHours \in Nat
  BY HoursAssumption, AgentBounds DEF TypeOK
<1>2. \A p \in Pods : deletionTime[p].time \in Int
  BY DEF TypeOK, Moment
<1>3. target.time \in Int
  BY DEF TypeOK, Moment
<1>4. LifetimeIsCapped'
  BY <1>1, <1>2
<1>5. QED
  BY <1>1, <1>2, <1>3, <1>4

\* Every step keeps the times within the limit.
LEMMA CapNext == TypeOK /\ CapInv /\ [Next]_vars => CapInv'
<1> SUFFICES ASSUME TypeOK, CapInv, [Next]_vars PROVE CapInv'
  OBVIOUS
<1>0. clock \in Nat /\ LimitHours \in Nat
  BY HoursAssumption DEF TypeOK
<1>1. CASE Tick \/ UNCHANGED vars
  BY <1>0, <1>1, NoTimeSet DEF Tick, vars, podState, agentVars
<1>2. ASSUME NEW p \in Pods,
             PodLost(p) \/ FindExpired(p) \/ DeletePod(p)
             \/ \E c \in Clicks, b \in {"extend", "delete"} : Click(c, p, b)
      PROVE  CapInv'
  BY <1>0, <1>2, NoTimeSet
     DEF PodLost, FindExpired, DeletePod, Click, podState, agentVars, TypeOK
<1>3. ASSUME NEW p \in Pods, PostResult(p) PROVE CapInv'
  <2>1. /\ managed[p] = "fresh" /\ managed' = [managed EXCEPT ![p] = "posted"]
        /\ finishedAt' = [finishedAt EXCEPT ![p] = clock]
        /\ UNCHANGED <<clock, deletionTime, apc, target>>
    BY <1>3 DEF PostResult, agentVars
  <2>2. QED
    BY <2>1 DEF CapInv, LifetimeIsCapped, TypeOK
<1>4. ASSUME NEW p \in Pods, SetFirstTime(p) PROVE CapInv'
  <2>1. /\ managed' = [managed EXCEPT ![p] = "put"] /\ UNCHANGED <<clock, finishedAt, apc, target>>
        /\ \/ deletionTime' = [deletionTime EXCEPT ![p] = At(finishedAt[p] + ExtendDuration)]
           \/ UNCHANGED deletionTime
    BY <1>4 DEF SetFirstTime, agentVars
  <2>2. CASE UNCHANGED deletionTime
    BY <2>1, <2>2 DEF CapInv, LifetimeIsCapped, TypeOK
  <2>3. CASE deletionTime' = [deletionTime EXCEPT ![p] = At(finishedAt[p] + ExtendDuration)]
    <3>1. At(finishedAt[p] + ExtendDuration).time = finishedAt[p] + ExtendDuration
      BY Moments, HoursAssumption DEF TypeOK
    <3>2. QED
      BY <2>1, <2>3, <3>1 DEF CapInv, LifetimeIsCapped, TypeOK
  <2>4. QED
    BY <2>1, <2>2, <2>3
<1>5. CASE AgentKilled \/ Announce \/ Ack \/ AgentRestarts \/ \E e \in pending : ReceiveEvent(e)
  BY <1>0, <1>5, NoTimeSet
     DEF AgentKilled, AgentEnds, Announce, Ack, AgentRestarts, AgentStep, ReceiveEvent, podState
<1>6. CASE GetPod \/ GetStatus
  <2>1. UNCHANGED <<clock, managed, finishedAt, deletionTime>>
    BY <1>6 DEF GetPod, GetStatus, AgentStep, AgentEnds, podState
  <2>2. event.pod \in Pods
    BY <1>6, EventAtHand, TypeParts DEF GetPod, GetStatus
  <2>3. apc' = "put" => target'.set /\ target'.time <= clock + LimitHours
    <3>1. CASE GetPod
      <4>1. apc' = "put" => target' = At(ZeroTime)
        BY <3>1 DEF GetPod, AgentStep, AgentEnds
      <4>2. QED
        BY <1>0, <4>1, ZeroIsPast, Moments
    <3>2. CASE GetStatus
      <4>1. apc' = "put" => target' = At(Extended(deletionTime[event.pod], clock))
        BY <3>2 DEF GetStatus, AgentEnds
      <4>2. deletionTime[event.pod] \in Moment
        BY <2>2 DEF TypeOK
      <4>3. QED
        BY <1>0, <4>1, <4>2, Moments, ExtendedType
    <3>3. QED
      BY <1>6, <3>1, <3>2
  <2>4. QED
    BY <2>1, <2>3 DEF CapInv, LifetimeIsCapped
<1>7. CASE PutDeletionTime
  <2>1. /\ apc = "put" /\ apc' = "announce" /\ UNCHANGED <<clock, managed, finishedAt>>
        /\ \/ deletionTime' = [deletionTime EXCEPT ![event.pod] = target]
           \/ UNCHANGED deletionTime
    BY <1>7 DEF PutDeletionTime
  <2>2. QED
    BY <2>1 DEF CapInv, LifetimeIsCapped, TypeOK
<1>8. QED
  BY <1>1, <1>2, <1>3, <1>4, <1>5, <1>6, <1>7 DEF Next, Manager, Agent

\* Whatever users click and Slack repeats, the time of a pod lies no further ahead than the
\* limit of the agent or the extension of its pool.
THEOREM LifetimeCapped == Spec => []LifetimeIsCapped
<1>1. Init => CapInv
  BY DEF Init, CapInv, LifetimeIsCapped, Nil
<1>2. CapInv => LifetimeIsCapped
  BY DEF CapInv
<1>3. QED
  BY <1>1, <1>2, CapNext, TypeCorrect, PTL DEF Spec

-----------------------------------------------------------------------------
(* What was promised.                                                      *)

\* Nothing is clicked that the manager has not posted.
ClickInv ==
    /\ \A p \in buttons : managed[p] # "fresh"
    /\ \A e \in pending : e.pod \in buttons
    /\ event # NoEvent => event.pod \in buttons

Visited == {"put", "expired", "gone"}

\* A time that was set without a race is set in a pod the manager has visited: it is the
\* time the manager works with.
PromiseInv ==
    /\ \A p \in Pods : finishedAt[p] <= clock
    /\ \A p \in Pods : managed[p] = "fresh" => ~deletionTime[p].set /\ ~promised[p].set
    /\ \A p \in Pods : deletionTime[p].set /\ raced[p] = {} => managed[p] \in Visited
    /\ \A p \in Pods : promised[p].set /\ "put" \notin raced[p] =>
          /\ managed[p] \in Visited /\ deletionTime[p] = promised[p]
          /\ managed[p] = "expired" => clock > promised[p].time

\* An extension that has been computed without a race does not shorten the time it replaces.
ExtendInv ==
    apc = "put" /\ event.button = "extend" /\ raced[event.pod] = {} =>
        deletionTime[event.pod].set /\ NotShortened(event.pod, target.time)

\* The buttons of a pod appear when its result is posted, and clicks need buttons.
LEMMA ClickNext == TypeOK /\ ClickInv /\ [Next]_vars => ClickInv'
<1> SUFFICES ASSUME TypeOK, ClickInv, [Next]_vars PROVE ClickInv'
  OBVIOUS
<1> USE DEF ClickInv
<1>1. CASE Tick \/ UNCHANGED vars
  BY <1>1 DEF Tick, vars, podState, slackVars, agentVars
<1>2. ASSUME NEW p \in Pods, PodLost(p) \/ FindExpired(p) \/ SetFirstTime(p) \/ DeletePod(p)
      PROVE  ClickInv'
  BY <1>2 DEF PodLost, FindExpired, SetFirstTime, DeletePod, slackVars, agentVars, TypeOK
<1>3. ASSUME NEW p \in Pods, PostResult(p) PROVE ClickInv'
  BY <1>3 DEF PostResult, agentVars, TypeOK
<1>4. ASSUME NEW p \in Pods, NEW c \in Clicks, NEW b \in {"extend", "delete"}, Click(c, p, b)
      PROVE  ClickInv'
  BY <1>4 DEF Click, podState, agentVars
<1>5. ASSUME AgentEnds PROVE ClickInv'
  BY <1>5 DEF AgentEnds, podState
<1>6. ASSUME UNCHANGED <<managed, slackVars>>, event' \in {event, NoEvent} PROVE ClickInv'
  BY <1>6 DEF slackVars
<1>7. ASSUME NEW e \in pending, ReceiveEvent(e) PROVE ClickInv'
  BY <1>7 DEF ReceiveEvent, podState
<1>8. CASE GetPod \/ GetStatus \/ PutDeletionTime \/ Announce \/ Ack \/ AgentRestarts \/ AgentKilled
  BY <1>5, <1>6, <1>8 DEF GetPod, GetStatus, PutDeletionTime, Announce, Ack, AgentRestarts,
                          AgentKilled, AgentStep, podState
<1>9. QED
  BY <1>1, <1>2, <1>3, <1>4, <1>7, <1>8 DEF Next, Manager, Agent

\* The pod of the event at hand has been posted.
LEMMA EventIsPosted ==
    ASSUME TypeOK, ClickInv, apc \notin {"down", "idle"}
    PROVE  event.pod \in Pods /\ managed[event.pod] # "fresh"
BY EventAtHand, TypeParts DEF ClickInv, AgentType

\* Promises are kept by every step.
LEMMA PromiseNext == TypeOK /\ ClickInv /\ PromiseInv /\ [Next]_vars => PromiseInv'
<1> SUFFICES ASSUME TypeOK, ClickInv, PromiseInv, [Next]_vars PROVE PromiseInv'
  OBVIOUS
<1> USE DEF PromiseInv, Visited
<1>0. /\ clock \in Nat
      /\ \A p \in Pods : deletionTime[p].time \in Int /\ promised[p].time \in Int
                         /\ finishedAt[p] \in Nat
  BY DEF TypeOK, Moment
<1>1. ASSUME UNCHANGED <<managed, finishedAt, deletionTime, promised>>,
             clock' \in Nat, clock' >= clock,
             \A p \in Pods : raced[p] \subseteq raced'[p]
      PROVE  PromiseInv'
  BY <1>0, <1>1
<1>2. CASE Tick \/ UNCHANGED vars
  BY <1>0, <1>1, <1>2 DEF Tick, vars, podState, history
<1>3. ASSUME NEW p \in Pods, PodLost(p) \/ PostResult(p) \/ DeletePod(p) PROVE PromiseInv'
  BY <1>3 DEF PodLost, PostResult, DeletePod, history, TypeOK
<1>4. ASSUME NEW p \in Pods, FindExpired(p) PROVE PromiseInv'
  <2>1. /\ managed[p] \in {"posted", "put"} /\ managed' = [managed EXCEPT ![p] = "expired"]
        /\ UNCHANGED <<clock, finishedAt, deletionTime, promised, raced>>
    BY <1>4 DEF FindExpired, history
  <2>2. promised[p].set /\ "put" \notin raced[p] => clock > promised[p].time
    BY <1>4, <2>1 DEF FindExpired, Expired, SeenTime
  <2>3. QED
    BY <2>1, <2>2 DEF TypeOK
<1>5. ASSUME NEW p \in Pods, SetFirstTime(p) PROVE PromiseInv'
  BY <1>5 DEF SetFirstTime, history, TypeOK
<1>6. ASSUME NEW p \in Pods, NEW c \in Clicks, NEW b \in {"extend", "delete"}, Click(c, p, b)
      PROVE  PromiseInv'
  BY <1>0, <1>1, <1>6 DEF Click, podState, history
<1>7. CASE GetPod \/ Announce \/ Ack \/ AgentRestarts \/ AgentKilled
           \/ \E e \in pending : ReceiveEvent(e)
  BY <1>0, <1>1, <1>7 DEF GetPod, Announce, Ack, AgentRestarts, AgentKilled, ReceiveEvent,
                          AgentEnds, AgentStep, podState, history
<1>8. CASE GetStatus
  <2>1. UNCHANGED <<clock, managed, finishedAt, deletionTime, promised>>
    BY <1>8 DEF GetStatus, AgentEnds, podState, history
  <2>2. \A p \in Pods : raced[p] \subseteq raced'[p]
    BY <1>8, EventIsPosted DEF GetStatus, AgentEnds, history, TypeOK
  <2>3. QED
    BY <1>0, <1>1, <2>1, <2>2
<1>9. CASE PutDeletionTime
  <2>1. /\ event.pod \in Pods /\ managed[event.pod] # "fresh"
        /\ UNCHANGED <<clock, managed, finishedAt>>
    BY <1>9, EventIsPosted DEF PutDeletionTime
  <2>2. CASE UNCHANGED <<deletionTime, history>>
    BY <1>0, <1>1, <2>1, <2>2 DEF history
  <2>3. CASE /\ Alive(event.pod)
             /\ deletionTime' = [deletionTime EXCEPT ![event.pod] = target]
             /\ promised' = [promised EXCEPT ![event.pod] = target]
             /\ raced' = IF managed[event.pod] \notin {"posted", "expired"} THEN raced
                         ELSE [raced EXCEPT ![event.pod] = @ \union {"put"}]
    <3>1. \A p \in Pods : p # event.pod =>
             /\ deletionTime'[p] = deletionTime[p] /\ promised'[p] = promised[p]
             /\ raced'[p] = raced[p]
      BY <2>1, <2>3 DEF TypeOK
    <3>2. deletionTime'[event.pod] = target /\ promised'[event.pod] = target
      BY <2>1, <2>3 DEF TypeOK
    <3>3. "put" \in raced'[event.pod] \/ managed[event.pod] = "put"
      BY <2>1, <2>3 DEF TypeOK, Managed, Alive
    <3>4. QED
      BY <2>1, <3>1, <3>2, <3>3
  <2>4. QED
    BY <1>9, <2>2, <2>3 DEF PutDeletionTime
<1>10. QED
  BY <1>2, <1>3, <1>4, <1>5, <1>6, <1>7, <1>8, <1>9 DEF Next, Manager, Agent

\* Every step keeps the account of the promises.
LEMMA PromiseInvariant == Spec => [](ClickInv /\ PromiseInv)
<1>1. Init => ClickInv /\ PromiseInv
  BY DEF Init, ClickInv, PromiseInv, Nil
<1>2. QED
  BY <1>1, ClickNext, PromiseNext, TypeCorrect, PTL DEF Spec

\* A pod is deleted before the time its users were promised only if a click has crossed the
\* manager's visit of the pod.
THEOREM EarlyOnlyInARace == Spec => EarlyDeletionIsARace
<1>1. PromiseInv /\ [Next]_vars =>
         [\A p \in Pods :
             /\ managed[p] = "expired" /\ managed'[p] = "gone" /\ faults' = faults
             /\ promised[p].set /\ "put" \notin raced[p]
             => clock > promised[p].time]_vars
  BY DEF PromiseInv
<1>2. QED
  BY <1>1, PromiseInvariant, PTL DEF Spec, EarlyDeletionIsARace

\* An extension is computed from the time it replaces, and the limit cuts it below that time
\* only when it was the manager's first one.
LEMMA ExtendNext ==
    ASSUME TypeOK, CapInv, ClickInv, PromiseInv, ExtendInv, [Next]_vars
    PROVE  ExtendInv'
<1> USE DEF ExtendInv
<1>1. ASSUME UNCHANGED <<apc, event, target, raced>>,
             apc = "put" /\ raced[event.pod] = {} /\ deletionTime[event.pod].set =>
                /\ deletionTime'[event.pod] = deletionTime[event.pod]
                /\ finishedAt'[event.pod] = finishedAt[event.pod]
      PROVE  ExtendInv'
  BY <1>1 DEF NotShortened
<1>2. ASSUME apc' # "put" PROVE ExtendInv'
  BY <1>2
<1>3. CASE Tick \/ UNCHANGED vars
  BY <1>1, <1>3 DEF Tick, vars, podState, agentVars, history
<1>4. ASSUME NEW p \in Pods,
             PodLost(p) \/ FindExpired(p) \/ DeletePod(p)
             \/ \E c \in Clicks, b \in {"extend", "delete"} : Click(c, p, b)
      PROVE  ExtendInv'
  BY <1>1, <1>4 DEF PodLost, FindExpired, DeletePod, Click, podState, agentVars, history
<1>4a. ASSUME NEW p \in Pods, PostResult(p) PROVE ExtendInv'
  <2>1. UNCHANGED <<apc, event, target, raced, deletionTime>> /\ managed[p] = "fresh"
    BY <1>4a DEF PostResult, agentVars, history
  <2>2. \A q \in Pods : q # p => finishedAt'[q] = finishedAt[q]
    BY <1>4a DEF PostResult, TypeOK
  <2>3. apc = "put" => event.pod \in Pods /\ event.pod # p
    BY <2>1, EventIsPosted
  <2>4. QED
    BY <1>1, <2>1, <2>2, <2>3
<1>5. ASSUME NEW p \in Pods, SetFirstTime(p) PROVE ExtendInv'
  <2>1. UNCHANGED <<apc, event, target, raced, finishedAt>> /\ managed[p] = "posted"
    BY <1>5 DEF SetFirstTime, agentVars, history
  <2>2. \A q \in Pods : q # p => deletionTime'[q] = deletionTime[q]
    BY <1>5 DEF SetFirstTime, TypeOK
  <2>3. apc = "put" /\ raced[event.pod] = {} /\ deletionTime[event.pod].set => event.pod # p
    BY <2>1 DEF PromiseInv, Visited
  <2>4. apc = "put" => event.pod \in Pods
    BY EventIsPosted
  <2>5. QED
    BY <1>1, <2>1, <2>2, <2>3, <2>4
<1>6. CASE PutDeletionTime \/ Announce \/ Ack \/ AgentRestarts \/ AgentKilled
           \/ \E e \in pending : ReceiveEvent(e)
  BY <1>2, <1>6 DEF PutDeletionTime, Announce, Ack, AgentRestarts, AgentKilled, AgentEnds,
                    AgentStep, ReceiveEvent
<1>7. CASE GetPod
  BY <1>7 DEF GetPod, AgentStep, AgentEnds
<1>8. CASE GetStatus
  <2>1. event.pod \in Pods
    BY <1>8, EventIsPosted DEF GetStatus
  <2>2. CASE AgentEnds
    BY <1>2, <2>2 DEF AgentEnds
  <2>3. CASE ~AgentEnds
    <3>1. /\ target' = At(Extended(deletionTime[event.pod], clock))
          /\ UNCHANGED <<event, deletionTime, finishedAt>>
          /\ raced' = IF deletionTime[event.pod].set THEN raced
                      ELSE [raced EXCEPT ![event.pod] = @ \union {"status"}]
      BY <1>8, <2>3 DEF GetStatus, podState
    <3>2. raced'[event.pod] = {} => deletionTime[event.pod].set
      BY <2>1, <3>1 DEF TypeOK
    <3>3. clock \in Nat /\ finishedAt[event.pod] \in Nat /\ deletionTime[event.pod] \in Moment
      BY <2>1 DEF TypeOK
    <3>4. Extended(deletionTime[event.pod], clock) \in Int
      BY <3>3, ExtendedType
    <3>5. finishedAt[event.pod] <= clock
      BY <2>1 DEF PromiseInv
    <3>6. target'.time = Extended(deletionTime[event.pod], clock)
      BY <3>1, <3>3, <3>4, Moments
    <3>7. ASSUME deletionTime[event.pod].set PROVE NotShortened(event.pod, target'.time)
      <4>1. CASE deletionTime[event.pod].time <= clock + LimitHours
        BY <3>3, <3>6, <3>7, <4>1, ExtendedType DEF NotShortened
      <4>2. CASE ~(deletionTime[event.pod].time <= clock + LimitHours)
        <5>1. deletionTime[event.pod].time = finishedAt[event.pod] + ExtendDuration
          BY <2>1, <3>7, <4>2 DEF CapInv, LifetimeIsCapped
        <5>2. target'.time = clock + LimitHours
          BY <3>3, <3>6, <3>7, <4>2, ExtendedType, HoursAssumption DEF Moment
        <5>3. QED
          BY <3>3, <3>5, <4>2, <5>1, <5>2, HoursAssumption DEF NotShortened
      <4>3. QED
        BY <4>1, <4>2
    <3>8. NotShortened(event.pod, target'.time) => NotShortened(event.pod, target.time)'
      BY <3>1 DEF NotShortened
    <3>9. QED
      BY <3>1, <3>2, <3>7, <3>8
  <2>4. QED
    BY <2>2, <2>3
<1>9. QED
  BY <1>3, <1>4, <1>5, <1>6, <1>7, <1>8, <1>4a DEF Next, Manager, Agent

\* A click on Extend that crosses nothing does not bring the deletion forward, however long
\* the extension of the pool is; but where it is longer than the limit, the manager's first
\* time is cut, and never to less than the limit after the job was found finished.
THEOREM ExtendsNeverShorten == Spec => ExtendNeverShortens
<1>1. Init => CapInv /\ ExtendInv
  BY DEF Init, CapInv, LifetimeIsCapped, ExtendInv, Nil
<1>2. TypeOK /\ CapInv /\ ClickInv /\ PromiseInv /\ ExtendInv /\ [Next]_vars =>
         CapInv' /\ ExtendInv'
  BY CapNext, ExtendNext
<1>3. TypeOK /\ ClickInv /\ PromiseInv /\ ExtendInv /\ [Next]_vars =>
         [\A p \in Pods :
             /\ apc = "put" /\ event.pod = p /\ event.button = "extend"
             /\ deletionTime[p].set /\ raced'[p] = {}
             => NotShortened(p, deletionTime'[p].time)]_vars
  <2> SUFFICES ASSUME TypeOK, ClickInv, PromiseInv, ExtendInv, Next, NEW p \in Pods, apc = "put",
                      event.pod = p, event.button = "extend", deletionTime[p].set, raced'[p] = {}
               PROVE  NotShortened(p, deletionTime'[p].time)
    BY DEF vars, podState, history
  <2>0. deletionTime[p].time \in Int
    BY DEF TypeOK, Moment
  <2>1. ASSUME deletionTime'[p] = deletionTime[p]
        PROVE  NotShortened(p, deletionTime'[p].time)
    BY <2>0, <2>1 DEF NotShortened
  <2>2. CASE PutDeletionTime
    <3>1. raced[p] = {}
      BY <2>2 DEF PutDeletionTime, TypeOK, history
    <3>2. NotShortened(p, target.time)
      BY <3>1 DEF ExtendInv
    <3>3. deletionTime' = [deletionTime EXCEPT ![p] = target] \/ UNCHANGED deletionTime
      BY <2>2 DEF PutDeletionTime
    <3>4. QED
      BY <2>1, <3>2, <3>3 DEF TypeOK
  <2>3. ASSUME NEW q \in Pods, SetFirstTime(q) PROVE NotShortened(p, deletionTime'[p].time)
    <3>1. managed[q] = "posted" /\ raced' = raced
      BY <2>3 DEF SetFirstTime, history
    <3>2. q # p
      BY <3>1 DEF PromiseInv, Visited
    <3>3. QED
      BY <2>1, <2>3, <3>2 DEF SetFirstTime, TypeOK
  <2>4. CASE ~PutDeletionTime /\ ~\E q \in Pods : SetFirstTime(q)
    <3>1. UNCHANGED deletionTime
      BY <2>4 DEF Next, Manager, Agent, Tick, AgentKilled, AgentEnds, PodLost, Click, PostResult,
                  FindExpired, DeletePod, ReceiveEvent, GetPod, GetStatus, Announce, Ack,
                  AgentRestarts, AgentStep, podState
    <3>2. QED
      BY <2>1, <3>1
  <2>5. QED
    BY <2>2, <2>3, <2>4
<1>4. QED
  BY <1>1, <1>2, <1>3, TypeCorrect, PromiseInvariant, PTL DEF Spec, ExtendNeverShortens

-----------------------------------------------------------------------------
(* What was given up.                                                      *)

\* How many events can still move a deletion time: the clicks that are not made yet, the
\* events that are pending, the one at hand up to its PUT, and the faults that can have one
\* delivered again.
InHand == IF apc \in {"get", "status", "put"} THEN 1 ELSE 0
Left   == Cardinality(unused) + Cardinality(pending) + InHand + (MaxFaults - faults)
Total  == Cardinality(Clicks) + MaxFaults

\* A time so far back that n extensions leave it in the past.
FarBack(t, n) == t + ExtendHours * n <= ZeroTime + ExtendHours * Total

\* There are no more events left than there were in the beginning.
CountInv == IsFiniteSet(unused) /\ IsFiniteSet(pending) /\ Left <= Total

\* A time before the beginning comes from the zero time of the Delete button, and every
\* extension since has used up an event.  A pod that was given up is at such a time, and
\* the agent does not set it another one.
GivenUpInv ==
    /\ \A p \in Pods : deletionTime[p].set /\ deletionTime[p].time < 0 =>
          FarBack(deletionTime[p].time, Left)
    /\ apc = "put" /\ target.time < 0 => FarBack(target.time, Left - 1)
    /\ apc = "put" /\ promised[event.pod].set /\ promised[event.pod].time < 0
          /\ "put" \notin raced[event.pod] => target.time < 0

\* Hours are multiples of the extension.
LEMMA Hours ==
    ASSUME NEW t \in Int, NEW m \in Nat, NEW n \in Nat
    PROVE  /\ m <= n /\ FarBack(t, n) => FarBack(t, m)
           /\ FarBack(t, n + 1) => FarBack(t + ExtendHours, n)
           /\ n <= Total => FarBack(ZeroTime, n)
           /\ n <= Total /\ FarBack(t, n) => t < 0
<1>1. ExtendHours \in Nat /\ ZeroTime \in Int /\ Total \in Nat
  BY HoursAssumption, ZeroTimeAssumption, AgentBounds, FS_CardinalityType DEF Total
<1>2. ASSUME NEW i \in Nat, NEW j \in Nat, i <= j PROVE ExtendHours * i <= ExtendHours * j
  <2>1. PICK d \in Nat : j = i + d
    BY <1>2
  <2>2. ExtendHours * (i + d) = ExtendHours * i + ExtendHours * d
    BY <1>1
  <2>3. ExtendHours * d \in Nat /\ ExtendHours * i \in Nat
    BY <1>1
  <2>4. QED
    BY <2>1, <2>2, <2>3
<1>3. ExtendHours * (n + 1) = ExtendHours * n + ExtendHours
  BY <1>1
<1>4. ZeroTime + ExtendHours * Total < 0
  BY ZeroTimeAssumption DEF Total
<1>5. ExtendHours * m \in Nat /\ ExtendHours * n \in Nat /\ ExtendHours * Total \in Nat
  BY <1>1
<1>6. QED
  BY <1>1, <1>2, <1>3, <1>4, <1>5 DEF FarBack

\* An element adds one to a set at most.
LEMMA OneMore ==
    ASSUME NEW S, IsFiniteSet(S), NEW x
    PROVE  IsFiniteSet(S \cup {x}) /\ Cardinality(S \cup {x}) <= Cardinality(S) + 1
<1>1. Cardinality(S) \in Nat
  BY FS_CardinalityType
<1>2. /\ IsFiniteSet(S \cup {x})
      /\ Cardinality(S \cup {x}) = IF x \in S THEN Cardinality(S) ELSE Cardinality(S) + 1
  BY FS_AddElement
<1>3. QED
  BY <1>1, <1>2

\* An event that may be delivered again is pending once.
LEMMA PendingAgain ==
    ASSUME CountInv, AgentEnds, TypeOK
    PROVE  /\ IsFiniteSet(pending') /\ unused' = unused
           /\ Cardinality(pending') <= Cardinality(pending) + (IF event = NoEvent THEN 0 ELSE 1)
<1>1. IsFiniteSet(pending)
  BY DEF CountInv
<1>2. CASE event = NoEvent
  <2>1. pending' \in SUBSET pending
    BY <1>2 DEF AgentEnds
  <2>2. QED
    BY <1>1, <1>2, <2>1, FS_Subset, FS_CardinalityType DEF AgentEnds
<1>3. CASE event # NoEvent
  <2>1. pending' \in SUBSET (pending \union {event})
    BY <1>3 DEF AgentEnds
  <2>2. /\ IsFiniteSet(pending \union {event})
        /\ Cardinality(pending \union {event}) <= Cardinality(pending) + 1
    BY <1>1, OneMore
  <2>3. IsFiniteSet(pending') /\ Cardinality(pending') <= Cardinality(pending \union {event})
    BY <2>1, <2>2, FS_Subset
  <2>4. QED
    BY <1>1, <1>3, <2>2, <2>3, FS_CardinalityType DEF AgentEnds
<1>4. QED
  BY <1>2, <1>3

\* No step makes events, and a PUT uses one up.
LEMMA CountNext ==
    ASSUME TypeOK, CountInv, [Next]_vars
    PROVE  CountInv' /\ Left' <= Left /\ (PutDeletionTime => Left' <= Left - 1)
<1> USE DEF CountInv
<1>0. /\ Cardinality(unused) \in Nat /\ Cardinality(pending) \in Nat
      /\ faults \in 0..MaxFaults /\ MaxFaults \in Nat /\ Total \in Nat
  BY FS_CardinalityType, AgentBounds DEF TypeOK, Total
<1>1. ASSUME UNCHANGED <<unused, pending>>, InHand' <= InHand,
             faults' = faults \/ faults' = faults + 1
      PROVE  CountInv' /\ Left' <= Left
  BY <1>0, <1>1 DEF Left, InHand, Total
<1>2. CASE Tick \/ UNCHANGED vars
  <2>1. UNCHANGED <<slackVars, apc, faults>> /\ ~PutDeletionTime
    BY <1>2 DEF Tick, PutDeletionTime, vars, slackVars, agentVars
  <2>2. QED
    BY <1>1, <2>1 DEF slackVars, InHand
<1>3. ASSUME NEW p \in Pods, PodLost(p) \/ Manager(p)
      PROVE  CountInv' /\ Left' <= Left /\ ~PutDeletionTime
  <2>1. UNCHANGED <<unused, pending, apc>> /\ (faults' = faults \/ faults' = faults + 1)
    BY <1>3 DEF PodLost, Manager, PostResult, FindExpired, SetFirstTime, DeletePod, Fault,
                slackVars, agentVars
  <2>2. ~PutDeletionTime
    BY <2>1 DEF PutDeletionTime
  <2>3. QED
    BY <1>1, <2>1, <2>2 DEF InHand
<1>4. ASSUME NEW p \in Pods, NEW c \in Clicks, NEW b \in {"extend", "delete"}, Click(c, p, b)
      PROVE  CountInv' /\ Left' <= Left /\ ~PutDeletionTime
  <2>1. /\ c \in unused /\ unused' = unused \ {c} /\ UNCHANGED <<apc, faults>>
        /\ pending' = pending \union {[click |-> c, pod |-> p, button |-> b]}
    BY <1>4 DEF Click, agentVars
  <2>2. IsFiniteSet(unused') /\ Cardinality(unused') = Cardinality(unused) - 1
    BY <2>1, FS_RemoveElement
  <2>3. IsFiniteSet(pending') /\ Cardinality(pending') <= Cardinality(pending) + 1
    BY <2>1, OneMore
  <2>4. Cardinality(pending') \in Nat /\ Cardinality(unused') \in Nat
    BY <2>2, <2>3, FS_CardinalityType
  <2>5. ~PutDeletionTime
    BY <2>1 DEF PutDeletionTime
  <2>6. QED
    BY <1>0, <2>1, <2>2, <2>3, <2>4, <2>5 DEF Left, InHand, Total
<1>5. ASSUME NEW e \in pending, ReceiveEvent(e)
      PROVE  CountInv' /\ Left' <= Left /\ ~PutDeletionTime
  <2>1. /\ apc = "idle" /\ apc' = "get" /\ pending' = pending \ {e} /\ UNCHANGED <<unused, faults>>
    BY <1>5 DEF ReceiveEvent
  <2>2. IsFiniteSet(pending') /\ Cardinality(pending') = Cardinality(pending) - 1
    BY <2>1, FS_RemoveElement
  <2>3. QED
    BY <1>0, <2>1, <2>2 DEF Left, InHand, Total, PutDeletionTime
<1>6. ASSUME AgentEnds, faults' = faults + 1 \/ (faults' = faults /\ InHand = 1)
      PROVE  CountInv' /\ Left' <= Left /\ ~PutDeletionTime
  <2>1. apc' = "down" /\ InHand' = 0
    BY <1>6 DEF AgentEnds, InHand
  <2>2. Cardinality(pending') \in Nat
    BY <1>6, PendingAgain, FS_CardinalityType
  <2>3. QED
    BY <1>0, <1>6, <2>1, <2>2, PendingAgain DEF Left, Total, InHand, PutDeletionTime
<1>7. CASE GetPod \/ GetStatus \/ Announce \/ AgentKilled
  <2>1. CASE AgentEnds
    <3>1. faults' = faults + 1 \/ (faults' = faults /\ InHand = 1)
      BY <1>7, <2>1 DEF GetPod, GetStatus, Announce, AgentKilled, AgentStep, AgentEnds, Fault,
                        InHand
    <3>2. QED
      BY <1>6, <2>1, <3>1
  <2>2. CASE ~AgentEnds
    <3>1. UNCHANGED <<slackVars, faults>> /\ InHand' <= InHand
      BY <1>7, <2>2 DEF GetPod, GetStatus, Announce, AgentKilled, AgentStep, InHand
    <3>2. apc' # "announce"
      BY <1>7, <2>2 DEF GetPod, GetStatus, Announce, AgentKilled, AgentStep
    <3>3. QED
      BY <1>1, <3>1, <3>2 DEF slackVars, PutDeletionTime
  <2>3. QED
    BY <2>1, <2>2
<1>8. CASE Ack \/ AgentRestarts
  <2>1. UNCHANGED <<slackVars, faults>> /\ apc' = "idle"
    BY <1>8 DEF Ack, AgentRestarts, AgentStep
  <2>2. InHand' <= InHand /\ ~PutDeletionTime
    BY <2>1 DEF InHand, PutDeletionTime
  <2>3. QED
    BY <1>1, <2>1, <2>2 DEF slackVars
<1>9. CASE PutDeletionTime
  <2>1. /\ apc = "put" /\ apc' = "announce" /\ UNCHANGED slackVars
        /\ faults' = faults \/ faults' = faults + 1
    BY <1>9 DEF PutDeletionTime, Fault
  <2>2. QED
    BY <1>0, <2>1 DEF Left, InHand, Total, slackVars
<1>10. QED
  BY <1>2, <1>3, <1>4, <1>5, <1>7, <1>8, <1>9, <1>1 DEF Next, Agent

\* What Slack and the users can still do is a number, with at least the event at hand.
LeftType ==
    /\ Left \in Nat /\ Total \in Nat /\ Left <= Total
    /\ apc = "put" => Left - 1 \in Nat /\ Left - 1 <= Total

LEMMA LeftIsNumber == TypeOK /\ CountInv => LeftType
<1> SUFFICES ASSUME TypeOK, CountInv PROVE LeftType
  OBVIOUS
<1>1. Cardinality(unused) \in Nat /\ Cardinality(pending) \in Nat /\ Cardinality(Clicks) \in Nat
  BY FS_CardinalityType, AgentBounds DEF CountInv
<1>2. MaxFaults - faults \in Nat /\ MaxFaults \in Nat
  BY TypeParts, AgentBounds DEF CountersType
<1>3. Left \in Nat /\ Total \in Nat
  BY <1>1, <1>2 DEF Left, InHand, Total
<1>4. apc = "put" => Left - 1 \in Nat
  BY <1>1, <1>2 DEF Left, InHand
<1>5. QED
  BY <1>3, <1>4 DEF CountInv, LeftType

\* So it is after a step.
LEMMA EventsLeft ==
    TypeOK /\ CountInv /\ [Next]_vars =>
        /\ Left \in Nat /\ Left' \in Nat /\ Left' <= Left /\ Total \in Nat
        /\ apc = "put" => Left - 1 \in Nat
        /\ apc' = "put" => /\ Left' - 1 \in Nat /\ Left' - 1 <= Left - 1 /\ Left' - 1 <= Total
                          /\ Left - 1 \in Nat /\ Left - 1 <= Total
<1>1. TypeOK' /\ CountInv' => LeftType'
  BY LeftIsNumber, PTL
<1>2. TypeOK /\ CountInv /\ [Next]_vars => LeftType /\ LeftType' /\ Left' <= Left
  BY <1>1, LeftIsNumber, TypeNext, CountNext
<1>3. QED
  BY <1>2 DEF LeftType

\* An extension of a time before the beginning is not cut by the limit, and only such a time
\* is extended to one.
LEMMA ExtendedBack ==
    ASSUME NEW seen \in Moment, NEW now \in Nat
    PROVE  /\ seen.set => Extended(seen, now) <= seen.time + ExtendHours
           /\ Extended(seen, now) < 0 =>
                 seen.set /\ seen.time < 0 /\ Extended(seen, now) = seen.time + ExtendHours
BY HoursAssumption DEF Extended, Moment

\* Times before the beginning stay far back, however the events are ordered.
LEMMA GivenUpNext ==
    ASSUME TypeOK, CountInv, ClickInv, PromiseInv, GivenUpInv, [Next]_vars
    PROVE  GivenUpInv'
<1> USE DEF GivenUpInv
<1>0. /\ Left \in Nat /\ Left' \in Nat /\ Left' <= Left
      /\ apc = "put" => Left - 1 \in Nat
      /\ apc' = "put" => /\ Left' - 1 \in Nat /\ Left' - 1 <= Left - 1 /\ Left' - 1 <= Total
                        /\ Left - 1 \in Nat /\ Left - 1 <= Total
  BY EventsLeft
<1>1. /\ target.time \in Int
      /\ \A p \in Pods : deletionTime[p] \in Moment /\ deletionTime[p].time \in Int
  BY DEF TypeOK, Moment
<1>2. ASSUME NEW p \in Pods, deletionTime'[p] = deletionTime[p]
      PROVE  deletionTime'[p].set /\ deletionTime'[p].time < 0 =>
                 FarBack(deletionTime'[p].time, Left')
  BY <1>0, <1>1, <1>2, Hours
<1>3. ASSUME UNCHANGED deletionTime, apc' # "put" PROVE GivenUpInv'
  BY <1>2, <1>3
<1>4. ASSUME UNCHANGED agentVars, UNCHANGED history
      PROVE  /\ apc' = "put" /\ target'.time < 0 => FarBack(target'.time, Left' - 1)
             /\ apc' = "put" /\ promised'[event'.pod].set /\ promised'[event'.pod].time < 0
                /\ "put" \notin raced'[event'.pod] => target'.time < 0
  <2>1. apc' = "put" /\ target'.time < 0 => FarBack(target.time, Left - 1)
    BY <1>4 DEF agentVars
  <2>2. apc' = "put" /\ target'.time < 0 => FarBack(target.time, Left' - 1)
    BY <1>0, <1>1, <1>4, <2>1, Hours DEF agentVars
  <2>3. QED
    BY <1>4, <2>2 DEF agentVars, history
<1>5. CASE \/ Tick \/ UNCHANGED vars
           \/ \E p \in Pods :
                 \/ PodLost(p) \/ PostResult(p) \/ FindExpired(p) \/ DeletePod(p)
                 \/ \E c \in Clicks, b \in {"extend", "delete"} : Click(c, p, b)
  <2>1. UNCHANGED agentVars /\ UNCHANGED history /\ UNCHANGED deletionTime
    BY <1>5 DEF Tick, vars, PodLost, PostResult, FindExpired, DeletePod, Click, podState, history
  <2>2. QED
    BY <1>2, <1>4, <2>1
<1>6. ASSUME NEW p \in Pods, SetFirstTime(p) PROVE GivenUpInv'
  <2>1. UNCHANGED agentVars /\ UNCHANGED history
    BY <1>6 DEF SetFirstTime
  <2>2. finishedAt[p] + ExtendDuration \in Nat
    BY HoursAssumption, AgentBounds DEF TypeOK
  <2>3. ASSUME NEW q \in Pods
        PROVE  deletionTime'[q] = deletionTime[q] \/ ~(deletionTime'[q].time < 0)
    BY <1>6, <2>2, Moments DEF SetFirstTime, TypeOK
  <2>4. QED
    BY <1>2, <1>4, <2>1, <2>3
<1>7. CASE Announce \/ Ack \/ AgentRestarts \/ AgentKilled \/ \E e \in pending : ReceiveEvent(e)
  BY <1>3, <1>7 DEF Announce, Ack, AgentRestarts, AgentKilled, AgentEnds, AgentStep, ReceiveEvent,
                    podState
<1>8. CASE GetPod
  <2>1. UNCHANGED deletionTime /\ (apc' = "put" => target' = At(ZeroTime))
    BY <1>8 DEF GetPod, AgentStep, AgentEnds, podState
  <2>2. apc' = "put" => target'.time = ZeroTime
    BY <2>1, Moments, ZeroIsPast
  <2>3. apc' = "put" => FarBack(ZeroTime, Left' - 1)
    BY <1>0, Hours, ZeroIsPast
  <2>4. QED
    BY <1>2, <2>1, <2>2, <2>3, ZeroIsPast
<1>9. CASE GetStatus
  <2>1. CASE apc' # "put"
    BY <1>3, <1>9, <2>1 DEF GetStatus, AgentEnds, podState
  <2>2. CASE apc' = "put"
    <3> DEFINE seen == deletionTime[event.pod]
    <3>1. /\ target' = At(Extended(seen, clock)) /\ UNCHANGED <<event, promised, deletionTime>>
          /\ raced' = IF seen.set THEN raced
                      ELSE [raced EXCEPT ![event.pod] = @ \union {"status"}]
      BY <1>9, <2>2 DEF GetStatus, AgentEnds, podState
    <3>2. event.pod \in Pods /\ clock \in Nat /\ seen \in Moment /\ seen.time \in Int
      BY <1>1, <1>9, EventIsPosted, AgentBounds DEF GetStatus, TypeOK
    <3>3. target'.time = Extended(seen, clock) /\ Extended(seen, clock) \in Int
      BY <3>1, <3>2, ExtendedType, Moments
    <3>4. Left - 1 \in Nat /\ Left' - 1 \in Nat /\ Left' - 1 <= Left - 1 /\ Left - 1 <= Total
      BY <1>0, <2>2
    <3>5. ASSUME seen.set, seen.time < 0
          PROVE  FarBack(seen.time + ExtendHours, Left - 1)
      <4>1. FarBack(seen.time, (Left - 1) + 1)
        BY <1>0, <3>2, <3>4, <3>5
      <4>2. QED
        BY <3>2, <3>4, <4>1, Hours
    <3>6. target'.time < 0 => FarBack(target'.time, Left' - 1)
      BY <3>2, <3>3, <3>4, <3>5, ExtendedBack, Hours, HoursAssumption
    <3>7. ASSUME promised[event.pod].set, promised[event.pod].time < 0,
                 "put" \notin raced'[event.pod]
          PROVE  target'.time < 0
      <4>1. "put" \notin raced[event.pod]
        BY <3>1, <3>2, <3>7 DEF TypeOK
      <4>2. seen = promised[event.pod]
        BY <3>2, <3>7, <4>1 DEF PromiseInv
      <4>3. FarBack(seen.time + ExtendHours, Left - 1)
        BY <3>5, <3>7, <4>2
      <4>4. seen.time + ExtendHours \in Int
        BY <3>2, HoursAssumption
      <4>5. seen.time + ExtendHours < 0
        BY <3>4, <4>3, <4>4, Hours
      <4>6. QED
        BY <3>2, <3>3, <3>7, <4>2, <4>4, <4>5, ExtendedBack
    <3>8. QED
      BY <1>2, <3>1, <3>6, <3>7
  <2>3. QED
    BY <2>1, <2>2
<1>10. CASE PutDeletionTime
  <2>1. /\ apc = "put" /\ apc' = "announce" /\ event.pod \in Pods
        /\ \/ deletionTime' = [deletionTime EXCEPT ![event.pod] = target]
           \/ UNCHANGED deletionTime
    BY <1>10, EventIsPosted DEF PutDeletionTime
  <2>2. Left' <= Left - 1
    BY <1>10, CountNext
  <2>3. target.time < 0 => FarBack(target.time, Left')
    BY <1>0, <1>1, <2>1, <2>2, Hours
  <2>4. ASSUME NEW q \in Pods
        PROVE  deletionTime'[q] = deletionTime[q] \/ deletionTime'[q] = target
    BY <2>1 DEF TypeOK
  <2>5. QED
    BY <1>2, <2>1, <2>3, <2>4
<1>11. QED
  BY <1>5, <1>6, <1>7, <1>8, <1>9, <1>10 DEF Next, Manager, Agent

\* A pod that was given up with nothing crossing the manager's visit stays given up: no
\* number of later, repeated and reordered events brings its deletion time back.
THEOREM DeletionFinal == Spec => DeletionIsFinal
<1>1. Init => CountInv /\ GivenUpInv
  <2> SUFFICES ASSUME Init PROVE CountInv /\ GivenUpInv
    OBVIOUS
  <2>1. Left = Total
    BY FS_EmptySet, FS_CardinalityType, AgentBounds DEF Init, Left, InHand, Total
  <2>2. IsFiniteSet(unused) /\ IsFiniteSet(pending) /\ Total \in Nat
    BY FS_EmptySet, FS_CardinalityType, AgentBounds DEF Init, Total
  <2>3. QED
    BY <2>1, <2>2 DEF Init, CountInv, GivenUpInv, Nil
<1>2. TypeOK /\ ClickInv /\ PromiseInv /\ CountInv /\ GivenUpInv /\ [Next]_vars =>
         CountInv' /\ GivenUpInv'
  BY CountNext, GivenUpNext
<1>3. TypeOK /\ ClickInv /\ PromiseInv /\ GivenUpInv /\ [Next]_vars =>
         [\A p \in Pods :
             promised[p].set /\ promised[p].time < 0 /\ "put" \notin raced[p]
             => deletionTime'[p].time < 0]_vars
  <2> SUFFICES ASSUME TypeOK, ClickInv, PromiseInv, GivenUpInv, Next, NEW p \in Pods,
                      promised[p].set, promised[p].time < 0, "put" \notin raced[p]
               PROVE  deletionTime'[p].time < 0
    BY DEF vars, podState, history
  <2>1. managed[p] \in Visited /\ deletionTime[p].time < 0
    BY DEF PromiseInv
  <2>2. CASE PutDeletionTime
    <3>1. \/ deletionTime' = [deletionTime EXCEPT ![event.pod] = target]
          \/ UNCHANGED deletionTime
      BY <2>2 DEF PutDeletionTime
    <3>2. event.pod = p => target.time < 0
      BY <2>2 DEF GivenUpInv, PutDeletionTime
    <3>3. QED
      BY <2>1, <3>1, <3>2 DEF TypeOK
  <2>3. ASSUME NEW q \in Pods, SetFirstTime(q) PROVE deletionTime'[p].time < 0
    <3>1. q # p
      BY <2>1, <2>3 DEF SetFirstTime, Visited
    <3>2. QED
      BY <2>1, <2>3, <3>1 DEF SetFirstTime, TypeOK
  <2>4. CASE ~PutDeletionTime /\ ~\E q \in Pods : SetFirstTime(q)
    <3>1. UNCHANGED deletionTime
      BY <2>4 DEF Next, Manager, Agent, Tick, AgentKilled, AgentEnds, PodLost, Click, PostResult,
                  FindExpired, DeletePod, ReceiveEvent, GetPod, GetStatus, Announce, Ack,
                  AgentRestarts, AgentStep, podState
    <3>2. QED
      BY <2>1, <3>1
  <2>5. QED
    BY <2>2, <2>3, <2>4
<1>4. QED
  BY <1>1, <1>2, <1>3, TypeCorrect, PromiseInvariant, PTL DEF Spec, DeletionIsFinal
=============================================================================
