------------------------- MODULE NotificationProofs -------------------------
(***************************************************************************)
(* Proofs about Notification, for any pods, channels, slack agents and     *)
(* specs.  The files of a pod only depend on the commands of its job       *)
(* (FilesInv), the address of the slack agent only on update() and the     *)
(* passes (AgentInv), and a message on both (MessageInv).                  *)
(***************************************************************************)
EXTENDS Notification, TLAPS

\* Where the process of the pool takes the address of the slack agent from.
AgentInv ==
    /\ serverURL = slackAgentServiceName /\ newest = slackAgentServiceName
    /\ pconf.agent \in Agents => slackAgentServiceName = pconf.agent
    /\ ~up => pass = NoPass
    /\ pass # NoPass /\ ~moved => pass = pconf

\* The writes of the file of the job info, and those of job-started.
InfoWrites    == {"truncate info", "write info"}
StartedWrites == InfoWrites \union {"truncate channel", "write channel"}
SetWrites     == {"truncate set", "write set"}

\* job-started is called once, and writes the job info before the channel.
InfoInv(p) ==
    /\ ~started[p] => ~completed[p] /\ cmd[p] \notin StartedWrites
    /\ cmd[p] \in InfoWrites => ~completed[p]
    /\ cmd[p] \in {"truncate channel", "write channel"} => infoFile[p] = "whole"
    /\ completed[p] => infoFile[p] = "whole"

\* The file of the channel holds what its last writer was given.
ChannelInv(p) ==
    /\ cmd[p] \in StartedWrites => arg[p] = env[p]
    /\ cmd[p] \in SetWrites /\ arg[p] = NoChannel => env[p] = NoChannel
    /\ last[p] = "set" => channelFile[p] = channelSet[p]
    /\ last[p] = "set" /\ channelSet[p] = NoChannel => env[p] = NoChannel
    /\ last[p] = "started" => channelFile[p] = env[p]
    /\ last[p] = "none" => channelFile[p] = "absent"

\* GET /status tells of a finished job what the files hold, and no command changes them.
StatusInv(p) ==
    job[p] = "finished" =>
        /\ cmd[p] = "none"
        /\ status[p].info = (infoFile[p] = "whole")
        /\ status[p].channel = readSlackChannel(p)

FilesInv == \A p \in Pods : InfoInv(p) /\ ChannelInv(p) /\ StatusInv(p)

\* A message is made of the status of its pod, a spec and the agent it was sent to.
MessageInv ==
    \A p \in Posted :
        /\ job[p] = "finished"
        /\ message[p].info = status[p].info
        /\ message[p].channel =
              FirstOf(status[p].channel, NoChannel, message[p].conf.channel,
                      AgentChannel[message[p].agent])

-----------------------------------------------------------------------------
\* A result that is accepted has a channel to be posted in.
LEMMA PostedType ==
    ASSUME TypeOK, NEW p \in Pods, pass # NoPass, Accepts(p)
    PROVE  PostedChannel(p) \in Channels
<1>1. status[p].channel \in Names /\ pass.channel \in Names /\ AgentChannel[serverURL] \in Names
  BY ConfsAssumption, AgentsAssumption DEF TypeOK
<1>2. PostedChannel(p) \in Names
  BY <1>1 DEF PostedChannel, RequestedChannel
<1>3. QED
  BY <1>2 DEF Accepts, Names

\* The initial state satisfies the invariants.
LEMMA NotificationInit == Init => TypeOK /\ FilesInv /\ AgentInv /\ MessageInv /\ AgentFollowsSpec
<1> SUFFICES ASSUME Init PROVE TypeOK /\ FilesInv /\ AgentInv /\ MessageInv /\ AgentFollowsSpec
  OBVIOUS
<1>1. TypeOK
  <2>1. JobNames \subseteq Names /\ NoChannel \in Names
    BY ChannelsAssumption DEF JobNames, Names
  <2>2. Blank \in [info : BOOLEAN, channel : Names]
    BY <2>1 DEF Blank
  <2>3. /\ env \in [Pods -> Names] /\ job \in [Pods -> {"running", "finished"}]
        /\ cmd \in [Pods -> Writes] /\ arg \in [Pods -> Names]
        /\ infoFile \in [Pods -> {"absent", "empty", "whole"}]
        /\ channelFile \in [Pods -> Names \union {"absent"}]
    BY <2>1 DEF Init, Writes
  <2>4. /\ status \in [Pods -> [info : BOOLEAN, channel : Names]]
        /\ message \in [Pods -> Messages \union {NoMessage}]
    BY <2>2 DEF Init
  <2>5. /\ conf \in Confs /\ pconf \in Confs /\ pass \in Confs \union {NoPass}
        /\ up \in BOOLEAN /\ moved \in BOOLEAN
        /\ slackAgentServiceName \in Agents /\ serverURL \in Agents /\ newest \in Agents
    BY DEF Init
  <2>6. /\ started \in [Pods -> BOOLEAN] /\ completed \in [Pods -> BOOLEAN]
        /\ calls \in [Pods -> 0..MaxCalls]
        /\ channelSet \in [Pods -> Names]
        /\ last \in [Pods -> {"none", "started", "set", "cut"}]
    BY <2>1, CallsAssumption DEF Init
  <2>7. QED
    BY <2>3, <2>4, <2>5, <2>6 DEF TypeOK
<1>2. FilesInv
  BY DEF Init, FilesInv, InfoInv, ChannelInv, StatusInv, StartedWrites, InfoWrites, SetWrites
<1>3. AgentInv
  BY DEF Init, AgentInv
<1>4. Posted = {}
  BY DEF Init, Posted
<1>5. QED
  BY <1>1, <1>2, <1>3, <1>4 DEF MessageInv, AgentFollowsSpec

\* The types of what the commands of a workflow change, and of the rest.
JobType ==
    /\ env \in [Pods -> Names] /\ job \in [Pods -> {"running", "finished"}]
    /\ cmd \in [Pods -> Writes] /\ arg \in [Pods -> Names]
    /\ infoFile \in [Pods -> {"absent", "empty", "whole"}]
    /\ channelFile \in [Pods -> Names \union {"absent"}]
    /\ status \in [Pods -> [info : BOOLEAN, channel : Names]]
    /\ started \in [Pods -> BOOLEAN] /\ completed \in [Pods -> BOOLEAN]
    /\ calls \in [Pods -> 0..MaxCalls]
    /\ channelSet \in [Pods -> Names] /\ last \in [Pods -> {"none", "started", "set", "cut"}]

PoolType ==
    /\ conf \in Confs /\ pconf \in Confs /\ pass \in Confs \union {NoPass}
    /\ up \in BOOLEAN /\ moved \in BOOLEAN
    /\ slackAgentServiceName \in Agents /\ serverURL \in Agents /\ newest \in Agents
    /\ message \in [Pods -> Messages \union {NoMessage}]

\* The types in two parts.
LEMMA TypeParts == TypeOK <=> JobType /\ PoolType
BY DEF TypeOK, JobType, PoolType

\* Types are preserved by every step.
LEMMA TypeNext == TypeOK /\ [Next]_vars => TypeOK'
<1> SUFFICES ASSUME TypeOK, [Next]_vars PROVE JobType' /\ PoolType'
  BY TypeParts, PTL
<1> JobType /\ PoolType
  BY TypeParts
<1> USE DEF jobVars, confVars, jobHistory, history
<1>1. JobNames \subseteq Names /\ NoChannel \in Names
  BY ChannelsAssumption DEF JobNames, Names
<1>2. ASSUME NEW p \in Pods, Workflow(p) PROVE JobType' /\ PoolType'
  <2>1. PoolType'
    BY <1>2 DEF Workflow, PoolType
  <2> USE DEF JobType
  <2>2. ASSUME JobStarted(p) PROVE JobType'
    BY <2>2 DEF JobStarted, Step, Writes
  <2>3. ASSUME NEW channel \in JobNames, SetChannel(p, channel) PROVE JobType'
    <3>1. calls' \in [Pods -> 0..MaxCalls]
      <4>1. calls \in [Pods -> 0..MaxCalls] /\ calls[p] < MaxCalls
        BY <2>3 DEF SetChannel
      <4>2. calls' = [calls EXCEPT ![p] = calls[p] + 1]
        BY <2>3 DEF SetChannel
      <4> HIDE DEF JobType
      <4>3. calls[p] + 1 \in 0..MaxCalls
        BY <4>1, CallsAssumption
      <4>4. QED
        BY <4>1, <4>2, <4>3
    <3>2. cmd' \in [Pods -> Writes] /\ arg' \in [Pods -> Names]
      BY <1>1, <2>3 DEF SetChannel, Step, Writes
    <3>3. QED
      BY <2>3, <3>1, <3>2 DEF SetChannel
  <2>4. ASSUME TruncateInfo(p) \/ WriteInfo(p) PROVE JobType'
    BY <2>4 DEF TruncateInfo, WriteInfo, Step, Writes
  <2>5. ASSUME TruncateChannel(p) PROVE JobType'
    BY <1>1, <2>5 DEF TruncateChannel, Step, Writes
  <2>9. ASSUME WriteChannel(p) PROVE JobType'
    <3>1. /\ channelFile' \in [Pods -> Names \union {"absent"}]
          /\ cmd' \in [Pods -> Writes]
      BY <2>9 DEF WriteChannel, Step, Writes
    <3>2. last' \in [Pods -> {"none", "started", "set", "cut"}] /\ completed' \in [Pods -> BOOLEAN]
      BY <2>9 DEF WriteChannel
    <3>3. channelSet' \in [Pods -> Names]
      <4>1. channelSet' \in {channelSet, [channelSet EXCEPT ![p] = arg[p]]}
        BY <2>9 DEF WriteChannel
      <4>2. channelSet \in [Pods -> Names] /\ arg[p] \in Names
        OBVIOUS
      <4> HIDE DEF JobType
      <4>3. QED
        BY <4>1, <4>2
    <3>4. QED
      BY <2>9, <3>1, <3>2, <3>3 DEF WriteChannel
  <2>6. ASSUME KillCommand(p) PROVE JobType'
    BY <2>6 DEF KillCommand, Step, Writes
  <2>7. ASSUME FinishJob(p) PROVE JobType'
    <3>1. readSlackChannel(p) \in Names
      BY <1>1 DEF readSlackChannel
    <3>2. QED
      BY <1>1, <2>7, <3>1 DEF FinishJob, GetJobInfoFromFile
  <2>8. QED
    BY <1>2, <2>1, <2>2, <2>3, <2>4, <2>5, <2>6, <2>7, <2>9 DEF Workflow
<1>3. ASSUME NEW p \in Pods, PostResult(p) PROVE JobType' /\ PoolType'
  <2>1. PostedChannel(p) \in Channels
    BY <1>3, PostedType DEF PostResult
  <2>2. QED
    BY <1>3, <2>1 DEF PostResult, Messages, JobType, PoolType
<1>4. CASE EditPool \/ StartProcess \/ StopProcess \/ BeginPass \/ EndPass
  BY <1>4 DEF JobType, PoolType, EditPool, StartProcess, StopProcess, BeginPass, EndPass
<1>5. CASE UpdateProcess
  BY <1>5 DEF JobType, PoolType, UpdateProcess, UpdateAgent
<1>6. CASE UNCHANGED vars
  BY <1>6 DEF vars, JobType, PoolType
<1>7. QED
  BY <1>2, <1>3, <1>4, <1>5, <1>6 DEF Next

\* The commands of one pod, and nothing else, change its files.
LEMMA FilesNext == TypeOK /\ FilesInv /\ [Next]_vars => FilesInv'
<1> SUFFICES ASSUME TypeOK, FilesInv, [Next]_vars, NEW p \in Pods
             PROVE  (InfoInv(p) /\ ChannelInv(p) /\ StatusInv(p))'
  BY DEF FilesInv
<1> USE DEF TypeOK, InfoInv, ChannelInv, StatusInv, readSlackChannel, StartedWrites, InfoWrites,
            SetWrites, jobHistory, history, jobVars
<1>1. InfoInv(p) /\ ChannelInv(p) /\ StatusInv(p)
  BY DEF FilesInv
<1>2. ASSUME NEW q \in Pods, Workflow(q) PROVE (InfoInv(p) /\ ChannelInv(p) /\ StatusInv(p))'
  <2>1. CASE JobStarted(q)
    BY <1>1, <2>1 DEF JobStarted, Step, Idle
  <2>2. ASSUME NEW channel \in JobNames, SetChannel(q, channel)
        PROVE  (InfoInv(p) /\ ChannelInv(p) /\ StatusInv(p))'
    BY <1>1, <2>2 DEF SetChannel, Step, Idle
  <2>3. CASE TruncateInfo(q)
    BY <1>1, <2>3 DEF TruncateInfo, Step
  <2>9. CASE WriteInfo(q)
    BY <1>1, <2>9 DEF WriteInfo, Step
  <2>4. CASE TruncateChannel(q)
    BY <1>1, <2>4 DEF TruncateChannel, Step
  <2>5. CASE WriteChannel(q)
    <3>1. /\ cmd'[q] = "none" /\ channelFile'[q] = arg[q]
          /\ UNCHANGED <<env, job, infoFile, status, started>>
      BY <2>5 DEF WriteChannel, Step
    <3>2. CASE p # q
      BY <1>1, <2>5, <3>2 DEF WriteChannel, Step
    <3>3. CASE p = q /\ cmd[q] = "write set"
      <4>1. last'[q] = "set" /\ channelSet'[q] = arg[q] /\ UNCHANGED completed
        BY <2>5, <3>3 DEF WriteChannel
      <4>2. QED
        BY <1>1, <3>1, <3>3, <4>1
    <3>4. CASE p = q /\ cmd[q] = "write channel"
      <4>1. last'[q] = "started" /\ UNCHANGED channelSet
        BY <2>5, <3>4 DEF WriteChannel
      <4>2. started[q] /\ infoFile[q] = "whole"
        BY <1>1, <3>4
      <4>3. QED
        BY <1>1, <3>1, <3>4, <4>1, <4>2
    <3>5. QED
      BY <2>5, <3>2, <3>3, <3>4 DEF WriteChannel
  <2>6. CASE KillCommand(q)
    BY <1>1, <2>6 DEF KillCommand, Step
  <2>7. CASE FinishJob(q)
    BY <1>1, <2>7 DEF FinishJob, Idle, GetJobInfoFromFile
  <2>8. QED
    BY <1>2, <2>1, <2>2, <2>3, <2>4, <2>5, <2>6, <2>7, <2>9 DEF Workflow
<1>3. CASE UNCHANGED <<jobVars, jobHistory>>
  BY <1>1, <1>3
<1>4. QED
  BY <1>2, <1>3 DEF Next, vars, PostResult, EditPool, StartProcess, StopProcess, UpdateProcess,
                    BeginPass, EndPass

\* The address of the agent is that of the last spec with one.
LEMMA AgentNext == TypeOK /\ AgentInv /\ [Next]_vars => AgentInv'
<1> SUFFICES ASSUME TypeOK, AgentInv, [Next]_vars PROVE AgentInv'
  OBVIOUS
<1> USE DEF AgentInv, confVars, history
<1>1. CASE StartProcess \/ StopProcess \/ BeginPass \/ EndPass
  BY <1>1, ConfsAssumption DEF TypeOK, StartProcess, StopProcess, BeginPass, EndPass
<1>2. CASE UpdateProcess
  BY <1>2 DEF TypeOK, UpdateProcess, UpdateAgent
<1>3. CASE UNCHANGED <<confVars, pass, moved, newest>>
  BY <1>3
<1>4. QED
  BY <1>1, <1>2, <1>3 DEF Next, vars, Workflow, PostResult, EditPool

\* A message is made when the job has finished, and again from the same status.
LEMMA MessageNext ==
    TypeOK /\ FilesInv /\ AgentInv /\ MessageInv /\ AgentFollowsSpec /\ [Next]_vars
        => MessageInv' /\ AgentFollowsSpec'
<1> SUFFICES ASSUME TypeOK, FilesInv, AgentInv, MessageInv, AgentFollowsSpec, [Next]_vars
             PROVE  MessageInv' /\ AgentFollowsSpec'
  OBVIOUS
<1>1. ASSUME NEW p \in Pods, PostResult(p) PROVE MessageInv' /\ AgentFollowsSpec'
  <2>1. \A q \in Posted' : q # p => q \in Posted /\ message'[q] = message[q]
    BY <1>1 DEF PostResult, Posted, TypeOK
  <2>2. UNCHANGED <<job, status>> /\ job[p] = "finished"
    BY <1>1 DEF PostResult, jobVars
  <2>3. message'[p] = [channel |-> PostedChannel(p), info |-> status[p].info,
                       agent |-> serverURL, conf |-> pass, moved |-> moved, newest |-> newest]
    BY <1>1 DEF PostResult, TypeOK
  <2>4. PostedChannel(p) = FirstOf(status[p].channel, NoChannel, pass.channel,
                                   AgentChannel[serverURL])
    BY DEF PostedChannel, RequestedChannel, FirstOf, Or
  <2>5. serverURL = newest /\ (serverURL # pass.agent => moved \/ pass.agent \notin Agents)
    BY <1>1 DEF PostResult, AgentInv
  <2>6. MessageInv'
    BY <2>1, <2>2, <2>3, <2>4 DEF MessageInv
  <2>7. AgentFollowsSpec'
    BY <2>1, <2>3, <2>5 DEF AgentFollowsSpec
  <2>8. QED
    BY <2>6, <2>7
<1>2. ASSUME NEW p \in Pods, Workflow(p) PROVE MessageInv' /\ AgentFollowsSpec'
  <2>1. UNCHANGED message /\ Posted' = Posted
    BY <1>2 DEF Workflow, Posted
  <2>2. \A q \in Pods : job[q] = "finished" => job'[q] = "finished" /\ status'[q] = status[q]
    BY <1>2 DEF Workflow, JobStarted, SetChannel, TruncateInfo, WriteInfo, TruncateChannel,
                WriteChannel, KillCommand, FinishJob, Idle, TypeOK
  <2>3. QED
    BY <2>1, <2>2 DEF MessageInv, AgentFollowsSpec, Posted
<1>3. CASE UNCHANGED <<job, status, message>>
  BY <1>3 DEF MessageInv, AgentFollowsSpec, Posted
<1>4. QED
  BY <1>1, <1>2, <1>3 DEF Next, vars, history, jobVars, EditPool, StartProcess,
                          StopProcess, UpdateProcess, BeginPass, EndPass

-----------------------------------------------------------------------------
\* The invariant of Notification.
NotificationInv == TypeOK /\ FilesInv /\ AgentInv /\ MessageInv /\ AgentFollowsSpec

\* Every reachable state satisfies the invariant.
LEMMA NotificationInvariant == Spec => []NotificationInv
<1>1. Init => NotificationInv
  BY NotificationInit DEF NotificationInv
<1>2. NotificationInv /\ [Next]_vars => NotificationInv'
  BY TypeNext, FilesNext, AgentNext, MessageNext DEF NotificationInv
<1>3. QED
  BY <1>1, <1>2, PTL DEF Spec

\* In the invariant, a job whose job-started has run to its end is told.
LEMMA InvTellsStarted == NotificationInv => StartedJobIsTold
<1> SUFFICES ASSUME NotificationInv, NEW p \in Posted, completed[p]
             PROVE  message[p].info
  BY DEF StartedJobIsTold
<1>1. p \in Pods
  BY DEF Posted
<1>2. InfoInv(p) /\ StatusInv(p)
  BY <1>1 DEF NotificationInv, FilesInv
<1>3. job[p] = "finished" /\ message[p].info = status[p].info
  BY DEF NotificationInv, MessageInv
<1>4. QED
  BY <1>2, <1>3 DEF InfoInv, StatusInv

\* In the invariant, the first of the four ways of choosing a channel wins.
LEMMA InvKeepsPriority == NotificationInv => ChannelPriority
<1> SUFFICES ASSUME NotificationInv, NEW p \in Posted, CommandsHeard(p)
             PROVE  message[p].channel =
                       FirstOf(channelSet[p], env[p], message[p].conf.channel,
                               AgentChannel[message[p].agent])
  BY DEF ChannelPriority
<1>1. p \in Pods
  BY DEF Posted
<1>2. ChannelInv(p) /\ StatusInv(p) /\ env[p] \in Names /\ channelSet[p] \in Names
      /\ last[p] \in {"none", "started", "set", "cut"}
  BY <1>1 DEF NotificationInv, FilesInv, TypeOK
<1>3. job[p] = "finished"
      /\ message[p].channel = FirstOf(status[p].channel, NoChannel, message[p].conf.channel,
                                      AgentChannel[message[p].agent])
  BY DEF NotificationInv, MessageInv
<1>4. status[p].channel = readSlackChannel(p)
  BY <1>2, <1>3 DEF StatusInv
<1>5. status[p].channel = IF channelSet[p] # NoChannel THEN channelSet[p] ELSE env[p]
  <2>1. CASE last[p] = "set"
    BY <1>2, <1>4, <2>1, ChannelsAssumption DEF ChannelInv, readSlackChannel
  <2>2. CASE last[p] = "started"
    BY <1>2, <1>4, <2>2, ChannelsAssumption DEF ChannelInv, readSlackChannel, CommandsHeard
  <2>3. CASE last[p] = "none"
    BY <1>2, <1>4, <2>3 DEF ChannelInv, readSlackChannel, CommandsHeard
  <2>4. last[p] # "cut"
    BY DEF CommandsHeard
  <2>5. QED
    BY <1>2, <2>1, <2>2, <2>3, <2>4
<1>6. QED
  BY <1>3, <1>5 DEF FirstOf, Or

\* Every variable of Notification keeps its type; a message has a channel and an agent.
THEOREM TypeCorrect == Spec => []TypeOK
<1>1. NotificationInv => TypeOK
  BY DEF NotificationInv
<1>2. QED
  BY <1>1, NotificationInvariant, PTL

\* A message goes through the agent of the last spec handed to the process whose agent has a
\* URL, which is that of the spec the channel was read from, unless an update came during the
\* pass or that spec names an agent without a URL.
THEOREM AgentFollows == Spec => []AgentFollowsSpec
<1>1. NotificationInv => AgentFollowsSpec
  BY DEF NotificationInv
<1>2. QED
  BY <1>1, NotificationInvariant, PTL

\* A job whose job-started has run to its end is told in the message, whatever set-channel
\* does afterwards and wherever the commands of the workflow are killed.
THEOREM StartedTold == Spec => []StartedJobIsTold
BY NotificationInvariant, InvTellsStarted, PTL

\* The channel of a message is the first that was named by set-channel, the environment of
\* the job, the spec of the pool or the slack agent, unless the commands were not heard.
THEOREM PriorityKept == Spec => []ChannelPriority
BY NotificationInvariant, InvKeepsPriority, PTL
=============================================================================
