---------------------------- MODULE Notification ----------------------------
(***************************************************************************)
(* Where the result of a job is posted, and what the message tells of it.  *)
(* A workflow may call `job-started` and `meows slackagent set-channel`,   *)
(* which write files of the pod; the entrypoint reads the files when the   *)
(* job has ended; the manage process of the pool reads the channel of the  *)
(* spec at the head of a pass and the address of the slack agent when it   *)
(* posts; the slack agent has a default channel.  The spec of the pool is  *)
(* edited meanwhile.  How often a result is posted is the business of      *)
(* RunnerManager.                                                          *)
(***************************************************************************)
EXTENDS Naturals

CONSTANTS
    Pods,
    Channels,      \* the channels that can be named
    JobChannels,   \* those that a workflow names
    NoChannel,     \* the empty string
    Agents,        \* the names of slack agents that are hosts of a URL
    Confs,         \* the specs the pool may have
    AgentChannel,  \* the default channel of each slack agent, or NoChannel
    NoMessage,     \* nothing was posted yet
    NoPass,        \* the process waits for its next pass
    MaxCalls       \* bound: how often a job calls set-channel

Names == Channels \union {NoChannel}
JobNames == JobChannels \union {NoChannel}

ASSUME ChannelsAssumption ==
    NoChannel \notin Channels /\ "absent" \notin Names /\ JobChannels \subseteq Channels
ASSUME AgentsAssumption == AgentChannel \in [Agents -> Names]
ASSUME CallsAssumption == MaxCalls \in Nat
ASSUME ConfsAssumption ==
    Confs # {} /\ NoPass \notin Confs
    /\ \A c \in Confs : c.channel \in Names /\ c.enable \in BOOLEAN

VARIABLES
    (* the pods *)
    env,          \* MEOWS_SLACK_CHANNEL of the job
    job,          \* running, finished
    cmd,          \* the next write of the command the job executes
    arg,          \* what it writes into the file of the channel
    infoFile,     \* the file of the job info: absent, empty, whole
    channelFile,  \* the file of the channel: absent or what it holds
    status,       \* what GET /status tells of the finished job
    (* the pool and its process *)
    conf,         \* the spec
    up,           \* there is a manage process
    slackAgentServiceName, serverURL,
    pconf,        \* the other fields that update() assigns, as the spec they are of
    pass,         \* the local variables of maintainRunnerPods, as the spec they are of
    (* history *)
    started,      \* the job has called job-started
    completed,    \* job-started has written both files
    calls,        \* how often it has called set-channel
    channelSet,   \* what set-channel wrote when it last completed
    last,         \* the last to write the file of the channel: none, started, set, cut
    moved,        \* update() was called since the pass began
    newest,       \* the agent of the last spec handed to the process whose agent has a URL
    message       \* the last message about the pod on Slack

jobVars   == <<env, job, cmd, arg, infoFile, channelFile, status>>
confVars  == <<up, slackAgentServiceName, serverURL, pconf>>
jobHistory == <<started, completed, calls, channelSet, last>>
history    == <<jobHistory, moved, newest, message>>
vars == <<jobVars, conf, confVars, pass, history>>

Blank == [info |-> FALSE, channel |-> NoChannel]

Init ==
    /\ env \in [Pods -> JobNames]
    /\ job = [p \in Pods |-> "running"]
    /\ cmd = [p \in Pods |-> "none"] /\ arg = [p \in Pods |-> NoChannel]
    /\ infoFile = [p \in Pods |-> "absent"] /\ channelFile = [p \in Pods |-> "absent"]
    /\ status = [p \in Pods |-> Blank]
    /\ conf \in {c \in Confs : c.agent \in Agents}
    /\ up = TRUE /\ pconf = conf
    /\ slackAgentServiceName = conf.agent /\ serverURL = conf.agent
    /\ pass = NoPass
    /\ started = [p \in Pods |-> FALSE] /\ completed = [p \in Pods |-> FALSE]
    /\ calls = [p \in Pods |-> 0]
    /\ channelSet = [p \in Pods |-> NoChannel] /\ last = [p \in Pods |-> "none"]
    /\ moved = FALSE /\ newest = conf.agent /\ message = [p \in Pods |-> NoMessage]

-----------------------------------------------------------------------------
(* The commands of a workflow.                                             *)

Step(p, next) == cmd' = [cmd EXCEPT ![p] = next]
Idle(p) == job[p] = "running" /\ cmd[p] = "none"

Refs == {"branch", "tag", "pull", "other"}

\* The forms of GITHUB_REF from which job info can be made.
GetJobInfo(ref) == ref \in {"branch", "tag", "pull"}

\* Mutant: an error of GetJobInfo does not end the command.
JobStartedRegardless(p) ==
    /\ Idle(p) /\ ~started[p]
    /\ started' = [started EXCEPT ![p] = TRUE]
    /\ arg' = [arg EXCEPT ![p] = env[p]]
    /\ \E ref \in Refs : Step(p, IF GetJobInfo(ref) THEN "truncate info" ELSE "truncate channel")
    /\ UNCHANGED <<env, job, infoFile, channelFile, status, completed, calls, channelSet,
                   last>>

\* job-started, which a workflow calls once; an error of GetJobInfo ends it.
JobStarted(p) ==
    /\ Idle(p) /\ ~started[p]
    /\ started' = [started EXCEPT ![p] = TRUE]
    /\ arg' = [arg EXCEPT ![p] = env[p]]
    /\ \E ref \in Refs : Step(p, IF GetJobInfo(ref) THEN "truncate info" ELSE "none")
    /\ UNCHANGED <<env, job, infoFile, channelFile, status, completed, calls, channelSet,
                   last>>

\* set-channel; without a channel it takes that of the environment.
SetChannel(p, channel) ==
    /\ Idle(p) /\ calls[p] < MaxCalls
    /\ calls' = [calls EXCEPT ![p] = @ + 1]
    /\ arg' = [arg EXCEPT ![p] = IF channel = NoChannel THEN env[p] ELSE channel]
    /\ Step(p, "truncate set")
    /\ UNCHANGED <<env, job, infoFile, channelFile, status, started, completed, channelSet,
                   last>>

\* os.WriteFile empties the file, then writes it.
TruncateInfo(p) ==
    /\ cmd[p] = "truncate info"
    /\ infoFile' = [infoFile EXCEPT ![p] = "empty"]
    /\ Step(p, "write info")
    /\ UNCHANGED <<env, job, arg, channelFile, status, jobHistory>>

WriteInfo(p) ==
    /\ cmd[p] = "write info"
    /\ infoFile' = [infoFile EXCEPT ![p] = "whole"]
    /\ Step(p, "truncate channel")
    /\ UNCHANGED <<env, job, arg, channelFile, status, jobHistory>>

TruncateChannel(p) ==
    /\ cmd[p] \in {"truncate channel", "truncate set"}
    /\ channelFile' = [channelFile EXCEPT ![p] = NoChannel]
    /\ last' = [last EXCEPT ![p] = "cut"]
    /\ Step(p, IF cmd[p] = "truncate set" THEN "write set" ELSE "write channel")
    /\ UNCHANGED <<env, job, arg, infoFile, status, started, completed, calls, channelSet>>

WriteChannel(p) ==
    /\ cmd[p] \in {"write channel", "write set"}
    /\ channelFile' = [channelFile EXCEPT ![p] = arg[p]]
    /\ \/ /\ cmd[p] = "write set"
          /\ last' = [last EXCEPT ![p] = "set"] /\ channelSet' = [channelSet EXCEPT ![p] = arg[p]]
          /\ UNCHANGED completed
       \/ /\ cmd[p] = "write channel"
          /\ last' = [last EXCEPT ![p] = "started"] /\ completed' = [completed EXCEPT ![p] = TRUE]
          /\ UNCHANGED channelSet
    /\ Step(p, "none")
    /\ UNCHANGED <<env, job, arg, infoFile, status, started, calls>>

\* The job is cancelled, or the write fails.
KillCommand(p) ==
    /\ cmd[p] # "none"
    /\ Step(p, "none")
    /\ UNCHANGED <<env, job, arg, infoFile, channelFile, status, jobHistory>>

\* An empty file or none is no job info, and no channel.
GetJobInfoFromFile(p) == infoFile[p] = "whole"
readSlackChannel(p)   == IF channelFile[p] = "absent" THEN NoChannel ELSE channelFile[p]

\* updateToDebuggingState.
FinishJob(p) ==
    /\ Idle(p)
    /\ job' = [job EXCEPT ![p] = "finished"]
    /\ status' = [status EXCEPT ![p] =
          [info |-> GetJobInfoFromFile(p), channel |-> readSlackChannel(p)]]
    /\ arg' = [arg EXCEPT ![p] = NoChannel]
    /\ UNCHANGED <<env, cmd, infoFile, channelFile, jobHistory>>

Workflow(p) ==
    /\ \/ JobStarted(p) \/ \E channel \in JobNames : SetChannel(p, channel)
       \/ TruncateInfo(p) \/ WriteInfo(p) \/ TruncateChannel(p) \/ WriteChannel(p)
       \/ KillCommand(p) \/ FinishJob(p)
    /\ UNCHANGED <<conf, confVars, pass, moved, newest, message>>

-----------------------------------------------------------------------------
(* The spec and the process.                                               *)

EditPool ==
    /\ conf' \in Confs \ {conf}
    /\ UNCHANGED <<jobVars, confVars, pass, history>>

\* newManageProcess; with an agent whose name is not the host of a URL there is none.
StartProcess ==
    /\ ~up /\ conf.agent \in Agents
    /\ up' = TRUE /\ pconf' = conf
    /\ slackAgentServiceName' = conf.agent /\ serverURL' = conf.agent /\ newest' = conf.agent
    /\ UNCHANGED <<jobVars, conf, pass, jobHistory, moved, message>>

StopProcess ==
    /\ up
    /\ up' = FALSE /\ pass' = NoPass /\ moved' = FALSE
    /\ UNCHANGED <<jobVars, conf, pconf, slackAgentServiceName, serverURL, jobHistory,
                   newest, message>>

\* Mutant: the name of the agent is not remembered.
UpdateURLOnly(agent) ==
    /\ serverURL' = IF agent \in Agents /\ agent # slackAgentServiceName THEN agent ELSE serverURL
    /\ UNCHANGED slackAgentServiceName

\* UpdateServerURL, whose error keeps the URL, the name and the rest of the update.
UpdateAgent(agent) ==
    IF agent \in Agents /\ agent # slackAgentServiceName
    THEN serverURL' = agent /\ slackAgentServiceName' = agent
    ELSE UNCHANGED <<serverURL, slackAgentServiceName>>

\* update(), at any point of a pass, which waits for the mutex only at its head.
UpdateProcess ==
    /\ up /\ (pconf # conf \/ slackAgentServiceName # conf.agent)
    /\ pconf' = conf
    /\ UpdateAgent(conf.agent)
    /\ moved' = (pass # NoPass)
    /\ newest' = IF conf.agent \in Agents THEN conf.agent ELSE newest
    /\ UNCHANGED <<jobVars, conf, up, pass, jobHistory, message>>

\* The head of maintainRunnerPods.
BeginPass ==
    /\ up /\ pass = NoPass
    /\ pass' = pconf
    /\ UNCHANGED <<jobVars, conf, confVars, history>>

EndPass ==
    /\ pass # NoPass
    /\ pass' = NoPass /\ moved' = FALSE
    /\ UNCHANGED <<jobVars, conf, confVars, jobHistory, newest, message>>

\* Mutant: the channel of the pool comes first.
PoolFirst(p) == IF pass.channel # NoChannel THEN pass.channel ELSE status[p].channel

RequestedChannel(p) == IF status[p].channel # NoChannel THEN status[p].channel ELSE pass.channel

PostedChannel(p) ==
    IF RequestedChannel(p) # NoChannel THEN RequestedChannel(p) ELSE AgentChannel[serverURL]

\* The slack agent refuses a result without any channel.
Accepts(p) == PostedChannel(p) # NoChannel

\* A finish time after the last check; a call or Slack itself may fail.
PostResult(p) ==
    /\ pass # NoPass /\ pass.enable /\ job[p] = "finished"
    /\ Accepts(p)
    /\ message' = [message EXCEPT ![p] =
          [channel |-> PostedChannel(p), info |-> status[p].info, agent |-> serverURL,
           conf |-> pass, moved |-> moved, newest |-> newest]]
    /\ UNCHANGED <<jobVars, conf, confVars, pass, jobHistory, moved, newest>>

Next ==
    \/ \E p \in Pods : Workflow(p) \/ PostResult(p)
    \/ EditPool \/ StartProcess \/ StopProcess \/ UpdateProcess \/ BeginPass \/ EndPass

Spec == Init /\ [][Next]_vars

-----------------------------------------------------------------------------
(* Properties.                                                             *)

Messages == [channel : Channels, info : BOOLEAN, agent : Agents, conf : Confs, moved : BOOLEAN,
             newest : Agents]

Writes == {"none", "truncate info", "write info", "truncate channel", "write channel",
           "truncate set", "write set"}

TypeOK ==
    /\ env \in [Pods -> Names] /\ job \in [Pods -> {"running", "finished"}]
    /\ cmd \in [Pods -> Writes] /\ arg \in [Pods -> Names]
    /\ infoFile \in [Pods -> {"absent", "empty", "whole"}]
    /\ channelFile \in [Pods -> Names \union {"absent"}]
    /\ status \in [Pods -> [info : BOOLEAN, channel : Names]]
    /\ conf \in Confs /\ pconf \in Confs /\ pass \in Confs \union {NoPass}
    /\ up \in BOOLEAN /\ moved \in BOOLEAN
    /\ slackAgentServiceName \in Agents /\ serverURL \in Agents
    /\ newest \in Agents
    /\ started \in [Pods -> BOOLEAN] /\ completed \in [Pods -> BOOLEAN]
    /\ calls \in [Pods -> 0..MaxCalls]
    /\ channelSet \in [Pods -> Names] /\ last \in [Pods -> {"none", "started", "set", "cut"}]
    /\ message \in [Pods -> Messages \union {NoMessage}]

Posted == {p \in Pods : message[p] # NoMessage}

Or(a, b) == IF a # NoChannel THEN a ELSE b
FirstOf(a, b, c, d) == Or(a, Or(b, Or(c, d)))

\* The commands did what the workflow asked of them: set-channel was the last to write the
\* file, or was never given a channel; and without any command there was nothing to be told.
CommandsHeard(p) ==
    CASE last[p] = "set"     -> TRUE
      [] last[p] = "started" -> channelSet[p] = NoChannel
      [] last[p] = "none"    -> channelSet[p] = NoChannel /\ env[p] = NoChannel
      [] last[p] = "cut"     -> FALSE

\* docs/user-manual.md names four ways to choose the channel, "the smaller number is a
\* priority": set-channel, the environment of the job, the spec of the pool, the default of
\* the slack agent.  It holds for the spec the pass has read and the agent it has called,
\* unless job-started is called after set-channel or a command fails or is killed.
ChannelPriority ==
    \A p \in Posted : CommandsHeard(p) =>
        message[p].channel =
            FirstOf(channelSet[p], env[p], message[p].conf.channel,
                    AgentChannel[message[p].agent])

\* A job whose job-started has run to its end is told in the message, whatever set-channel
\* does afterwards and wherever it is killed: the job info was on disk before the channel,
\* and no other command touches it.  It is the workflow docs/user-manual.md shows:
\* job-started first, `meows slackagent set-channel` when a step has failed.
StartedJobIsTold == \A p \in Posted : completed[p] => message[p].info

\* A message goes through the agent of the last spec handed to the process whose agent has a
\* URL: neither an agent without one nor going back to an earlier agent leaves the URL of
\* another in force.  The URL is read without the mutex that guards the channel, so it may
\* be of a newer spec than the channel, but only when update() was called during the pass,
\* or of an older one, but only when the spec of the pass names an agent without a URL.
AgentFollowsSpec ==
    \A p \in Posted :
        /\ message[p].agent = message[p].newest
        /\ message[p].agent # message[p].conf.agent
               => message[p].moved \/ message[p].conf.agent \notin Agents
=============================================================================
