SPECIFICATION Spec
CONSTANTS
    p1 = p1
    Pods = {p1}
    Channels = {"#job", "#ci", "#pool", "#default"}
    JobChannels = {"#job", "#ci"}
    NoChannel = ""
    Agents = {"agent", "other"}
    NoMessage = NoMessage
    NoPass = NoPass
    MaxCalls = 2
    Confs <- SomeConfs
    AgentChannel <- SomeChannels
INVARIANTS
    ChannelPriority
    StartedJobIsTold
    AgentFollowsSpec
CHECK_DEADLOCK FALSE
