--------------------------- MODULE MCNotification ---------------------------
(* Model checking of Notification: the specs of the pool and the two slack agents, of which *)
(* one has no default channel.  The name "no host" is not the host of a URL.                *)
EXTENDS Notification

Conf(channel, agent, enable) == [channel |-> channel, agent |-> agent, enable |-> enable]

SomeConfs == {Conf("#pool", "agent", TRUE), Conf("", "other", TRUE),
              Conf("#pool", "no host", TRUE), Conf("", "agent", FALSE)}

SomeChannels == [a \in Agents |-> IF a = "agent" THEN "#default" ELSE NoChannel]
=============================================================================
