---------------------------- MODULE MCSlackAgent ----------------------------
(* Model checking of SlackAgent with the hours of agent/message.go. *)
EXTENDS SlackAgent, TLC

MCZeroTime == -2000
=============================================================================
