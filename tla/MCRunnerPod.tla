---------------------------- MODULE MCRunnerPod ----------------------------
(* Model checking of RunnerPod: two restarts, so that a container can end  *)
(* before the flag is created and again after it; two deletion times.      *)
EXTENDS RunnerPod

MCTimes == {1, 3}
=============================================================================
