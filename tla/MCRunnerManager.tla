-------------------------- MODULE MCRunnerManager --------------------------
(* Model checking of RunnerManager: the specs of the RunnerPool the runs use. *)
EXTENDS RunnerManager, TLC

Pool(replicas, max, notify, extend, deadline, deny) ==
    [replicas |-> replicas, maxRunnerPods |-> max, needNotification |-> notify,
     extendDuration |-> extend, recreateDeadline |-> deadline, denyDisruption |-> deny,
     template |-> 1]

\* One replica, and one pod beside it that may be unlinked, in a pool that denies disruption.
MaxConfs == {Pool(1, 2, FALSE, 0, 9, TRUE)}

\* Two pods that are recreated when they have no job.
AgedConfs == {Pool(2, 2, FALSE, 0, 0, FALSE)}

\* A single pod with an early recreate deadline.
NotifyConfs == {Pool(1, 1, TRUE, 1, 2, FALSE)}

\* Replicas, notification and extension are taken away with another template, and given
\* back, at any time.
EditedConfs == NotifyConfs \union {[Pool(0, 0, FALSE, 0, 2, FALSE) EXCEPT !.template = 2]}

Symmetry == Permutations(Pods)
=============================================================================
