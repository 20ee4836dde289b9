---------------------------- MODULE PoolContract ----------------------------
(***************************************************************************)
(* What is promised about the children of the RunnerPools of one name,     *)
(* whatever is cached, queued, repeated or interrupted: the pool may be    *)
(* written at any time, and the Deployment, the manage process and the     *)
(* update process come and go for the pool that exists, in this order.  It *)
(* is the abstract specification of the RunnerPool reconciler;             *)
(* PoolController is the detailed one and implements it.                   *)
(***************************************************************************)
EXTENDS Naturals

CONSTANTS
    MaxEdits   \* bound: how often the spec of a pool is written

VARIABLES
    pool,     \* the RunnerPool
    depl,     \* the Deployment: uid of its pool (0: there is none), spec and repository
    mgr,      \* the manage process, likewise
    renewer   \* the uid of the pool whose token is renewed (0: of none)

\* A spec is the number of the write that made it, a uid that of the write that created
\* the pool, a repository that of the write that brought it in; an absent pool keeps them.
NoPool  == [phase |-> "absent", uid |-> 0, spec |-> 0, repo |-> 0, bound |-> FALSE]
Nothing == [uid |-> 0, spec |-> 0, repo |-> 0]

ContractInit ==
    pool = NoPool /\ depl = Nothing /\ mgr = Nothing /\ renewer = 0

Exists == pool.phase # "absent"

-----------------------------------------------------------------------------
(* Users.                                                                  *)

Create ==
    /\ ~Exists /\ pool.spec < MaxEdits
    /\ LET n == pool.spec + 1
       IN  pool' = [phase |-> "live", uid |-> n, spec |-> n, repo |-> n, bound |-> FALSE]
    /\ UNCHANGED <<depl, mgr, renewer>>

\* The repository of a pool never changes.
Edit ==
    /\ Exists /\ pool.spec < MaxEdits
    /\ pool' = [pool EXCEPT !.spec = @ + 1]
    /\ UNCHANGED <<depl, mgr, renewer>>

Delete ==
    /\ pool.phase = "live"
    /\ pool' = [pool EXCEPT !.phase = "deleting"]
    /\ UNCHANGED <<depl, mgr, renewer>>

-----------------------------------------------------------------------------
(* Children.                                                               *)

\* The Deployment gets a spec the pool has had, none older than the one it has.
Deploy ==
    /\ Exists
    /\ \E s \in pool.uid..pool.spec :
          /\ depl.spec <= s
          /\ depl' = [uid |-> pool.uid, spec |-> s, repo |-> pool.repo]
    /\ UNCHANGED <<pool, mgr, renewer>>

\* The manage process serves what is deployed.
Serve ==
    /\ Exists /\ depl.uid = pool.uid
    /\ mgr' = depl
    /\ UNCHANGED <<pool, depl, renewer>>

Renew ==
    /\ Exists
    /\ renewer' = pool.uid
    /\ UNCHANGED <<pool, depl, mgr>>

\* A pool is bound when its last spec is deployed and served.
Bind ==
    /\ Exists
    /\ depl = [uid |-> pool.uid, spec |-> pool.spec, repo |-> pool.repo] /\ mgr = depl
    /\ pool' = [pool EXCEPT !.bound = TRUE]
    /\ UNCHANGED <<depl, mgr, renewer>>

\* Processes end one by one, or together with the controller.
Stop ==
    /\ mgr' \in {mgr, Nothing} /\ renewer' \in {renewer, 0}
    /\ UNCHANGED <<pool, depl>>

\* The pool disappears when nothing works for it any more.
Disappear ==
    /\ pool.phase = "deleting" /\ mgr = Nothing /\ renewer = 0
    /\ pool' = [pool EXCEPT !.phase = "absent", !.bound = FALSE]
    /\ UNCHANGED <<depl, mgr, renewer>>

Collect ==
    /\ ~Exists \/ depl.uid # pool.uid
    /\ depl' = Nothing
    /\ UNCHANGED <<pool, mgr, renewer>>

ContractNext ==
    \/ Create \/ Edit \/ Delete
    \/ Deploy \/ Serve \/ Renew \/ Bind \/ Stop \/ Disappear \/ Collect

ContractSpec == ContractInit /\ [][ContractNext]_<<pool, depl, mgr, renewer>>
=============================================================================
