--------------------------- MODULE RunnerCleanup ---------------------------
(***************************************************************************)
(* The runners registered on GitHub for one owner and repository, and the  *)
(* manage process of a RunnerPool that ends: deleteAllRunners of           *)
(* controllers/runner_manager.go lists them page by page with ListRunners  *)
(* of github/client.go and removes those of the pool one by one.  Between  *)
(* two of its calls runners are registered, connected and removed by       *)
(* others, the command `meows runner remove` among them.  GitHub itself is *)
(* external.                                                               *)
(***************************************************************************)
EXTENDS Naturals, SequencesExt

CONSTANTS
    Own,      \* the runners of the pool that ends: those with its label
    Others,   \* the runners of other pools of the repository
    PerPage   \* how many runners a page holds

ASSUME RunnersAssumption == IsFiniteSet(Own) /\ IsFiniteSet(Others) /\ Own \cap Others = {}
ASSUME PageAssumption == PerPage \in Nat \ {0}

Runners == Own \union Others

VARIABLES
    registry,  \* the registered runners, in the order in which GitHub lists them
    conn,      \* GitHub sees a registered runner as offline, online or busy
    cleanup,   \* what deleteAllRunners does: idle, listing, removing
    page,      \* the page it asks for next
    listed,    \* the runners of the pool that it has listed and not removed yet
    (* history *)
    steady,    \* runners of the pool that are registered ever since it began
    shifted    \* a runner on a page it had read was removed before it asked for the next

githubVars == <<registry, conn>>
listVars   == <<cleanup, page, listed>>
runVars    == <<steady, shifted>>
cleanupVars == <<githubVars, listVars, runVars>>

Registered == ToSet(registry)

CleanupInit ==
    /\ registry = <<>>
    /\ conn = [r \in Runners |-> "offline"]
    /\ cleanup = "idle" /\ page = 1 /\ listed = {}
    /\ steady = {} /\ shifted = FALSE

-----------------------------------------------------------------------------
(* GitHub.                                                                 *)

\* How many runners are on the pages that have been read.
Cursor == (page - 1) * PerPage

\* The order of the list is GitHub's: a new runner can be anywhere in it.
RegisterRunner(r) ==
    /\ r \notin Registered
    /\ \E i \in 1..Len(registry) + 1 : registry' = InsertAt(registry, i, r)
    /\ UNCHANGED <<conn, listVars, runVars>>

RemoveFromRegistry(r) ==
    /\ \E i \in 1..Len(registry) :
          /\ registry[i] = r
          /\ registry' = RemoveAt(registry, i)
          /\ shifted' = (shifted \/ (cleanup = "listing" /\ i <= Cursor))
    /\ conn' = [conn EXCEPT ![r] = "offline"]
    /\ steady' = steady \ {r}

\* A runner connects, is given its job, or is no longer connected.
SetConnection(r, state) ==
    /\ conn' = [conn EXCEPT ![r] = state]
    /\ UNCHANGED <<registry, listVars, runVars>>

\* GitHub removes an ephemeral runner after its job, and an offline one in the end.
GitHubRemoves(r) ==
    /\ RemoveFromRegistry(r)
    /\ UNCHANGED listVars

\* `meows runner remove` lists the runners of all pools and then removes those that were
\* offline, as every runner is when it is registered.  GitHub refuses a busy one.
CommandRemoves(r) ==
    /\ conn[r] # "busy"
    /\ GitHubRemoves(r)

-----------------------------------------------------------------------------
(* deleteAllRunners.                                                       *)

BeginCleanup ==
    /\ cleanup = "idle"
    /\ cleanup' = "listing"
    /\ steady' = Own \intersect Registered
    /\ UNCHANGED <<githubVars, page, listed, shifted>>

EndCleanup ==
    /\ cleanup' = "idle" /\ page' = 1 /\ listed' = {}
    /\ steady' = {} /\ shifted' = FALSE
    /\ UNCHANGED githubVars

\* GitHub names the next page while there are runners beyond this one.
HasNextPage == Cursor + PerPage < Len(registry)

PageOf == {registry[i] : i \in {j \in 1..Len(registry) : Cursor < j /\ j <= Cursor + PerPage}}

\* Mutant: the label of the pool is not looked at.
WithAnyLabel(runners) == runners

WithLabel(runners) == runners \intersect Own

\* Mutant: only the last page is returned.
ListPageAnew ==
    /\ cleanup = "listing"
    /\ listed' = WithLabel(PageOf)
    /\ IF HasNextPage
       THEN page' = page + 1 /\ UNCHANGED cleanup
       ELSE cleanup' = "removing" /\ UNCHANGED page
    /\ UNCHANGED <<githubVars, runVars>>

ListPage ==
    /\ cleanup = "listing"
    /\ listed' = listed \union WithLabel(PageOf)
    /\ IF HasNextPage
       THEN page' = page + 1 /\ UNCHANGED cleanup
       ELSE cleanup' = "removing" /\ UNCHANGED page
    /\ UNCHANGED <<githubVars, runVars>>

\* In the order of the list, which is GitHub's and can be any.
RemoveNext ==
    /\ cleanup = "removing"
    /\ \E r \in listed :
          /\ conn[r] # "busy"
          /\ RemoveFromRegistry(r)
          /\ listed' = listed \ {r}
    /\ UNCHANGED <<cleanup, page>>

CleanupCompletes ==
    /\ cleanup = "removing" /\ listed = {}
    /\ EndCleanup

\* The first error ends it: a call fails, its five seconds are over, or the next runner is
\* busy or known to GitHub no more, removed by someone else or listed twice.
CleanupFails ==
    /\ cleanup # "idle"
    /\ EndCleanup

CleanupStep == ListPage \/ RemoveNext \/ CleanupCompletes \/ CleanupFails

-----------------------------------------------------------------------------
(* Properties.                                                             *)

CleanupTypeOK ==
    /\ registry \in Seq(Runners) /\ IsInjective(registry)
    /\ conn \in [Runners -> {"offline", "online", "busy"}]
    /\ cleanup \in {"idle", "listing", "removing"}
    /\ page \in Nat \ {0}
    /\ listed \in SUBSET Own
    /\ steady \in SUBSET (Own \intersect Registered)
    /\ shifted \in BOOLEAN

\* ListRunners must return every runner that is registered from its first page to its last,
\* however many pages there are and whatever is registered meanwhile, so that
\* deleteAllRunners removes it.  Only the removal of a runner on a page that was already
\* read, by GitHub or by the command, shifts the rest of the list, and a runner is missed.
MissedOnlyIfShifted ==
    cleanup = "removing" /\ ~shifted => steady \subseteq listed
=============================================================================
