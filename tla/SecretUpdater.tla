--------------------------- MODULE SecretUpdater ---------------------------
(***************************************************************************)
(* The update process of the secret updater for one RunnerPool             *)
(* (controllers/secret_updater.go): it keeps a registration token that     *)
(* runner pods can use in the pool's Secret, renewing it ahead of its      *)
(* expiration.  The Secret is read through the informer cache, which lags  *)
(* behind the API server.  The API server and GitHub are external.         *)
(*                                                                         *)
(* Time is discrete.  A call takes less than a tick, and a process whose   *)
(* waiting time is over runs before the next tick.                         *)
(***************************************************************************)
EXTENDS Naturals

CONSTANTS
    ShortWait,  \* one second: after an update, or when the Secret is not found
    RetryWait,  \* one minute: after an error
    Margin,     \* five minutes: a token is renewed that long before it expires
    Lifetime,   \* how long GitHub's tokens are valid
    MaxClock,   \* bound: time stops here
    MaxFaults   \* bound: failed calls, crashes, deletions of the Secret by users

ASSUME WaitsAssumption ==
    /\ ShortWait \in Nat \ {0} /\ RetryWait \in Nat \ {0}
    /\ Margin \in Nat /\ Lifetime \in Nat /\ Margin + ShortWait <= Lifetime
ASSUME UpdaterBounds == MaxClock \in Nat \ {0} /\ MaxFaults \in Nat

VARIABLES
    clock,
    secret,       \* the Secret: does it exist, and its expires-at annotation
    cached,       \* the Secret in the informer cache
    upc,          \* the process: its next call, or none
    wakeAt,       \* the end of its waiting time
    token,        \* the expiration of the token it has created
    stopping,     \* its context is cancelled
    interrupted,  \* history: the process was not running at some time since the last patch
    faults

updaterVars == <<upc, wakeAt, token, stopping>>
vars == <<clock, secret, cached, updaterVars, interrupted, faults>>

\* expiresAt 0: the Secret is not annotated.
NoSecret    == [exists |-> FALSE, expiresAt |-> 0]
EmptySecret == [exists |-> TRUE, expiresAt |-> 0]
Annotated(s) == s.expiresAt # 0

\* The next tick is the end of all waiting times beyond the bound.
Capped(t) == IF t > MaxClock THEN MaxClock ELSE t
Fault     == faults < MaxFaults /\ faults' = faults + 1

Init ==
    /\ clock = 1
    /\ secret = NoSecret /\ cached = NoSecret
    /\ upc = "none" /\ wakeAt = 0 /\ token = 0 /\ stopping = FALSE
    /\ interrupted = FALSE
    /\ faults = 0

-----------------------------------------------------------------------------
(* Time and the Secret.                                                    *)

Tick ==
    /\ clock < MaxClock
    /\ upc = "none" \/ (upc = "wait" /\ wakeAt > clock /\ ~stopping)
    /\ cached = secret
    /\ clock' = clock + 1
    /\ UNCHANGED <<secret, cached, updaterVars, interrupted, faults>>

SecretCacheSyncs ==
    /\ cached # secret
    /\ cached' = secret
    /\ UNCHANGED <<clock, secret, updaterVars, interrupted, faults>>

\* reconcileSecret creates the Secret without annotation.
CreateSecret ==
    /\ ~secret.exists
    /\ secret' = EmptySecret
    /\ UNCHANGED <<clock, cached, updaterVars, interrupted, faults>>

DeleteSecret ==
    /\ secret.exists
    /\ secret' = NoSecret
    /\ UNCHANGED <<clock, cached, updaterVars, interrupted>>

-----------------------------------------------------------------------------
(* Life of the process.                                                    *)

\* Start does nothing when there is a process; the first wait is a short one.
StartUpdater ==
    /\ upc = "none"
    /\ upc' = "wait" /\ wakeAt' = Capped(clock + ShortWait)
    /\ UNCHANGED <<clock, secret, cached, token, stopping, interrupted, faults>>

\* Stop cancels the context, and returns when the process has ended.
CancelUpdater ==
    /\ upc # "none" /\ ~stopping
    /\ stopping' = TRUE
    /\ UNCHANGED <<clock, secret, cached, upc, wakeAt, token, interrupted, faults>>

\* Mutant: the cancelled context stays with the next process.
UpdaterGoneCancelled ==
    /\ upc' = "none" /\ wakeAt' = 0 /\ token' = 0
    /\ interrupted' = TRUE
    /\ UNCHANGED <<clock, secret, cached, stopping>>

UpdaterGone ==
    /\ upc' = "none" /\ wakeAt' = 0 /\ token' = 0 /\ stopping' = FALSE
    /\ interrupted' = TRUE
    /\ UNCHANGED <<clock, secret, cached>>

UpdaterEnds ==
    /\ upc = "wait" /\ stopping
    /\ UpdaterGone
    /\ UNCHANGED faults

UpdaterKilled ==
    /\ upc # "none" /\ Fault
    /\ UpdaterGone

-----------------------------------------------------------------------------
(* The loop of run().                                                      *)

WaitUntil(t) == upc' = "wait" /\ wakeAt' = Capped(t) /\ token' = 0

\* A call fails: on its own, or because the context is cancelled.
CallFails ==
    /\ \/ stopping /\ UNCHANGED faults
       \/ Fault
    /\ WaitUntil(clock + RetryWait)

\* The update time is reached: time passes between the wake-up and the reading.
needUpdate(s) == Annotated(s) => clock >= s.expiresAt - Margin

\* Mutant: the process sleeps until the token expires.
GetSecretLate ==
    /\ upc = "wait" /\ wakeAt <= clock
    /\ \/ /\ cached.exists /\ ~needUpdate(cached)
          /\ WaitUntil(cached.expiresAt)
       \/ /\ ~cached.exists
          /\ WaitUntil(clock + ShortWait)
       \/ /\ cached.exists /\ needUpdate(cached)
          /\ upc' = "create"
          /\ UNCHANGED <<wakeAt, token>>
    /\ UNCHANGED <<clock, secret, cached, stopping, interrupted, faults>>

\* getSecret and needUpdate.
GetSecret ==
    /\ upc = "wait" /\ wakeAt <= clock
    /\ \/ /\ ~cached.exists
          /\ WaitUntil(clock + ShortWait)
          /\ UNCHANGED faults
       \/ /\ cached.exists /\ ~needUpdate(cached)
          /\ WaitUntil(cached.expiresAt - Margin)
          /\ UNCHANGED faults
       \/ /\ cached.exists /\ needUpdate(cached)
          /\ upc' = "create"
          /\ UNCHANGED <<wakeAt, token, faults>>
       \/ CallFails
    /\ UNCHANGED <<clock, secret, cached, stopping, interrupted>>

CreateRegistrationToken ==
    /\ upc = "create"
    /\ \/ /\ ~stopping
          /\ upc' = "patch" /\ token' = clock + Lifetime
          /\ UNCHANGED <<wakeAt, faults>>
       \/ CallFails
    /\ UNCHANGED <<clock, secret, cached, stopping, interrupted>>

\* Mutant: the patch does not annotate the Secret.
PatchTokenOnly ==
    /\ upc = "patch" /\ ~stopping
    /\ interrupted' = FALSE
    /\ WaitUntil(clock + (IF secret.exists THEN ShortWait ELSE RetryWait))
    /\ UNCHANGED <<clock, secret, cached, stopping, faults>>

\* The patch carries no resource version: it applies to whatever Secret has the name.  It
\* may have been applied although the call fails.
PatchSecret ==
    /\ upc = "patch"
    /\ \/ /\ ~stopping /\ secret.exists
          /\ secret' = [secret EXCEPT !.expiresAt = token]
          /\ interrupted' = FALSE
          /\ WaitUntil(clock + ShortWait)
          /\ UNCHANGED faults
       \/ /\ ~secret.exists
          /\ WaitUntil(clock + RetryWait)
          /\ UNCHANGED <<secret, interrupted, faults>>
       \/ /\ CallFails
          /\ secret' \in {secret} \union
                {[s EXCEPT !.expiresAt = token] : s \in {secret} \ {NoSecret}}
          /\ UNCHANGED interrupted
    /\ UNCHANGED <<clock, cached, stopping>>

-----------------------------------------------------------------------------
UpdaterStep == GetSecret \/ CreateRegistrationToken \/ PatchSecret \/ UpdaterEnds

Next ==
    \/ Tick \/ SecretCacheSyncs \/ CreateSecret
    \/ DeleteSecret /\ Fault
    \/ StartUpdater \/ CancelUpdater \/ UpdaterKilled
    \/ UpdaterStep

Spec == Init /\ [][Next]_vars

\* The process is a goroutine of its own, the cache catches up, and time goes on.  A
\* cancelled process ends: select takes a ready case at random, and after a failed call
\* the cancelled context is the only one.
UpdaterFairness ==
    /\ WF_vars(Tick) /\ WF_vars(SecretCacheSyncs) /\ WF_vars(UpdaterStep)
    /\ SF_vars(UpdaterEnds)

FairSpec == Spec /\ UpdaterFairness

-----------------------------------------------------------------------------
(* Properties.                                                             *)

SecretType == [exists : BOOLEAN, expiresAt : 0..(MaxClock + Lifetime)]

UpdaterTypeOK ==
    /\ clock \in 1..MaxClock
    /\ secret \in SecretType /\ cached \in SecretType
    /\ upc \in {"none", "wait", "create", "patch"}
    /\ wakeAt \in 0..MaxClock /\ token \in 0..(MaxClock + Lifetime)
    /\ stopping \in BOOLEAN /\ interrupted \in BOOLEAN
    /\ faults \in 0..MaxFaults
    /\ (upc = "patch") <=> (token # 0)
    /\ stopping => upc # "none"

\* The margin absorbs failures: while a process has been running since the last patch and
\* less than Margin / RetryWait calls have failed, the token in the Secret is valid.
TokenStaysValid ==
    /\ secret.exists /\ Annotated(secret) /\ ~interrupted /\ upc # "none"
    /\ faults * RetryWait < Margin
    => clock < secret.expiresAt

\* A Secret without token gets one, also when it was deleted and created again behind the
\* back of a process that sleeps until the old token expires.
EmptySecretIsIssued ==
    (secret = EmptySecret /\ upc # "none")
        ~> (Annotated(secret) \/ ~secret.exists \/ upc = "none" \/ stopping)
=============================================================================
