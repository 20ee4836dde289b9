------------------------ MODULE SecretUpdaterProofs ------------------------
(***************************************************************************)
(* Proofs about SecretUpdater, for any waiting times, any margin and any   *)
(* bounds: types are kept, and the margin absorbs failed calls.            *)
(***************************************************************************)
EXTENDS SecretUpdater, TLAPS

-----------------------------------------------------------------------------
(* Types.                                                                  *)

\* The initial state is typed.
LEMMA UpdaterInit == Init => UpdaterTypeOK
<1>1. NoSecret \in SecretType
  BY WaitsAssumption, UpdaterBounds DEF NoSecret, SecretType
<1>2. 0 \in 0..MaxClock /\ 0 \in 0..(MaxClock + Lifetime) /\ 0 \in 0..MaxFaults
      /\ 1 \in 1..MaxClock
  BY WaitsAssumption, UpdaterBounds
<1>3. QED
  BY <1>1, <1>2 DEF Init, UpdaterTypeOK

\* A waiting time ends within the bound.
LEMMA CappedType == ASSUME NEW t \in Nat PROVE Capped(t) \in 0..MaxClock
BY UpdaterBounds DEF Capped

\* A call that fails leaves a process that waits.
LEMMA CallFailsType ==
    ASSUME UpdaterTypeOK, CallFails
    PROVE  upc' = "wait" /\ wakeAt' \in 0..MaxClock /\ token' = 0 /\ faults' \in 0..MaxFaults
<1>1. clock + RetryWait \in Nat
  BY WaitsAssumption, UpdaterBounds DEF UpdaterTypeOK
<1>2. upc' = "wait" /\ wakeAt' \in 0..MaxClock /\ token' = 0
  BY <1>1, CappedType DEF CallFails, WaitUntil
<1>3. faults' \in 0..MaxFaults
  BY UpdaterBounds DEF CallFails, Fault, UpdaterTypeOK
<1>4. QED
  BY <1>2, <1>3

\* The steps of the update process keep the types, and there is a process before them.
LEMMA UpdaterStepType ==
    ASSUME UpdaterTypeOK, UpdaterStep PROVE UpdaterTypeOK' /\ upc # "none"
<1> USE DEF UpdaterTypeOK
<1>1. CASE GetSecret
  <2>1. UNCHANGED <<clock, secret, cached, stopping, interrupted>> /\ upc = "wait"
    BY <1>1 DEF GetSecret
  <2>2. CASE WaitUntil(clock + ShortWait) /\ UNCHANGED faults
    <3>1. clock + ShortWait \in Nat
      BY WaitsAssumption, UpdaterBounds
    <3>2. QED
      BY <2>1, <2>2, <3>1, CappedType DEF WaitUntil
  <2>3. CASE ~needUpdate(cached) /\ WaitUntil(cached.expiresAt - Margin) /\ UNCHANGED faults
    <3>1. cached.expiresAt - Margin \in Nat
      BY <2>3, WaitsAssumption, UpdaterBounds DEF needUpdate, SecretType
    <3>2. QED
      BY <2>1, <2>3, <3>1, CappedType DEF WaitUntil
  <2>4. CASE upc' = "create" /\ UNCHANGED <<wakeAt, token, faults>>
    BY <2>1, <2>4
  <2>5. CASE CallFails
    BY <2>1, <2>5, CallFailsType
  <2>6. QED
    BY <1>1, <2>2, <2>3, <2>4, <2>5 DEF GetSecret
<1>2. CASE CreateRegistrationToken
  <2>1. UNCHANGED <<clock, secret, cached, stopping, interrupted>> /\ upc = "create"
    BY <1>2 DEF CreateRegistrationToken
  <2>2. CASE CallFails
    BY <2>1, <2>2, CallFailsType
  <2>3. CASE upc' = "patch" /\ token' = clock + Lifetime /\ UNCHANGED <<wakeAt, faults>>
    BY <2>1, <2>3, WaitsAssumption, UpdaterBounds
  <2>4. QED
    BY <1>2, <2>2, <2>3 DEF CreateRegistrationToken
<1>3. CASE PatchSecret
  <2>1. UNCHANGED <<clock, cached, stopping>> /\ upc = "patch"
    BY <1>3 DEF PatchSecret
  <2>2. clock + ShortWait \in Nat /\ clock + RetryWait \in Nat
    BY WaitsAssumption, UpdaterBounds
  <2>3. secret' \in SecretType /\ interrupted' \in BOOLEAN
    BY <1>3 DEF PatchSecret, SecretType
  <2>4. upc' = "wait" /\ wakeAt' \in 0..MaxClock /\ token' = 0 /\ faults' \in 0..MaxFaults
    BY <1>3, <2>2, CappedType, CallFailsType DEF PatchSecret, WaitUntil
  <2>5. clock' \in 1..MaxClock /\ cached' \in SecretType /\ stopping' \in BOOLEAN
    BY <2>1
  <2>6. upc' \in {"none", "wait", "create", "patch"} /\ token' \in 0..(MaxClock + Lifetime)
        /\ ((upc' = "patch") <=> (token' # 0))
    BY <2>4, WaitsAssumption, UpdaterBounds
  <2>7. QED
    BY <2>1, <2>3, <2>4, <2>5, <2>6
<1>4. CASE UpdaterEnds
  <2>1. UNCHANGED <<clock, secret, cached, faults>> /\ upc = "wait" /\ interrupted' = TRUE
        /\ upc' = "none" /\ wakeAt' = 0 /\ token' = 0 /\ stopping' = FALSE
    BY <1>4 DEF UpdaterEnds, UpdaterGone
  <2>2. 0 \in 0..MaxClock /\ 0 \in 0..(MaxClock + Lifetime)
    BY WaitsAssumption, UpdaterBounds
  <2>3. QED
    BY <2>1, <2>2
<1>5. QED
  BY <1>1, <1>2, <1>3, <1>4 DEF UpdaterStep

\* Nothing else the controller does to the updater, to the Secret or to time breaks types.
LEMMA OthersType ==
    ASSUME UpdaterTypeOK,
           \/ Tick \/ SecretCacheSyncs \/ CreateSecret
           \/ DeleteSecret /\ (Fault \/ UNCHANGED faults)
           \/ StartUpdater \/ CancelUpdater \/ UNCHANGED vars
    PROVE  UpdaterTypeOK'
<1> USE DEF UpdaterTypeOK
<1>1. CASE Tick \/ SecretCacheSyncs \/ UNCHANGED vars
  BY <1>1, UpdaterBounds DEF Tick, SecretCacheSyncs, updaterVars, vars
<1>2. CASE CreateSecret \/ (DeleteSecret /\ (Fault \/ UNCHANGED faults))
  <2>1. EmptySecret \in SecretType /\ NoSecret \in SecretType
    BY WaitsAssumption, UpdaterBounds DEF EmptySecret, NoSecret, SecretType
  <2>2. QED
    BY <1>2, <2>1, UpdaterBounds DEF CreateSecret, DeleteSecret, Fault, updaterVars
<1>3. CASE StartUpdater
  <2>1. clock + ShortWait \in Nat
    BY WaitsAssumption, UpdaterBounds
  <2>2. QED
    BY <1>3, <2>1, CappedType DEF StartUpdater
<1>4. CASE CancelUpdater
  BY <1>4 DEF CancelUpdater
<1> HIDE DEF UpdaterTypeOK
<1>5. QED
  BY <1>1, <1>2, <1>3, <1>4

-----------------------------------------------------------------------------
(* The margin.                                                             *)

\* The token in the Secret is in use: a process has been running since it was patched in.
Renewed == secret.exists /\ Annotated(secret) /\ ~interrupted /\ upc # "none"

\* Failed calls put off the renewal, by at most RetryWait each.
Budget == faults * RetryWait

\* A process that waits sleeps until the end of its waiting time; nobody has run without
\* leaving the history a mark, and an older token expires earlier.
ClockInv ==
    /\ upc = "wait" => clock <= wakeAt
    /\ upc = "patch" => token = clock + Lifetime
    /\ upc = "none" /\ ~interrupted => ~Annotated(secret)
    /\ secret.expiresAt <= clock + Lifetime /\ cached.expiresAt <= clock + Lifetime

\* A stale cache is read only at the end of time, or before a tick since the last patch.
CacheInv == Annotated(secret) => cached = secret \/ secret.expiresAt = clock + Lifetime

\* The next reading of the Secret is due a margin before the token expires, plus what failed
\* calls have cost; time stands still for a cancelled process.
MarginInv ==
    Renewed =>
        /\ ~stopping /\ upc = "wait" => wakeAt + Margin <= secret.expiresAt + Budget
        /\ ~stopping => clock + Margin <= secret.expiresAt + Budget
        /\ stopping /\ Budget < Margin => clock < secret.expiresAt

UpdaterInv == UpdaterTypeOK /\ ClockInv /\ CacheInv /\ MarginInv

\* A waiting time is never longer than what was asked for, and it does not lie in the past.
LEMMA CappedBounds ==
    ASSUME NEW t \in Nat
    PROVE  Capped(t) <= t /\ (clock <= t /\ clock <= MaxClock => clock <= Capped(t))
BY UpdaterBounds DEF Capped

\* One more failed call costs one more RetryWait.
LEMMA BudgetGrows ==
    ASSUME UpdaterTypeOK, faults' \in {faults, faults + 1}
    PROVE  /\ Budget \in Nat /\ Budget' \in Nat /\ Budget <= Budget'
           /\ faults' = faults => Budget' = Budget
           /\ faults' = faults + 1 => Budget' = Budget + RetryWait
<1>1. faults \in Nat /\ RetryWait \in Nat
  BY WaitsAssumption, UpdaterBounds DEF UpdaterTypeOK
<1>2. Budget \in Nat /\ (faults + 1) * RetryWait = Budget + RetryWait
  BY <1>1 DEF Budget
<1>3. Budget' = faults' * RetryWait
  BY DEF Budget
<1>4. CASE faults' = faults
  BY <1>1, <1>2, <1>3, <1>4 DEF Budget
<1>5. CASE faults' = faults + 1
  BY <1>1, <1>2, <1>3, <1>5
<1>6. QED
  BY <1>4, <1>5

\* The steps of this specification keep the types.
LEMMA UpdaterTypeNext == UpdaterTypeOK /\ [Next]_vars => UpdaterTypeOK'
<1> SUFFICES ASSUME UpdaterTypeOK, [Next]_vars PROVE UpdaterTypeOK'
  OBVIOUS
<1>1. CASE UpdaterStep
  BY <1>1, UpdaterStepType
<1>2. CASE UpdaterKilled
  <2>1. 0 \in 0..MaxClock /\ 0 \in 0..(MaxClock + Lifetime) /\ faults' \in 0..MaxFaults
    BY <1>2, WaitsAssumption, UpdaterBounds DEF UpdaterKilled, Fault, UpdaterTypeOK
  <2>2. QED
    BY <1>2, <2>1 DEF UpdaterKilled, UpdaterGone, UpdaterTypeOK
<1>3. QED
  BY <1>1, <1>2, OthersType DEF Next

\* The order of wake-ups, tokens and expirations is preserved by every step.
LEMMA ClockNext == ASSUME UpdaterTypeOK, ClockInv, [Next]_vars PROVE ClockInv'
<1> USE DEF ClockInv
<1>1. /\ clock \in Nat /\ wakeAt \in Nat /\ token \in Nat /\ clock <= MaxClock /\ clock # 0
      /\ secret.expiresAt \in Nat /\ cached.expiresAt \in Nat /\ secret \in SecretType
      /\ Lifetime \in Nat /\ ShortWait \in Nat /\ RetryWait \in Nat /\ Margin \in Nat
  BY WaitsAssumption, UpdaterBounds DEF UpdaterTypeOK, SecretType
<1>2. ASSUME NEW t \in Nat, clock <= t, WaitUntil(t) PROVE upc' = "wait" /\ clock <= wakeAt'
  BY <1>1, <1>2, CappedBounds DEF WaitUntil
<1>3. CallFails => upc' = "wait" /\ clock <= wakeAt'
  BY <1>1, <1>2 DEF CallFails
<1>4. CASE Tick
  BY <1>1, <1>4 DEF Tick, updaterVars
<1>5. CASE SecretCacheSyncs \/ CancelUpdater \/ UNCHANGED vars
  BY <1>1, <1>5 DEF SecretCacheSyncs, CancelUpdater, vars, updaterVars
<1>6. CASE CreateSecret \/ DeleteSecret
  BY <1>1, <1>6 DEF CreateSecret, DeleteSecret, EmptySecret, NoSecret, Annotated, updaterVars
<1>7. CASE StartUpdater
  BY <1>1, <1>7, CappedBounds DEF StartUpdater
<1>8. CASE UpdaterKilled \/ UpdaterEnds
  BY <1>1, <1>8 DEF UpdaterKilled, UpdaterEnds, UpdaterGone
<1>9. CASE GetSecret
  <2>1. UNCHANGED <<clock, secret, cached, interrupted>> /\ upc' # "patch" /\ upc' # "none"
    BY <1>9, <1>3 DEF GetSecret, WaitUntil
  <2>2. upc' = "wait" => clock <= wakeAt'
    <3>1. CASE WaitUntil(clock + ShortWait)
      BY <1>1, <1>2, <3>1
    <3>2. CASE ~needUpdate(cached) /\ WaitUntil(cached.expiresAt - Margin)
      BY <1>1, <1>2, <3>2 DEF needUpdate
    <3>3. QED
      BY <1>3, <1>9, <3>1, <3>2 DEF GetSecret
  <2>3. QED
    BY <2>1, <2>2
<1>10. CASE CreateRegistrationToken
  BY <1>1, <1>3, <1>10 DEF CreateRegistrationToken
<1>11. CASE PatchSecret
  <2>1. UNCHANGED <<clock, cached>> /\ upc' = "wait" /\ clock <= wakeAt'
    BY <1>1, <1>2, <1>3, <1>11 DEF PatchSecret
  <2>2. secret'.expiresAt \in {secret.expiresAt, token} /\ token = clock + Lifetime
    BY <1>1, <1>11 DEF PatchSecret, SecretType
  <2>3. QED
    BY <1>1, <2>1, <2>2
<1>12. QED
  BY <1>4, <1>5, <1>6, <1>7, <1>8, <1>9, <1>10, <1>11 DEF Next, UpdaterStep

\* CacheInv is preserved by every step: time waits for the cache.
LEMMA CacheNext == ASSUME UpdaterTypeOK, ClockInv, CacheInv, [Next]_vars PROVE CacheInv'
<1> USE DEF CacheInv, Annotated
<1>1. CASE Tick
  BY <1>1 DEF Tick
<1>2. CASE SecretCacheSyncs \/ CancelUpdater \/ StartUpdater \/ UNCHANGED vars
  BY <1>2 DEF SecretCacheSyncs, CancelUpdater, StartUpdater, vars
<1>3. CASE CreateSecret \/ DeleteSecret
  BY <1>3 DEF CreateSecret, DeleteSecret, EmptySecret, NoSecret
<1>4. CASE UpdaterKilled \/ UpdaterEnds \/ GetSecret \/ CreateRegistrationToken
  BY <1>4 DEF UpdaterKilled, UpdaterEnds, UpdaterGone, GetSecret, CreateRegistrationToken
<1>5. CASE PatchSecret
  <2>1. UNCHANGED <<clock, cached>> /\ token = clock + Lifetime
    BY <1>5 DEF PatchSecret, ClockInv
  <2>2. secret' = secret \/ secret'.expiresAt = token
    BY <1>5 DEF PatchSecret, UpdaterTypeOK, SecretType
  <2>3. QED
    BY <2>1, <2>2
<1>6. QED
  BY <1>1, <1>2, <1>3, <1>4, <1>5 DEF Next, UpdaterStep

\* The margin holds after every step.
LEMMA MarginNext == ASSUME UpdaterInv, [Next]_vars PROVE MarginInv'
<1> USE DEF MarginInv, Renewed, Annotated
<1>1. /\ clock \in Nat /\ wakeAt \in Nat /\ token \in Nat /\ secret \in SecretType
      /\ secret.expiresAt \in Nat /\ cached.expiresAt \in Nat /\ clock <= MaxClock
      /\ Lifetime \in Nat /\ ShortWait \in Nat /\ RetryWait \in Nat /\ Margin \in Nat
      /\ Margin + ShortWait <= Lifetime /\ Margin < Lifetime
  BY WaitsAssumption, UpdaterBounds DEF UpdaterInv, UpdaterTypeOK, SecretType
<1>2. /\ upc = "wait" => clock <= wakeAt
      /\ upc = "patch" => token = clock + Lifetime
      /\ upc = "none" /\ ~interrupted => ~Annotated(secret)
      /\ secret.expiresAt <= clock + Lifetime /\ cached.expiresAt <= clock + Lifetime
  BY DEF UpdaterInv, ClockInv
<1>3. /\ stopping \in BOOLEAN /\ upc \in {"none", "wait", "create", "patch"}
      /\ stopping' \in BOOLEAN /\ MarginInv /\ UpdaterTypeOK
  BY UpdaterTypeNext DEF UpdaterInv, UpdaterTypeOK
<1>4. ASSUME faults' \in {faults, faults + 1}
      PROVE  /\ Budget \in Nat /\ Budget' \in Nat /\ Budget <= Budget'
             /\ faults' = faults => Budget' = Budget
             /\ faults' = faults + 1 => Budget' = Budget + RetryWait
  BY <1>3, <1>4, BudgetGrows
<1>5. ASSUME NEW t \in Nat, WaitUntil(t) PROVE upc' = "wait" /\ wakeAt' <= t /\ wakeAt' \in Nat
  BY <1>5, CappedBounds, CappedType DEF WaitUntil
\* A call that fails: the Secret is what it was, or holds the token just created.
<1>6. ASSUME CallFails, UNCHANGED <<clock, stopping, interrupted>>, upc # "none",
             \/ secret' = secret
             \/ secret'.expiresAt = clock + Lifetime
      PROVE  MarginInv'
  <2>1. upc' = "wait" /\ wakeAt' <= clock + RetryWait /\ wakeAt' \in Nat
    BY <1>1, <1>5, <1>6 DEF CallFails
  <2>2. (stopping /\ faults' = faults) \/ faults' = faults + 1
    BY <1>6 DEF CallFails, Fault
  <2>3. CASE secret' = secret
    BY <1>1, <1>3, <1>4, <1>6, <2>1, <2>2, <2>3
  <2>4. CASE secret'.expiresAt = clock + Lifetime
    BY <1>1, <1>3, <1>4, <1>6, <2>1, <2>2, <2>4
  <2>5. QED
    BY <1>6, <2>3, <2>4
<1>7. CASE Tick
  BY <1>1, <1>2, <1>3, <1>4, <1>7 DEF Tick, updaterVars
<1>8. CASE SecretCacheSyncs \/ UNCHANGED vars
  BY <1>4, <1>3, <1>8 DEF SecretCacheSyncs, vars, updaterVars, Budget
<1>9. CASE CancelUpdater
  BY <1>1, <1>3, <1>4, <1>9 DEF CancelUpdater
<1>10. CASE CreateSecret \/ DeleteSecret
  BY <1>10 DEF CreateSecret, DeleteSecret, EmptySecret, NoSecret
<1>11. CASE StartUpdater
  BY <1>2, <1>11 DEF StartUpdater
<1>12. CASE UpdaterKilled \/ UpdaterEnds
  BY <1>12 DEF UpdaterKilled, UpdaterEnds, UpdaterGone
<1>13. CASE GetSecret
  <2>1. UNCHANGED <<clock, secret, stopping, interrupted>> /\ upc = "wait" /\ wakeAt <= clock
    BY <1>13 DEF GetSecret
  <2>2. CASE CallFails
    BY <1>6, <2>1, <2>2
  <2>3. CASE upc' = "create" /\ UNCHANGED <<wakeAt, token, faults>>
    BY <1>1, <1>2, <1>3, <1>4, <2>1, <2>3
  <2>4. ASSUME faults' = faults, upc' = "wait", wakeAt' \in Nat,
               Renewed => wakeAt' + Margin <= secret.expiresAt + Budget
        PROVE  MarginInv'
    BY <1>1, <1>2, <1>3, <1>4, <2>1, <2>4
  <2>5. CASE ~cached.exists /\ WaitUntil(clock + ShortWait) /\ UNCHANGED faults
    <3>1. wakeAt' <= clock + ShortWait /\ upc' = "wait" /\ wakeAt' \in Nat
      BY <1>1, <1>5, <2>5
    <3>2. Renewed => secret.expiresAt = clock + Lifetime
      BY <2>5 DEF UpdaterInv, CacheInv
    <3>3. Budget \in Nat
      BY <1>4, <2>5
    <3>4. QED
      BY <1>1, <2>4, <2>5, <3>1, <3>2, <3>3
  <2>6. CASE ~needUpdate(cached) /\ WaitUntil(cached.expiresAt - Margin) /\ UNCHANGED faults
    <3>1. cached.expiresAt - Margin \in Nat
      BY <1>1, <2>6 DEF needUpdate
    <3>2. wakeAt' <= cached.expiresAt - Margin /\ upc' = "wait" /\ wakeAt' \in Nat
      BY <1>5, <2>6, <3>1
    <3>3. Renewed => cached.expiresAt <= secret.expiresAt
      BY <1>1, <1>2 DEF UpdaterInv, CacheInv
    <3>4. Budget \in Nat
      BY <1>4, <2>6
    <3>5. QED
      BY <1>1, <2>4, <2>6, <3>1, <3>2, <3>3, <3>4
  <2>7. QED
    BY <1>13, <2>2, <2>3, <2>5, <2>6 DEF GetSecret
<1>14. CASE CreateRegistrationToken
  <2>1. UNCHANGED <<clock, secret, stopping, interrupted>> /\ upc = "create"
    BY <1>14 DEF CreateRegistrationToken
  <2>2. CASE CallFails
    BY <1>6, <2>1, <2>2
  <2>3. CASE upc' = "patch" /\ UNCHANGED <<wakeAt, faults>>
    BY <1>3, <1>4, <2>1, <2>3
  <2>4. QED
    BY <1>14, <2>2, <2>3 DEF CreateRegistrationToken
<1>15. CASE PatchSecret
  <2>1. UNCHANGED <<clock, stopping>> /\ upc = "patch" /\ token = clock + Lifetime
    BY <1>2, <1>15 DEF PatchSecret
  <2>2. CASE ~stopping /\ secret' = [secret EXCEPT !.expiresAt = token]
             /\ WaitUntil(clock + ShortWait) /\ UNCHANGED faults
    <3>1. wakeAt' <= clock + ShortWait /\ upc' = "wait" /\ wakeAt' \in Nat
      BY <1>1, <1>5, <2>2
    <3>2. secret'.expiresAt = clock + Lifetime
      BY <1>1, <2>1, <2>2 DEF SecretType
    <3>3. Budget' \in Nat
      BY <1>4, <2>2
    <3>4. QED
      BY <1>1, <2>1, <2>2, <3>1, <3>2, <3>3
  <2>3. CASE ~secret.exists /\ UNCHANGED secret
    BY <2>3
  <2>4. CASE CallFails /\ UNCHANGED interrupted
    <3>1. secret' = secret \/ secret'.expiresAt = clock + Lifetime
      BY <1>1, <1>15, <2>1 DEF PatchSecret, SecretType
    <3>2. QED
      BY <1>6, <2>1, <2>4, <3>1
  <2>5. QED
    BY <1>15, <2>2, <2>3, <2>4 DEF PatchSecret
<1>16. QED
  BY <1>7, <1>8, <1>9, <1>10, <1>11, <1>12, <1>13, <1>14, <1>15 DEF Next, UpdaterStep

\* Every reachable state satisfies the invariant.
LEMMA UpdaterInvariant == Spec => []UpdaterInv
<1>1. Init => UpdaterInv
  <2>1. Init => ClockInv /\ CacheInv /\ MarginInv
    BY WaitsAssumption DEF Init, ClockInv, CacheInv, MarginInv, Renewed, NoSecret, Annotated
  <2>2. QED
    BY <2>1, UpdaterInit DEF UpdaterInv
<1>2. UpdaterInv /\ [Next]_vars => UpdaterInv'
  BY UpdaterTypeNext, ClockNext, CacheNext, MarginNext DEF UpdaterInv
<1>3. QED
  BY <1>1, <1>2, PTL DEF Spec

\* While failures have not eaten up the margin, the invariant keeps the token valid.
LEMMA MarginIsEnough == UpdaterInv => TokenStaysValid
<1> SUFFICES ASSUME UpdaterInv, Renewed, Budget < Margin PROVE clock < secret.expiresAt
  BY DEF TokenStaysValid, Renewed, Budget
<1>1. clock \in Nat /\ secret.expiresAt \in Nat /\ Margin \in Nat
  BY WaitsAssumption, UpdaterBounds DEF UpdaterInv, UpdaterTypeOK, SecretType
<1>2. Budget \in Nat
  BY WaitsAssumption, UpdaterBounds DEF UpdaterInv, UpdaterTypeOK, Budget
<1>3. clock < secret.expiresAt \/ (~stopping /\ clock + Margin <= secret.expiresAt + Budget)
  BY DEF UpdaterInv, MarginInv, UpdaterTypeOK
<1>4. QED
  BY <1>1, <1>2, <1>3

\* The margin absorbs failures: a token that a running process has put into the Secret is
\* replaced before it expires, unless Margin / RetryWait calls have failed.
THEOREM TokenValid == Spec => []TokenStaysValid
BY MarginIsEnough, UpdaterInvariant, PTL
=============================================================================
