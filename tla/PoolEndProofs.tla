--------------------------- MODULE PoolEndProofs ---------------------------
(***************************************************************************)
(* Proofs about PoolEnd and the cleanup it is made of, for every finite    *)
(* set of runners, every size of a page and every bound: types, and what   *)
(* ListRunners returns while the list changes under it.                    *)
(***************************************************************************)
EXTENDS PoolEnd, SequenceTheorems, TLAPS

-----------------------------------------------------------------------------
(* Sequences.                                                              *)

\* An insertion moves what was at its place or behind it one place on.
LEMMA InsertAtProperties ==
    ASSUME NEW S, NEW s \in Seq(S), NEW i \in 1..Len(s) + 1, NEW e \in S
    PROVE  /\ InsertAt(s, i, e) \in Seq(S)
           /\ Len(InsertAt(s, i, e)) = Len(s) + 1
           /\ \A j \in 1..Len(s) + 1 :
                 InsertAt(s, i, e)[j] = IF j < i THEN s[j] ELSE IF j = i THEN e ELSE s[j - 1]
<1> DEFINE before == SubSeq(s, 1, i - 1)
           after  == SubSeq(s, i, Len(s))
           one    == <<e>>
<1>1. /\ before \in Seq(S) /\ Len(before) = i - 1
      /\ \A j \in 1..i - 1 : before[j] = s[j]
  BY SubSeqProperties
<1>2. /\ after \in Seq(S) /\ Len(after) = Len(s) - i + 1
      /\ \A j \in 1..Len(s) - i + 1 : after[j] = s[i + j - 1]
  BY SubSeqProperties
<1>3. one \in Seq(S) /\ Len(one) = 1 /\ one[1] = e
  OBVIOUS
<1>0. Len(s) \in Nat /\ i \in Int
  BY LenProperties
<1> HIDE DEF before, after, one
<1>4. /\ before \o one \in Seq(S) /\ Len(before \o one) = i
      /\ \A j \in 1..i : (before \o one)[j] = IF j < i THEN s[j] ELSE e
  <2>1. /\ before \o one \in Seq(S)
        /\ Len(before \o one) = Len(before) + Len(one)
        /\ \A j \in 1..Len(before) + Len(one) :
              (before \o one)[j] = IF j <= Len(before) THEN before[j] ELSE one[j - Len(before)]
    BY <1>1, <1>3, ConcatProperties
  <2>2. Len(before) + Len(one) = i
    BY <1>0, <1>1, <1>3
  <2>3. ASSUME NEW j \in 1..i PROVE (before \o one)[j] = IF j < i THEN s[j] ELSE e
    BY <1>0, <1>1, <1>3, <2>1, <2>2
  <2>4. QED
    BY <2>1, <2>2, <2>3
<1>5. /\ (before \o one) \o after \in Seq(S)
      /\ Len((before \o one) \o after) = Len(s) + 1
      /\ \A j \in 1..Len(s) + 1 :
            ((before \o one) \o after)[j] = IF j <= i THEN (before \o one)[j] ELSE after[j - i]
  <2> DEFINE b == before \o one
  <2>1. b \in Seq(S) /\ Len(b) = i
    BY <1>4
  <2> HIDE DEF b
  <2>2. /\ b \o after \in Seq(S)
        /\ Len(b \o after) = Len(b) + Len(after)
        /\ \A j \in 1..Len(b) + Len(after) :
              (b \o after)[j] = IF j <= Len(b) THEN b[j] ELSE after[j - Len(b)]
    BY <1>2, <2>1, ConcatProperties
  <2>3. Len(b) + Len(after) = Len(s) + 1
    BY <1>0, <1>2, <2>1
  <2>4. /\ b \o after \in Seq(S)
        /\ Len(b \o after) = Len(s) + 1
        /\ \A j \in 1..Len(s) + 1 : (b \o after)[j] = IF j <= i THEN b[j] ELSE after[j - i]
    BY <2>1, <2>2, <2>3
  <2>5. QED
    BY <2>4 DEF b
<1>6. InsertAt(s, i, e) = (before \o one) \o after
  BY DEF InsertAt, before, after, one
<1>7. ASSUME NEW j \in 1..Len(s) + 1
      PROVE  ((before \o one) \o after)[j] =
                 IF j < i THEN s[j] ELSE IF j = i THEN e ELSE s[j - 1]
  BY <1>0, <1>2, <1>4, <1>5
<1>8. QED
  BY <1>5, <1>6, <1>7

\* A removal moves what was behind its place one place back.
LEMMA RemoveAtProperties ==
    ASSUME NEW S, NEW s \in Seq(S), NEW i \in 1..Len(s)
    PROVE  /\ RemoveAt(s, i) \in Seq(S)
           /\ Len(RemoveAt(s, i)) = Len(s) - 1
           /\ \A j \in 1..Len(s) - 1 : RemoveAt(s, i)[j] = IF j < i THEN s[j] ELSE s[j + 1]
<1> DEFINE before == SubSeq(s, 1, i - 1)
           after  == SubSeq(s, i + 1, Len(s))
<1>1. /\ before \in Seq(S) /\ Len(before) = i - 1
      /\ \A j \in 1..i - 1 : before[j] = s[j]
  BY SubSeqProperties
<1>2. /\ after \in Seq(S) /\ Len(after) = Len(s) - i
      /\ \A j \in 1..Len(s) - i : after[j] = s[i + j]
  BY SubSeqProperties
<1>0. Len(s) \in Nat /\ i \in Int
  BY LenProperties
<1> HIDE DEF before, after
<1>3. /\ before \o after \in Seq(S) /\ Len(before \o after) = Len(s) - 1
      /\ \A j \in 1..Len(s) - 1 :
            (before \o after)[j] = IF j <= i - 1 THEN before[j] ELSE after[j - (i - 1)]
  BY <1>1, <1>2, ConcatProperties
<1>4. RemoveAt(s, i) = before \o after
  BY DEF RemoveAt, before, after
<1>5. ASSUME NEW j \in 1..Len(s) - 1
      PROVE  (before \o after)[j] = IF j < i THEN s[j] ELSE s[j + 1]
  BY <1>0, <1>1, <1>2, <1>3
<1>6. QED
  BY <1>3, <1>4, <1>5

\* A list without duplicates stays one when something new is inserted, and nothing that is
\* in it moves forward.
LEMMA Inserted ==
    ASSUME NEW S, NEW s \in Seq(S), IsInjective(s), NEW i \in 1..Len(s) + 1,
           NEW e \in S, e \notin ToSet(s)
    PROVE  /\ InsertAt(s, i, e) \in Seq(S) /\ IsInjective(InsertAt(s, i, e))
           /\ ToSet(InsertAt(s, i, e)) = ToSet(s) \union {e}
           /\ \A j \in 1..Len(s) :
                 \E k \in 1..Len(InsertAt(s, i, e)) : k >= j /\ InsertAt(s, i, e)[k] = s[j]
<1> DEFINE t == InsertAt(s, i, e)
<1>1. /\ t \in Seq(S) /\ Len(t) = Len(s) + 1
      /\ \A j \in 1..Len(s) + 1 :
            t[j] = IF j < i THEN s[j] ELSE IF j = i THEN e ELSE s[j - 1]
  BY InsertAtProperties
<1>2. Len(s) \in Nat /\ DOMAIN s = 1..Len(s) /\ DOMAIN t = 1..Len(s) + 1 /\ i \in Int
  BY <1>1, LenProperties
<1> HIDE DEF t
<1>3. \A j \in 1..Len(s) : s[j] # e
  BY <1>2 DEF ToSet
<1>4. IsInjective(t)
  <2>1. \A a, b \in 1..Len(s) : s[a] = s[b] => a = b
    BY <1>2 DEF IsInjective
  <2>2. ASSUME NEW a \in 1..Len(s) + 1, NEW b \in 1..Len(s) + 1, t[a] = t[b], a < b
        PROVE  FALSE
    <3>1. CASE a = i
      BY <1>1, <1>2, <1>3, <2>2, <3>1
    <3>2. CASE b = i
      BY <1>1, <1>2, <1>3, <2>2, <3>2
    <3>3. CASE a # i /\ b # i
      <4>1. a < i => a \in 1..Len(s) /\ t[a] = s[a]
        BY <1>1, <1>2
      <4>2. a > i => a - 1 \in 1..Len(s) /\ t[a] = s[a - 1]
        BY <1>1, <1>2
      <4>3. b < i => b \in 1..Len(s) /\ t[b] = s[b]
        BY <1>1, <1>2
      <4>4. b > i => b - 1 \in 1..Len(s) /\ t[b] = s[b - 1]
        BY <1>1, <1>2
      <4>5. QED
        BY <1>2, <2>1, <2>2, <3>3, <4>1, <4>2, <4>3, <4>4
    <3>4. QED
      BY <3>1, <3>2, <3>3
  <2>3. QED
    BY <1>2, <2>2 DEF IsInjective
<1>5. ASSUME NEW j \in 1..Len(s)
      PROVE  \E k \in 1..Len(t) : k >= j /\ t[k] = s[j]
  <2>1. CASE j < i
    BY <1>1, <1>2, <2>1
  <2>2. CASE j >= i
    <3>1. j + 1 \in 1..Len(t) /\ t[j + 1] = s[j]
      BY <1>1, <1>2, <2>2
    <3>2. QED
      BY <3>1
  <2>3. QED
    BY <1>2, <2>1, <2>2
<1>6. ToSet(t) = ToSet(s) \union {e}
  <2>1. ASSUME NEW k \in 1..Len(s) + 1 PROVE t[k] \in ToSet(s) \union {e}
    BY <1>1, <1>2 DEF ToSet
  <2>2. t[i] = e
    BY <1>1, <1>2
  <2>3. ASSUME NEW x \in ToSet(s) PROVE x \in ToSet(t)
    <3>1. PICK j \in 1..Len(s) : x = s[j]
      BY <1>2 DEF ToSet
    <3>2. PICK k \in 1..Len(t) : t[k] = s[j]
      BY <1>5
    <3>3. QED
      BY <1>1, <1>2, <3>1, <3>2 DEF ToSet
  <2>4. e \in ToSet(t)
    BY <1>2, <2>2 DEF ToSet
  <2>5. QED
    BY <1>2, <2>1, <2>3, <2>4 DEF ToSet
<1>7. QED
  BY <1>1, <1>4, <1>5, <1>6 DEF t

\* It stays one when something is removed, and only what was behind it moves, by one place.
LEMMA Removed ==
    ASSUME NEW S, NEW s \in Seq(S), IsInjective(s), NEW i \in 1..Len(s)
    PROVE  /\ RemoveAt(s, i) \in Seq(S) /\ IsInjective(RemoveAt(s, i))
           /\ ToSet(RemoveAt(s, i)) = ToSet(s) \ {s[i]}
           /\ \A j \in 1..Len(s) : j # i =>
                 \E k \in 1..Len(RemoveAt(s, i)) :
                    RemoveAt(s, i)[k] = s[j] /\ (k = j \/ (j > i /\ k = j - 1))
<1> DEFINE t == RemoveAt(s, i)
<1>1. /\ t \in Seq(S) /\ Len(t) = Len(s) - 1
      /\ \A j \in 1..Len(s) - 1 : t[j] = IF j < i THEN s[j] ELSE s[j + 1]
  BY RemoveAtProperties
<1>2. Len(s) \in Nat /\ DOMAIN s = 1..Len(s) /\ DOMAIN t = 1..Len(s) - 1 /\ i \in Int
  BY <1>1, LenProperties
<1> HIDE DEF t
<1>3. \A a, b \in 1..Len(s) : s[a] = s[b] => a = b
  BY <1>2 DEF IsInjective
<1>4. ASSUME NEW a \in 1..Len(s) - 1
      PROVE  \E j \in 1..Len(s) : j # i /\ t[a] = s[j] /\ j = IF a < i THEN a ELSE a + 1
  <2>1. CASE a < i
    BY <1>1, <1>2, <2>1
  <2>2. CASE a >= i
    <3>1. a + 1 \in 1..Len(s) /\ a + 1 # i /\ t[a] = s[a + 1]
      BY <1>1, <1>2, <2>2
    <3>2. QED
      BY <1>2, <2>2, <3>1
  <2>3. QED
    BY <1>2, <2>1, <2>2
<1>5. IsInjective(t)
  <2>1. ASSUME NEW a \in 1..Len(s) - 1, NEW b \in 1..Len(s) - 1, t[a] = t[b]
        PROVE  a = b
    <3>1. PICK j \in 1..Len(s) : j # i /\ t[a] = s[j] /\ j = IF a < i THEN a ELSE a + 1
      BY <1>4
    <3>2. PICK k \in 1..Len(s) : k # i /\ t[b] = s[k] /\ k = IF b < i THEN b ELSE b + 1
      BY <1>4
    <3>3. j = k
      BY <1>3, <2>1, <3>1, <3>2
    <3>4. QED
      BY <1>2, <3>1, <3>2, <3>3
  <2>2. QED
    BY <1>2, <2>1 DEF IsInjective
<1>6. ASSUME NEW j \in 1..Len(s), j # i
      PROVE  \E k \in 1..Len(t) : t[k] = s[j] /\ (k = j \/ (j > i /\ k = j - 1))
  <2>1. CASE j < i
    BY <1>1, <1>2, <2>1
  <2>2. CASE j > i
    <3>1. j - 1 \in 1..Len(t) /\ t[j - 1] = s[j]
      BY <1>1, <1>2, <2>2
    <3>2. QED
      BY <2>2, <3>1
  <2>3. QED
    BY <1>2, <1>6, <2>1, <2>2
<1>7. ToSet(t) = ToSet(s) \ {s[i]}
  <2>1. ASSUME NEW a \in 1..Len(s) - 1 PROVE t[a] \in ToSet(s) \ {s[i]}
    BY <1>2, <1>3, <1>4 DEF ToSet
  <2>2. ASSUME NEW x \in ToSet(s) \ {s[i]} PROVE x \in ToSet(t)
    <3>1. PICK j \in 1..Len(s) : x = s[j]
      BY <1>2 DEF ToSet
    <3>2. PICK k \in 1..Len(t) : t[k] = s[j]
      BY <1>6, <2>2, <3>1
    <3>3. QED
      BY <1>1, <1>2, <3>1, <3>2 DEF ToSet
  <2>3. QED
    BY <1>2, <2>1, <2>2 DEF ToSet
<1>8. QED
  BY <1>1, <1>5, <1>6, <1>7 DEF t

-----------------------------------------------------------------------------
(* The cleanup.                                                            *)

\* A runner is on a page that is still to be read.
Ahead(r) == \E i \in 1..Len(registry) : i > Cursor /\ registry[i] = r

\* While it lists, a runner that was there from the beginning has been read or is ahead, as
\* long as nothing was removed from a page that has been read.
ListInv ==
    /\ cleanup = "idle" => page = 1
    /\ cleanup = "listing" /\ ~shifted => \A r \in steady : r \in listed \/ Ahead(r)
    /\ MissedOnlyIfShifted

\* The part of the inductive invariant that is about the cleanup.
CleanupInv == CleanupTypeOK /\ ListInv

\* The cursor is a number.
LEMMA CursorType == ASSUME CleanupTypeOK PROVE Cursor \in Nat
BY PageAssumption DEF CleanupTypeOK, Cursor

\* The invariant speaks of nothing else.
LEMMA CleanupUnchanged == ASSUME CleanupInv, UNCHANGED cleanupVars PROVE CleanupInv'
BY DEF CleanupInv, CleanupTypeOK, ListInv, MissedOnlyIfShifted, Ahead, Cursor, Registered, Runners,
       cleanupVars, githubVars, listVars, runVars

\* A runner is registered: nothing that is ahead falls behind the cursor.
LEMMA CleanupRegisters ==
    ASSUME CleanupInv, NEW r \in Runners, RegisterRunner(r)
    PROVE  CleanupInv'
<1> USE DEF CleanupInv
<1>1. PICK i \in 1..Len(registry) + 1 : registry' = InsertAt(registry, i, r)
  BY DEF RegisterRunner
<1>2. UNCHANGED <<conn, cleanup, page, listed, steady, shifted>>
  BY DEF RegisterRunner, listVars, runVars
<1>3. /\ registry' \in Seq(Runners) /\ IsInjective(registry')
      /\ ToSet(registry') = ToSet(registry) \union {r}
      /\ \A j \in 1..Len(registry) :
            \E k \in 1..Len(registry') : k >= j /\ registry'[k] = registry[j]
  <2>1. registry \in Seq(Runners) /\ IsInjective(registry) /\ r \notin ToSet(registry)
    BY DEF CleanupTypeOK, RegisterRunner, Registered
  <2>2. QED
    BY <1>1, <2>1, Inserted
<1>4. CleanupTypeOK'
  BY <1>2, <1>3 DEF CleanupTypeOK, Registered
<1>5. ASSUME NEW q, Ahead(q) PROVE Ahead(q)'
  <2>1. PICK j \in 1..Len(registry) : j > Cursor /\ registry[j] = q
    BY <1>5 DEF Ahead
  <2>2. PICK k \in 1..Len(registry') : k >= j /\ registry'[k] = registry[j]
    BY <1>3
  <2>3. Cursor' = Cursor /\ Cursor \in Nat
    BY <1>2, CursorType DEF Cursor
  <2>4. QED
    BY <2>1, <2>2, <2>3 DEF Ahead
<1>6. ListInv'
  BY <1>2, <1>5 DEF ListInv, MissedOnlyIfShifted
<1>7. QED
  BY <1>4, <1>6

\* GitHub sees a runner otherwise than before.
LEMMA CleanupConnects ==
    ASSUME CleanupInv, NEW r \in Runners, NEW state \in {"offline", "online", "busy"},
           SetConnection(r, state)
    PROVE  CleanupInv'
BY DEF CleanupInv, CleanupTypeOK, ListInv, MissedOnlyIfShifted, Ahead, Cursor, Registered,
       SetConnection, listVars, runVars

\* A runner is removed: what is ahead stays ahead, or the removal is one that shifts the list.
LEMMA RunnerRemoved ==
    ASSUME CleanupInv, NEW r \in Runners, RemoveFromRegistry(r),
           UNCHANGED <<cleanup, page>>
    PROVE  /\ registry' \in Seq(Runners) /\ IsInjective(registry')
           /\ Registered' = Registered \ {r}
           /\ conn' \in [Runners -> {"offline", "online", "busy"}]
           /\ steady' = steady \ {r} /\ shifted' \in BOOLEAN
           /\ cleanup = "listing" /\ ~shifted' =>
                 ~shifted /\ \A q \in Runners \ {r} : Ahead(q) => Ahead(q)'
           /\ cleanup # "listing" => shifted' = shifted
<1> USE DEF CleanupInv
<1>1. PICK i \in 1..Len(registry) :
        /\ registry[i] = r
        /\ registry' = RemoveAt(registry, i)
        /\ shifted' = (shifted \/ (cleanup = "listing" /\ i <= Cursor))
  BY DEF RemoveFromRegistry
<1>2. /\ registry' \in Seq(Runners) /\ IsInjective(registry')
      /\ ToSet(registry') = ToSet(registry) \ {r}
      /\ \A j \in 1..Len(registry) : j # i =>
            \E k \in 1..Len(registry') :
               registry'[k] = registry[j] /\ (k = j \/ (j > i /\ k = j - 1))
  <2>1. registry \in Seq(Runners) /\ IsInjective(registry)
    BY DEF CleanupTypeOK
  <2> DEFINE t == RemoveAt(registry, i)
  <2>2. /\ t \in Seq(Runners) /\ IsInjective(t)
        /\ ToSet(t) = ToSet(registry) \ {registry[i]}
        /\ \A j \in 1..Len(registry) : j # i =>
              \E k \in 1..Len(t) : t[k] = registry[j] /\ (k = j \/ (j > i /\ k = j - 1))
    BY <2>1, Removed
  <2>3. registry' = t
    BY <1>1
  <2> HIDE DEF t
  <2>4. QED
    BY <1>1, <2>2, <2>3
<1>3. ASSUME cleanup = "listing", ~shifted', NEW q \in Runners \ {r}, Ahead(q)
      PROVE  Ahead(q)'
  <2>1. PICK j \in 1..Len(registry) : j > Cursor /\ registry[j] = q
    BY <1>3 DEF Ahead
  <2>2. PICK k \in 1..Len(registry') :
           registry'[k] = registry[j] /\ (k = j \/ (j > i /\ k = j - 1))
    BY <1>1, <1>2, <2>1
  <2>3. Cursor' = Cursor /\ Cursor \in Nat /\ i \in Nat /\ j \in Nat
    BY CursorType DEF Cursor
  <2>4. ~(i <= Cursor)
    BY <1>1, <1>3, Zenon
  <2>5. k > Cursor'
    BY <2>1, <2>2, <2>3, <2>4
  <2>6. QED
    BY <2>1, <2>2, <2>5 DEF Ahead
<1>4. /\ conn' \in [Runners -> {"offline", "online", "busy"}]
      /\ steady' = steady \ {r} /\ shifted' \in BOOLEAN
  BY <1>1 DEF RemoveFromRegistry, CleanupTypeOK
<1>5. cleanup # "listing" => shifted' = shifted
  BY <1>1 DEF CleanupTypeOK
<1>6. ~shifted' => ~shifted
  BY <1>1
<1>7. QED
  BY <1>2, <1>3, <1>4, <1>5, <1>6 DEF Registered

\* GitHub, the command or another pool removes a runner.
LEMMA CleanupSeesRemoval ==
    ASSUME CleanupInv, NEW r \in Runners, GitHubRemoves(r)
    PROVE  CleanupInv'
<1>1. RemoveFromRegistry(r) /\ UNCHANGED <<cleanup, page, listed>>
  BY DEF GitHubRemoves, listVars
<1>2. /\ registry' \in Seq(Runners) /\ IsInjective(registry')
      /\ Registered' = Registered \ {r}
      /\ conn' \in [Runners -> {"offline", "online", "busy"}]
      /\ steady' = steady \ {r} /\ shifted' \in BOOLEAN
      /\ cleanup = "listing" /\ ~shifted' =>
            ~shifted /\ \A q \in Runners \ {r} : Ahead(q) => Ahead(q)'
      /\ cleanup # "listing" => shifted' = shifted
  BY <1>1, RunnerRemoved
<1>3. CleanupTypeOK'
  BY <1>1, <1>2 DEF CleanupInv, CleanupTypeOK
<1>4. ListInv'
  BY <1>1, <1>2 DEF CleanupInv, CleanupTypeOK, ListInv, MissedOnlyIfShifted, Runners
<1>5. QED
  BY <1>3, <1>4 DEF CleanupInv

\* deleteAllRunners begins: every runner is ahead of the first page.
LEMMA CleanupBegins == ASSUME CleanupInv, BeginCleanup PROVE CleanupInv'
<1> USE DEF CleanupInv
<1>1. UNCHANGED <<registry, conn, page, listed, shifted>> /\ cleanup' = "listing" /\ page = 1
  BY DEF BeginCleanup, ListInv, githubVars
<1>2. steady' = Own \intersect Registered
  BY DEF BeginCleanup
<1>3. CleanupTypeOK'
  BY <1>1, <1>2 DEF CleanupTypeOK, Registered
<1>4. Cursor' = 0
  BY <1>1, PageAssumption DEF Cursor
<1>5. ASSUME NEW r \in steady' PROVE Ahead(r)'
  <2>1. PICK i \in 1..Len(registry) : registry[i] = r
    BY <1>2, LenProperties DEF Registered, ToSet, CleanupTypeOK
  <2>2. i > 0
    BY LenProperties DEF CleanupTypeOK
  <2>3. QED
    BY <1>1, <1>4, <2>1, <2>2 DEF Ahead
<1>6. ListInv'
  BY <1>1, <1>5 DEF ListInv, MissedOnlyIfShifted
<1>7. QED
  BY <1>3, <1>6

\* It ends, in whatever way.
LEMMA CleanupEnds == ASSUME CleanupInv, EndCleanup PROVE CleanupInv'
<1>1. /\ UNCHANGED <<registry, conn>> /\ cleanup' = "idle" /\ page' = 1
      /\ listed' = {} /\ steady' = {} /\ shifted' = FALSE
  BY DEF EndCleanup, githubVars
<1>2. CleanupTypeOK'
  <2>1. registry' \in Seq(Runners) /\ IsInjective(registry')
    BY <1>1 DEF CleanupInv, CleanupTypeOK
  <2>2. listed' \in SUBSET Own /\ steady' \in SUBSET (Own \intersect Registered')
    BY <1>1
  <2>3. page' \in Nat \ {0} /\ cleanup' \in {"idle", "listing", "removing"}
    BY <1>1
  <2>4. shifted' \in BOOLEAN
    BY <1>1, Zenon
  <2>5. QED
    BY <1>1, <2>1, <2>2, <2>3, <2>4 DEF CleanupInv, CleanupTypeOK
<1>3. ListInv'
  BY <1>1 DEF ListInv, MissedOnlyIfShifted
<1>4. QED
  BY <1>2, <1>3 DEF CleanupInv

\* What was ahead of a page is on the page or on one of those behind it.
LEMMA PageTurns ==
    ASSUME CleanupTypeOK, NEW r \in Own, NEW i \in 1..Len(registry), i > Cursor, registry[i] = r
    PROVE  /\ i > Cursor + PerPage => HasNextPage
           /\ i <= Cursor + PerPage => r \in WithLabel(PageOf)
<1>1. Len(registry) \in Nat /\ Cursor \in Nat /\ PerPage \in Nat
  BY CursorType, PageAssumption, LenProperties DEF CleanupTypeOK
<1>2. i > Cursor + PerPage => HasNextPage
  BY <1>1 DEF HasNextPage
<1>3. i <= Cursor + PerPage => r \in PageOf
  BY <1>1 DEF PageOf
<1>4. QED
  BY <1>2, <1>3 DEF WithLabel

\* A page more has been read.
LEMMA NextCursor ==
    ASSUME CleanupTypeOK, page' = page + 1
    PROVE  Cursor' = Cursor + PerPage
<1>1. page \in Nat /\ PerPage \in Nat
  BY PageAssumption DEF CleanupTypeOK
<1>2. \A p \in Nat : (p + 1 - 1) * PerPage = (p - 1) * PerPage + PerPage
  BY <1>1
<1>3. \A p \in Nat : \A q : q = p + 1 => (q - 1) * PerPage = (p - 1) * PerPage + PerPage
  BY <1>2
<1>4. QED
  BY <1>1, <1>3 DEF Cursor

\* A page is listed: what was ahead is listed now, or is ahead of the next page.
LEMMA CleanupLists == ASSUME CleanupInv, ListPage PROVE CleanupInv'
<1> USE DEF CleanupInv
<1>1. /\ UNCHANGED <<registry, conn, steady, shifted>>
      /\ listed' = listed \union WithLabel(PageOf)
      /\ cleanup = "listing"
  BY DEF ListPage, githubVars, runVars
<1>2. CASE HasNextPage
  <2>1. page' = page + 1 /\ cleanup' = cleanup
    BY <1>2 DEF ListPage
  <2>2. CleanupTypeOK'
    BY <1>1, <2>1 DEF CleanupTypeOK, Registered, WithLabel
  <2>3. ASSUME ~shifted, NEW r \in steady PROVE r \in listed' \/ Ahead(r)'
    <3>1. CASE r \in listed
      BY <1>1, <3>1
    <3>2. CASE Ahead(r)
      <4>1. PICK i \in 1..Len(registry) : i > Cursor /\ registry[i] = r
        BY <3>2 DEF Ahead
      <4>2. CASE i > Cursor + PerPage
        BY <1>1, <2>1, <4>1, <4>2, NextCursor DEF Ahead
      <4>3. CASE i <= Cursor + PerPage
        <5>1. r \in Own
          BY DEF CleanupTypeOK
        <5>2. r \in WithLabel(PageOf)
          BY <4>1, <4>3, <5>1, PageTurns
        <5>3. QED
          BY <1>1, <5>2
      <4>4. i > Cursor + PerPage \/ i <= Cursor + PerPage
        BY CursorType, PageAssumption
      <4>5. QED
        BY <4>2, <4>3, <4>4
    <3>3. QED
      BY <1>1, <2>3, <3>1, <3>2 DEF ListInv
  <2>4. ListInv'
    BY <1>1, <2>1, <2>3 DEF ListInv, MissedOnlyIfShifted
  <2>5. QED
    BY <2>2, <2>4
<1>3. CASE ~HasNextPage
  <2>1. page' = page /\ cleanup' = "removing"
    BY <1>3 DEF ListPage
  <2>2. CleanupTypeOK'
    BY <1>1, <2>1 DEF CleanupTypeOK, Registered, WithLabel
  <2>3. ASSUME ~shifted, NEW r \in steady PROVE r \in listed'
    <3>1. CASE r \in listed
      BY <1>1, <3>1
    <3>2. CASE Ahead(r)
      <4>1. PICK i \in 1..Len(registry) : i > Cursor /\ registry[i] = r
        BY <3>2 DEF Ahead
      <4>2. r \in Own
        BY DEF CleanupTypeOK
      <4>3. ~(i > Cursor + PerPage)
        BY <1>3, <4>1, <4>2, PageTurns
      <4>4. i <= Cursor + PerPage
        BY <4>3, CursorType, PageAssumption
      <4>5. r \in WithLabel(PageOf)
        BY <4>1, <4>2, <4>4, PageTurns
      <4>6. QED
        BY <1>1, <4>5
    <3>3. QED
      BY <1>1, <2>3, <3>1, <3>2 DEF ListInv
  <2>4. ListInv'
    BY <1>1, <2>1, <2>3 DEF ListInv, MissedOnlyIfShifted
  <2>5. QED
    BY <2>2, <2>4
<1>4. QED
  BY <1>2, <1>3

\* A runner of the list is removed, from the list as well.
LEMMA CleanupRemoves == ASSUME CleanupInv, RemoveNext PROVE CleanupInv'
<1> USE DEF CleanupInv
<1>1. PICK r \in listed : RemoveFromRegistry(r) /\ listed' = listed \ {r}
  BY DEF RemoveNext
<1>2. cleanup = "removing" /\ UNCHANGED <<cleanup, page>>
  BY DEF RemoveNext
<1>3. r \in Runners
  BY <1>1 DEF CleanupTypeOK, Runners
<1>4. /\ registry' \in Seq(Runners) /\ IsInjective(registry')
      /\ Registered' = Registered \ {r}
      /\ conn' \in [Runners -> {"offline", "online", "busy"}]
      /\ steady' = steady \ {r} /\ shifted' \in BOOLEAN
      /\ cleanup # "listing" => shifted' = shifted
  BY <1>1, <1>2, <1>3, RunnerRemoved
<1>5. CleanupTypeOK'
  BY <1>1, <1>2, <1>4 DEF CleanupTypeOK
<1>6. ListInv'
  BY <1>1, <1>2, <1>4 DEF ListInv, MissedOnlyIfShifted
<1>7. QED
  BY <1>5, <1>6

\* A step of deleteAllRunners.
LEMMA CleanupStepKeeps == ASSUME CleanupInv, CleanupStep PROVE CleanupInv'
BY CleanupLists, CleanupRemoves, CleanupEnds DEF CleanupStep, CleanupCompletes, CleanupFails

-----------------------------------------------------------------------------
(* The end of a pool.                                                      *)

\* The variables of the pool have their types.
PoolTypeOK ==
    /\ pod \in [Own -> PodStates]
    /\ linked \in [Own -> BOOLEAN]
    /\ pool \in {"live", "deleting", "absent"}
    /\ manager \in {"running", "stopping", "none"}
    /\ deployment \in BOOLEAN
    /\ stops \in 0..MaxStops

\* The types of PoolEnd are those of its two parts.
LEMMA TypeParts == TypeOK <=> CleanupTypeOK /\ PoolTypeOK
BY DEF TypeOK, PoolTypeOK

\* A pod gets to another state.
LEMMA SetPodTypes ==
    ASSUME PoolTypeOK, NEW r \in Own, NEW state \in PodStates, SetPod(r, state)
    PROVE  PoolTypeOK'
BY DEF PoolTypeOK, SetPod

\* The types of the pool speak of its own variables only.
LEMMA PoolUnchanged == ASSUME PoolTypeOK, UNCHANGED poolVars PROVE PoolTypeOK'
BY DEF PoolTypeOK, poolVars

\* The inductive invariant.
EndInv == PoolTypeOK /\ CleanupInv

\* The steps of a pod, and those of a pass that are about it.
LEMMA PodKeeps ==
    ASSUME EndInv, NEW r \in Own, PodStep(r)
    PROVE  EndInv'
<1> USE DEF EndInv
<1>0. r \in Runners
  BY DEF Runners
<1>1. CASE ReplicaSetCreates(r)
  BY <1>1, SetPodTypes, CleanupUnchanged DEF ReplicaSetCreates, PodStates
<1>2. CASE Register(r)
  BY <1>0, <1>2, SetPodTypes, CleanupRegisters DEF Register, PodStates
<1>3. CASE Connect(r)
  BY <1>0, <1>3, PoolUnchanged, CleanupConnects DEF Connect
<1>4. CASE TakeJob(r)
  BY <1>0, <1>4, PoolUnchanged, CleanupConnects DEF TakeJob
<1>5. CASE FinishJob(r)
  BY <1>0, <1>5, SetPodTypes, CleanupSeesRemoval DEF FinishJob, PodStates
<1>6. CASE PodGoes(r)
  BY <1>0, <1>6, SetPodTypes, CleanupConnects DEF PodGoes, PodStates
<1>7. CASE GitHubForgets(r)
  BY <1>0, <1>7, PoolUnchanged, CleanupSeesRemoval DEF GitHubForgets
<1>8. CASE UnlinkPod(r)
  <2>1. PoolTypeOK'
    BY <1>8 DEF PoolTypeOK, UnlinkPod
  <2>2. QED
    BY <1>8, <2>1, CleanupUnchanged DEF UnlinkPod
<1>9. CASE RelaunchListener(r) \/ PodFails(r)
  <2>1. PICK state \in PodStates : SetPod(r, state)
    BY <1>9 DEF RelaunchListener, PodFails, PodStates
  <2>2. SetConnection(r, "offline")
    BY <1>9 DEF RelaunchListener, PodFails
  <2>3. QED
    BY <1>0, <2>1, <2>2, SetPodTypes, CleanupConnects
<1>10. QED
  BY <1>1, <1>2, <1>3, <1>4, <1>5, <1>6, <1>7, <1>8, <1>9
     DEF PodStep, CollectPod, DeleteFinishedPod, RecreatePod

\* Runners of other pools, and the command that removes runners.
LEMMA OthersKeep ==
    ASSUME EndInv,
           \/ \E r \in Others : OtherPools(r)
           \/ \E r \in Runners : OperatorRemoves(r)
    PROVE  EndInv'
<1> USE DEF EndInv
<1>1. ASSUME NEW r \in Runners, GitHubRemoves(r), UNCHANGED poolVars PROVE EndInv'
  BY <1>1, PoolUnchanged, CleanupSeesRemoval
<1>2. CASE \E r \in Runners : OperatorRemoves(r)
  BY <1>1, <1>2 DEF OperatorRemoves, CommandRemoves
<1>3. ASSUME NEW r \in Others, OtherPools(r) PROVE EndInv'
  <2>0. r \in Runners
    BY DEF Runners
  <2>1. CASE OtherRegisters(r)
    BY <2>0, <2>1, PoolUnchanged, CleanupRegisters DEF OtherRegisters
  <2>2. CASE OtherConnects(r)
    BY <2>0, <2>2, PoolUnchanged, CleanupConnects DEF OtherConnects
  <2>3. CASE OtherLeaves(r)
    BY <1>1, <2>0, <2>3 DEF OtherLeaves
  <2>4. QED
    BY <1>3, <2>1, <2>2, <2>3 DEF OtherPools
<1>4. QED
  BY <1>2, <1>3

\* The manage process, the finalizer and the Deployment.
LEMMA EndKeeps ==
    ASSUME EndInv,
           DeletePool \/ EndStep \/ Cleanup \/ StopAll \/ ControllerCrashes
    PROVE  EndInv'
<1> USE DEF EndInv
<1>1. CASE DeletePool \/ RemoveFinalizer \/ CollectDeployment \/ StartManager \/ ManagerEnds
  <2>1. PoolTypeOK'
    BY <1>1 DEF PoolTypeOK, DeletePool, RemoveFinalizer, CollectDeployment, StartManager,
                ManagerEnds, SetManager
  <2>2. UNCHANGED cleanupVars
    BY <1>1 DEF DeletePool, RemoveFinalizer, CollectDeployment, StartManager, ManagerEnds
  <2>3. QED
    BY <2>1, <2>2, CleanupUnchanged
<1>2. CASE Stop \/ StopAll
  <2>1. PoolTypeOK'
    BY <1>2, ReplicasAssumption DEF PoolTypeOK, Stop, StopAll, StopManager, SetManager
  <2>2. BeginCleanup
    BY <1>2 DEF Stop, StopAll, StopManager
  <2>3. QED
    BY <2>1, <2>2, CleanupBegins
<1>3. CASE ControllerCrashes
  <2>1. PoolTypeOK'
    BY <1>3, ReplicasAssumption DEF PoolTypeOK, ControllerCrashes, SetManager
  <2>2. CleanupInv'
    BY <1>3, CleanupEnds, CleanupUnchanged DEF ControllerCrashes, CleanupFails
  <2>3. QED
    BY <2>1, <2>2
<1>4. CASE Cleanup
  BY <1>4, PoolUnchanged, CleanupStepKeeps DEF Cleanup
<1>5. QED
  BY <1>1, <1>2, <1>3, <1>4 DEF EndStep

\* A pool begins with an empty registry.
LEMMA EndInit == Init => EndInv
<1> SUFFICES ASSUME Init PROVE EndInv
  OBVIOUS
<1>1. PoolTypeOK
  BY ReplicasAssumption DEF Init, PoolTypeOK, PodStates
<1>2. /\ registry = <<>> /\ conn = [r \in Runners |-> "offline"]
      /\ cleanup = "idle" /\ page = 1 /\ listed = {} /\ steady = {} /\ shifted = FALSE
  BY DEF Init, CleanupInit
<1>3. registry \in Seq(Runners) /\ IsInjective(registry)
  BY <1>2 DEF IsInjective
<1>4. CleanupTypeOK
  <2>1. listed \in SUBSET Own /\ steady \in SUBSET (Own \intersect Registered)
    BY <1>2
  <2>2. page \in Nat \ {0} /\ conn \in [Runners -> {"offline", "online", "busy"}]
    BY <1>2
  <2>3. shifted \in BOOLEAN
    BY <1>2, Zenon
  <2>4. QED
    BY <1>2, <1>3, <2>1, <2>2, <2>3 DEF CleanupTypeOK
<1>5. ListInv
  BY <1>2 DEF ListInv, MissedOnlyIfShifted
<1>6. QED
  BY <1>1, <1>4, <1>5 DEF EndInv, CleanupInv

\* Every step keeps the invariant.
LEMMA EndNext == EndInv /\ [Next]_vars => EndInv'
<1> SUFFICES ASSUME EndInv, [Next]_vars PROVE EndInv'
  OBVIOUS
<1>1. CASE UNCHANGED vars
  BY <1>1, PoolUnchanged, CleanupUnchanged DEF vars, EndInv
<1>2. CASE Next
  BY <1>2, PodKeeps, OthersKeep, EndKeeps DEF Next
<1>3. QED
  BY <1>1, <1>2

\* The invariant holds in every reachable state.
LEMMA EndInvariant == Spec => []EndInv
BY EndInit, EndNext, PTL DEF Spec

\* Every variable of PoolEnd and of the cleanup keeps its type: the registry never lists a
\* runner twice, and deleteAllRunners never holds a runner of another pool.
THEOREM TypeCorrect == Spec => []TypeOK
<1>1. EndInv => TypeOK
  BY TypeParts DEF EndInv, CleanupInv
<1>2. QED
  BY <1>1, EndInvariant, PTL

\* However long the list, whatever is registered while it is read and wherever GitHub puts
\* it: ListRunners returns every runner of the pool that stays registered, unless a runner
\* on a page that was already read is removed meanwhile.
THEOREM OnlyShiftsMiss == Spec => []MissedOnlyIfShifted
<1>1. EndInv => MissedOnlyIfShifted
  BY DEF EndInv, CleanupInv, ListInv
<1>2. QED
  BY <1>1, EndInvariant, PTL
=============================================================================
