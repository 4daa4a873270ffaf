------------------------ MODULE RequestCutoverProofs ------------------------
(***************************************************************************)
(* Proofs about RequestGate and about RequestCutover, which extends it, for *)
(* any requests, bodies, controllers and rows, any limits and any number of *)
(* holds.                                                                   *)
(*                                                                          *)
(* The gate's invariants are proved of HostSpec, whose steps include those  *)
(* of Spec, so they hold with and without power losses.                     *)
(***************************************************************************)
EXTENDS RequestCutover, FiniteSetTheorems, TLAPS

-----------------------------------------------------------------------------
(* Types.                                                                   *)

LEMMA RequestType ==
  ASSUME TypeOK, NEW r \in Requests, RequestStep(r)
  PROVE  TypeOK'
<1> USE GateAssumption
<1>1. CASE ArriveOpen(r)
  BY <1>1 DEF TypeOK, ArriveOpen, Forward, Destinations, States
<1>2. CASE ArriveHeld(r)
  BY <1>2 DEF TypeOK, ArriveHeld, States
<1>3. CASE ArriveAborting(r)
  BY <1>3 DEF TypeOK, ArriveAborting, AbortLocked, Forward, Destinations,
              States, Phases, None
<1>4. CASE ArriveBlocked(r)
  BY <1>4 DEF TypeOK, ArriveBlocked, States
<1>5. CASE WakeForward(r)
  BY <1>5 DEF TypeOK, WakeForward, Release, Forward, Destinations, States
<1>6. CASE WakeBlocked(r)
  BY <1>6 DEF TypeOK, WakeBlocked, Release, States
<1>7. CASE WakeDisconnected(r)
  BY <1>7 DEF TypeOK, WakeDisconnected, Release, AbortLocked, States, Phases,
              None
<1>8. CASE CancelWaiting(r)
  BY <1>8 DEF TypeOK, CancelWaiting, Release, States
<1>9. CASE Complete(r)
  BY <1>9 DEF TypeOK, Complete, States
<1>10. CASE Break(r)
  BY <1>10 DEF TypeOK, Break, States
<1>11. CASE Finish(r)
  <2>1. inflight' \in [Destinations -> Int]
    BY <1>11 DEF TypeOK, Finish, Destinations
  <2>2. pc' \in [Requests -> States]
    BY <1>11 DEF TypeOK, Finish, States
  <2>3. phase' \in Phases /\ token' \in 0..holds
    BY <1>11 DEF TypeOK, Finish, AbortLocked, Phases, None
  <2>4. QED
    BY <1>11, <2>1, <2>2, <2>3 DEF TypeOK, Finish
<1>12. QED
  BY <1>1, <1>2, <1>3, <1>4, <1>5, <1>6, <1>7, <1>8, <1>9, <1>10, <1>11
  DEF RequestStep

LEMMA TimerType ==
  ASSUME TypeOK, TimerStep
  PROVE  TypeOK'
<1>1. CASE DeadlinePasses
  BY <1>1 DEF TypeOK, DeadlinePasses
<1>2. ASSUME NEW t \in watchdogs, Expire(t)
      PROVE  TypeOK'
  BY <1>2 DEF TypeOK, Expire, AbortLocked, Phases, None
<1>3. QED
  BY <1>1, <1>2 DEF TimerStep

LEMMA AdminType ==
  ASSUME TypeOK, AdminStep
  PROVE  TypeOK'
<1>1. CASE Begin
  BY <1>1, GateAssumption DEF TypeOK, Begin, Phases
<1>2. ASSUME NEW t \in 1..holds, NEW matched \in BOOLEAN, CommitDurably(t, matched)
      PROVE  TypeOK'
  BY <1>2 DEF TypeOK, CommitDurably, Phases
<1>3. ASSUME NEW t \in 1..holds, NEW matched \in BOOLEAN, CommitUncertain(t, matched)
      PROVE  TypeOK'
  BY <1>3 DEF TypeOK, CommitUncertain, Phases, None
<1>4. ASSUME NEW t \in 1..holds, NEW matched \in BOOLEAN, CrashInCommit(t, matched)
      PROVE  TypeOK'
  BY <1>4 DEF TypeOK, CrashInCommit, Die, Phases, Destinations, States, None
<1>5. ASSUME NEW t \in 0..holds, AdminAbort(t)
      PROVE  TypeOK'
  BY <1>5 DEF TypeOK, AdminAbort, AbortLocked, Phases, None
<1>6. QED
  BY <1>1, <1>2, <1>3, <1>4, <1>5 DEF AdminStep

LEMMA TypeStep ==
  ASSUME TypeOK, [HostNext]_gateVars
  PROVE  TypeOK'
<1>1. CASE Crash
  BY <1>1 DEF TypeOK, Crash, Die, Phases, Destinations, States, None
<1>2. CASE Restart
  BY <1>2 DEF TypeOK, Restart, Phases
<1>3. CASE PowerLoss
  BY <1>3 DEF TypeOK, PowerLoss, Die, Phases, Destinations, States, None
<1>4. CASE Writeback
  BY <1>4 DEF TypeOK, Writeback
<1>5. CASE UNCHANGED gateVars
  BY <1>5 DEF TypeOK, gateVars
<1>6. QED
  BY <1>1, <1>2, <1>3, <1>4, <1>5, RequestType, TimerType, AdminType
  DEF HostNext, Next

LEMMA TypeInit == Init => TypeOK
BY GateAssumption DEF Init, TypeOK, Phases, Destinations, States, None

(***************************************************************************)
(* Every variable keeps its type on every run of the gate, power losses    *)
(* included.                                                               *)
(***************************************************************************)
THEOREM TypeCorrect == HostSpec => []TypeOK
<1>1. TypeOK /\ [HostNext]_gateVars => TypeOK'
  BY TypeStep
<1>2. QED
  BY TypeInit, <1>1, PTL DEF HostSpec

-----------------------------------------------------------------------------
(* Counting.  A step of a handler moves at most its own request in or out   *)
(* of the sets that the counters count.                                     *)

LEMMA CountedFinite ==
  /\ IsFiniteSet(Held)
  /\ \A d \in Destinations : IsFiniteSet(Served(d))
BY GateAssumption, FS_Subset DEF Held, Served

LEMMA CountIn ==
  ASSUME NEW S, IsFiniteSet(S), NEW x, x \notin S
  PROVE  Cardinality(S \union {x}) = Cardinality(S) + 1
BY FS_AddElement

LEMMA CountOut ==
  ASSUME NEW S, IsFiniteSet(S), NEW x \in S
  PROVE  Cardinality(S \ {x}) = Cardinality(S) - 1
BY FS_RemoveElement

LEMMA CountNone ==
  ASSUME NEW S, IsFiniteSet(S), Cardinality(S) = 0
  PROVE  S = {}
BY FS_EmptySet

\* Admission of a request that no destination serves yet.
LEMMA ForwardCounts ==
  ASSUME TypeOK, CountersMatch, NEW r \in Requests, NEW e \in Destinations,
         pc[r] \in {"idle", "waiting"}, Forward(r, e)
  PROVE  /\ Served(e)' = Served(e) \union {r}
         /\ \A d \in Destinations : d # e => Served(d)' = Served(d)
         /\ \A d \in Destinations : inflight'[d] = Cardinality(Served(d)')
         /\ Held' = Held \ {r}
<1>1. r \notin Served(e)
  BY DEF Served
<1>2. Served(e)' = Served(e) \union {r}
  BY DEF Served, Forward, TypeOK
<1>3. \A d \in Destinations : d # e => Served(d)' = Served(d)
  BY DEF Served, Forward, TypeOK
<1>4. inflight'[e] = Cardinality(Served(e)')
  BY <1>1, <1>2, CountIn, CountedFinite DEF Forward, TypeOK, CountersMatch
<1>5. \A d \in Destinations : d # e => inflight'[d] = Cardinality(Served(d)')
  BY <1>3 DEF Forward, TypeOK, CountersMatch
<1>6. Held' = Held \ {r}
  BY DEF Held, Forward, TypeOK
<1>7. QED
  BY <1>2, <1>3, <1>4, <1>5, <1>6

\* A reservation is given back by the request that holds it.
LEMMA ReleaseCounts ==
  ASSUME TypeOK, CountersMatch, NEW r \in Requests, pc[r] = "waiting",
         Release(r), Held' = Held \ {r}
  PROVE  waiters' = Cardinality(Held')
BY CountOut, CountedFinite DEF Held, Release, CountersMatch

\* A handler that changes only its own pc, from and to places outside the
\* sets counted in inflight.
LEMMA RefuseCounts ==
  ASSUME TypeOK, NotAdmitted, NEW r \in Requests, pc[r] \in {"idle", "waiting"},
         pc' = [pc EXCEPT ![r] = "failed"], dest' = dest
  PROVE  /\ \A d \in Destinations : Served(d)' = Served(d)
         /\ Held' = Held \ {r}
BY DEF Served, Held, TypeOK, NotAdmitted, Destinations

LEMMA DieCounts ==
  ASSUME TypeOK, Die
  PROVE  /\ \A d \in Destinations : Served(d)' = {}
         /\ Held' = {}
         /\ CountersMatch'
<1>1. (\A d \in Destinations : Served(d)' = {}) /\ Held' = {}
  BY DEF Served, Held, Die, TypeOK, States
<1>2. QED
  BY <1>1, FS_EmptySet DEF CountersMatch, Die

LEMMA FinishCounts ==
  ASSUME TypeOK, CountersMatch, NEW r \in Requests, Finish(r)
  PROVE  /\ \A d \in Destinations : Served(d)' = Served(d) \ {r}
         /\ CountersMatch'
<1>1. \A d \in Destinations : Served(d)' = Served(d) \ {r}
  BY DEF Served, Finish, TypeOK
<1>2. Held' = Held
  BY DEF Held, Finish, TypeOK
<1>3. ASSUME NEW d \in Destinations, dest[r] = d
      PROVE  inflight'[d] = Cardinality(Served(d)')
  <2>1. r \in Served(d)
    BY <1>3 DEF Served, Finish
  <2>2. Cardinality(Served(d) \ {r}) = Cardinality(Served(d)) - 1
    BY <2>1, CountOut, CountedFinite
  <2>3. inflight'[d] = inflight[d] - 1
    BY <1>3 DEF Finish, TypeOK
  <2>4. QED
    BY <2>2, <2>3, <1>1 DEF CountersMatch
<1>4. ASSUME NEW d \in Destinations, dest[r] # d
      PROVE  inflight'[d] = Cardinality(Served(d)')
  <2>1. Served(d)' = Served(d)
    BY <1>4, <1>1 DEF Served
  <2>2. inflight'[d] = inflight[d]
    BY <1>4 DEF Finish, TypeOK
  <2>3. QED
    BY <2>1, <2>2 DEF CountersMatch
<1>5. QED
  BY <1>1, <1>2, <1>3, <1>4 DEF CountersMatch, Finish

LEMMA AdmissionStep ==
  ASSUME TypeOK, NotAdmitted, NEW r \in Requests, RequestStep(r)
  PROVE  NotAdmitted'
BY DEF NotAdmitted, TypeOK, RequestStep, ArriveOpen, ArriveHeld, ArriveAborting,
       ArriveBlocked, WakeForward, WakeBlocked, WakeDisconnected, CancelWaiting,
       Complete, Break, Finish, Forward

(***************************************************************************)
(* One step of a request's handler keeps the counters and the fence.       *)
(***************************************************************************)
LEMMA RequestInv ==
  ASSUME GateInv, NEW r \in Requests, RequestStep(r)
  PROVE  CountersMatch' /\ AuthorityFence'
<1> USE DEF GateInv
<1>1. CASE ArriveOpen(r)
  <2>1. PICK e \in Destinations : phase = e /\ Forward(r, e)
    BY <1>1 DEF ArriveOpen
  <2>2. pc[r] = "idle"
    BY <1>1 DEF ArriveOpen
  <2>3. Held' = Held
    BY <2>1, <2>2, ForwardCounts DEF Held
  <2>4. CountersMatch'
    BY <1>1, <2>1, <2>2, <2>3, ForwardCounts DEF ArriveOpen, CountersMatch
  <2>5. AuthorityFence'
    BY <1>1, <2>1, <2>2, ForwardCounts
    DEF ArriveOpen, AuthorityFence, Destinations
  <2>6. QED
    BY <2>4, <2>5
<1>2. CASE ArriveHeld(r)
  <2>1. \A d \in Destinations : Served(d)' = Served(d)
    BY <1>2 DEF ArriveHeld, Served, TypeOK
  <2>2. Held' = Held \union {r} /\ r \notin Held
    BY <1>2 DEF ArriveHeld, Held, TypeOK
  <2>3. waiters' = Cardinality(Held')
    BY <1>2, <2>2, CountIn, CountedFinite DEF ArriveHeld, CountersMatch
  <2>4. QED
    BY <1>2, <2>1, <2>3 DEF ArriveHeld, CountersMatch, AuthorityFence, Destinations
<1>3. CASE ArriveAborting(r)
  <2>1. Forward(r, "V1") /\ pc[r] = "idle" /\ "V1" \in Destinations
    BY <1>3 DEF ArriveAborting, Destinations
  <2>2. Held' = Held
    BY <2>1, ForwardCounts DEF Held
  <2>3. CountersMatch'
    BY <1>3, <2>1, <2>2, ForwardCounts DEF ArriveAborting, CountersMatch
  <2>4. AuthorityFence'
    BY <1>3, <2>1, ForwardCounts
    DEF ArriveAborting, AbortLocked, AuthorityFence, Destinations
  <2>5. QED
    BY <2>3, <2>4
<1>4. CASE ArriveBlocked(r)
  <2>1. (\A d \in Destinations : Served(d)' = Served(d)) /\ Held' = Held \ {r}
    BY <1>4, RefuseCounts DEF ArriveBlocked
  <2>2. Held' = Held
    BY <1>4, <2>1 DEF ArriveBlocked, Held
  <2>3. QED
    BY <1>4, <2>1, <2>2
    DEF ArriveBlocked, CountersMatch, AuthorityFence, Destinations
<1>5. CASE WakeForward(r)
  <2>1. PICK e \in Destinations : phase = e /\ Forward(r, e)
    BY <1>5 DEF WakeForward
  <2>2. pc[r] = "waiting" /\ Release(r)
    BY <1>5 DEF WakeForward
  <2>3. CountersMatch'
    BY <2>1, <2>2, ForwardCounts, ReleaseCounts DEF CountersMatch
  <2>4. AuthorityFence'
    BY <1>5, <2>1, <2>2, ForwardCounts
    DEF WakeForward, AuthorityFence, Destinations
  <2>5. QED
    BY <2>3, <2>4
<1>6. CASE WakeBlocked(r) \/ CancelWaiting(r)
  <2>1. (\A d \in Destinations : Served(d)' = Served(d)) /\ Held' = Held \ {r}
    BY <1>6, RefuseCounts DEF WakeBlocked, CancelWaiting
  <2>2. CountersMatch'
    BY <1>6, <2>1, ReleaseCounts DEF WakeBlocked, CancelWaiting, CountersMatch
  <2>3. AuthorityFence'
    BY <1>6, <2>1 DEF WakeBlocked, CancelWaiting, AuthorityFence, Destinations
  <2>4. QED
    BY <2>2, <2>3
<1>7. CASE WakeDisconnected(r)
  <2>1. (\A d \in Destinations : Served(d)' = Served(d)) /\ Held' = Held \ {r}
    BY <1>7, RefuseCounts DEF WakeDisconnected
  <2>2. CountersMatch'
    BY <1>7, <2>1, ReleaseCounts DEF WakeDisconnected, CountersMatch
  <2>3. AuthorityFence'
    BY <1>7, <2>1 DEF WakeDisconnected, AbortLocked, AuthorityFence, Destinations
  <2>4. QED
    BY <2>2, <2>3
<1>8. CASE Complete(r) \/ Break(r)
  <2>1. (\A d \in Destinations : Served(d)' = Served(d)) /\ Held' = Held
    BY <1>8 DEF Complete, Break, Served, Held, TypeOK
  <2>2. QED
    BY <1>8, <2>1 DEF Complete, Break, CountersMatch, AuthorityFence, Destinations
<1>9. CASE Finish(r)
  <2>1. AuthorityFence'
    BY <1>9, FinishCounts DEF Finish, AbortLocked, AuthorityFence, Destinations
  <2>2. QED
    BY <1>9, <2>1, FinishCounts
<1>10. QED
  BY <1>1, <1>2, <1>3, <1>4, <1>5, <1>6, <1>7, <1>8, <1>9 DEF RequestStep

\* Steps that leave every request where it stands leave the counts alone.
LEMMA SameCounts ==
  ASSUME UNCHANGED <<pc, dest>>
  PROVE  /\ \A d \in Destinations : Served(d)' = Served(d)
         /\ Held' = Held
BY DEF Served, Held

LEMMA TimerInv ==
  ASSUME GateInv, TimerStep
  PROVE  GateInv'
<1> USE DEF GateInv
<1>1. TypeOK'
  BY TimerType
<1>2. CASE DeadlinePasses
  BY <1>1, <1>2, SameCounts
  DEF DeadlinePasses, NotAdmitted, CountersMatch, AuthorityFence, Destinations
<1>3. ASSUME NEW t \in watchdogs, Expire(t)
      PROVE  GateInv'
  BY <1>1, <1>3, SameCounts
  DEF Expire, AbortLocked, NotAdmitted, CountersMatch, AuthorityFence,
      Destinations
<1>4. QED
  BY <1>2, <1>3 DEF TimerStep

\* The zero that commit() reads is the absence of V1 requests, and under a
\* hold V2 serves nobody either.
LEMMA CommitFence ==
  ASSUME GateInv, NEW t, NEW matched, Acceptable(t, matched)
  PROVE  \A d \in Destinations : Served(d) = {}
<1>1. Served("V1") = {}
  BY CountNone, CountedFinite
  DEF GateInv, CountersMatch, Acceptable, Destinations
<1>2. Served("V2") = {}
  BY DEF GateInv, AuthorityFence, Acceptable
<1>3. QED
  BY <1>1, <1>2 DEF Destinations

LEMMA DieInv ==
  ASSUME GateInv, Die
  PROVE  NotAdmitted' /\ CountersMatch' /\ AuthorityFence'
<1>1. NotAdmitted'
  BY DEF GateInv, NotAdmitted, Die, TypeOK, States
<1>2. AuthorityFence'
  BY DieCounts DEF GateInv, AuthorityFence, Die, Destinations
<1>3. QED
  BY <1>1, <1>2, DieCounts DEF GateInv

LEMMA AdminInv ==
  ASSUME GateInv, AdminStep
  PROVE  GateInv'
<1> USE DEF GateInv
<1>1. TypeOK'
  BY AdminType
<1>2. CASE Begin
  BY <1>1, <1>2, SameCounts
  DEF Begin, NotAdmitted, CountersMatch, AuthorityFence, Destinations
<1>3. ASSUME NEW t \in 1..holds, NEW matched \in BOOLEAN,
             CommitDurably(t, matched) \/ CommitUncertain(t, matched)
      PROVE  GateInv'
  <2>1. \A d \in Destinations : Served(d)' = {}
    BY <1>3, CommitFence, SameCounts DEF CommitDurably, CommitUncertain
  <2>2. CountersMatch' /\ NotAdmitted'
    BY <1>3, SameCounts
    DEF CommitDurably, CommitUncertain, CountersMatch, NotAdmitted
  <2>3. AuthorityFence'
    BY <1>3, <2>1
    DEF CommitDurably, CommitUncertain, AuthorityFence, Destinations
  <2>4. QED
    BY <1>1, <2>2, <2>3
<1>4. ASSUME NEW t \in 1..holds, NEW matched \in BOOLEAN, CrashInCommit(t, matched)
      PROVE  GateInv'
  BY <1>1, <1>4, DieInv DEF CrashInCommit
<1>5. ASSUME NEW t \in 0..holds, AdminAbort(t)
      PROVE  GateInv'
  BY <1>1, <1>5, SameCounts
  DEF AdminAbort, AbortLocked, NotAdmitted, CountersMatch, AuthorityFence,
      Destinations
<1>6. QED
  BY <1>2, <1>3, <1>4, <1>5 DEF AdminStep

LEMMA GateStep ==
  ASSUME GateInv, [HostNext]_gateVars
  PROVE  GateInv'
<1> USE DEF GateInv
<1>1. TypeOK'
  BY TypeStep
<1>2. ASSUME NEW r \in Requests, RequestStep(r)
      PROVE  GateInv'
  BY <1>1, <1>2, RequestInv, AdmissionStep
<1>3. CASE Crash \/ PowerLoss
  BY <1>1, <1>3, DieInv DEF Crash, PowerLoss
<1>4. CASE Restart
  BY <1>1, <1>4, SameCounts
  DEF Restart, NotAdmitted, CountersMatch, AuthorityFence, Destinations, TypeOK
<1>5. CASE Writeback
  BY <1>1, <1>5, SameCounts
  DEF Writeback, NotAdmitted, CountersMatch, AuthorityFence, Destinations
<1>6. CASE UNCHANGED gateVars
  BY <1>1, <1>6, SameCounts
  DEF gateVars, NotAdmitted, CountersMatch, AuthorityFence, Destinations
<1>7. QED
  BY <1>2, <1>3, <1>4, <1>5, <1>6, TimerInv, AdminInv DEF HostNext, Next

LEMMA GateInit == Init => GateInv
<1> SUFFICES ASSUME Init
             PROVE  GateInv
  OBVIOUS
<1>1. TypeOK
  BY TypeInit
<1>2. Held = {} /\ \A d \in Destinations : Served(d) = {}
  BY DEF Init, Held, Served
<1>3. CountersMatch
  BY <1>2, FS_EmptySet DEF Init, CountersMatch
<1>4. NotAdmitted /\ AuthorityFence
  BY <1>2 DEF Init, NotAdmitted, AuthorityFence, Destinations
<1>5. QED
  BY <1>1, <1>3, <1>4 DEF GateInv

LEMMA GateInvariant == HostSpec => []GateInv
<1>1. GateInv /\ [HostNext]_gateVars => GateInv'
  BY GateStep
<1>2. QED
  BY GateInit, <1>1, PTL DEF HostSpec

(***************************************************************************)
(* The counters are the requests they count, whatever fails.               *)
(***************************************************************************)
THEOREM CountersCorrect == HostSpec => []CountersMatch
<1>1. GateInv => CountersMatch
  BY DEF GateInv
<1>2. QED
  BY GateInvariant, <1>1, PTL

(***************************************************************************)
(* V1 serves nobody from the moment the commit is written, V2 nobody       *)
(* before the journal is published, and a BLOCKED gate nobody at all.      *)
(***************************************************************************)
THEOREM FenceCorrect == HostSpec => []AuthorityFence
<1>1. GateInv => AuthorityFence
  BY DEF GateInv
<1>2. QED
  BY GateInvariant, <1>1, PTL

-----------------------------------------------------------------------------
(* The sum of the bodies.  A fold over a set is a CHOOSE of a function that *)
(* calls itself; that there is one, that it does not depend on the set the  *)
(* domain is taken from, and that any element may be taken first, follow    *)
(* from the well-foundedness of the strict subset relation of a finite set: *)
(* each is proved of a least counterexample.                                *)

\* A non-empty collection of subsets of a finite set has a minimal one.
LEMMA LeastSet ==
  ASSUME NEW S, IsFiniteSet(S), NEW X \in SUBSET (SUBSET S), X # {}
  PROVE  \E x \in X : \A y \in X : y \subseteq x => y = x
<1>1. IsWellFoundedOn(StrictSubsetOrdering(S), SUBSET S)
  BY FS_FiniteSubsetsOfFinite, FS_StrictSubsetOrderingWellFounded
<1>2. \E x \in X : \A y \in X : <<y, x>> \notin StrictSubsetOrdering(S)
  BY <1>1, WFMin
<1>3. PICK x \in X : \A y \in X : <<y, x>> \notin StrictSubsetOrdering(S)
  BY <1>2
<1>4. ASSUME NEW y \in X, y \subseteq x, y # x PROVE FALSE
  <2>1. <<y, x>> \in (SUBSET S) \X (SUBSET S)
    OBVIOUS
  <2>2. <<y, x>> \in StrictSubsetOrdering(S)
    BY <1>4, <2>1 DEF StrictSubsetOrdering
  <2> QED
    BY <2>2, <1>3
<1> QED
  BY <1>4

\* The element the fold takes first.
First(s) == CHOOSE r \in s : TRUE

\* g sums the sizes of every subset of S.
IsFold(g, S) ==
  g = [s \in SUBSET S |-> IF s = {} THEN 0 ELSE Size[First(s)] + g[s \ {First(s)}]]

LEMMA FoldIs ==
  ASSUME NEW S
  PROVE  BodiesOf(S) = (CHOOSE g : IsFold(g, S))[S]
  BY Zenon DEF BodiesOf, MapThenFoldSet, IsFold, First

\* A non-empty set of numbers up to n has a least one.
LEMMA LeastNumber ==
  ASSUME NEW n \in Nat, NEW X \in SUBSET (0..n), X # {}
  PROVE  \E m \in X : \A k \in X : m <= k
<1> DEFINE S == 0..n
           Y == {0..m : m \in X}
<1>1. Y \in SUBSET (SUBSET S) /\ Y # {}
  <2>1. ASSUME NEW m \in X PROVE 0..m \subseteq 0..n
    OBVIOUS
  <2>2. \A s \in Y : s \in SUBSET (0..n)
    BY <2>1
  <2>3. PICK m : m \in X
    OBVIOUS
  <2>4. 0..m \in Y
    BY <2>3
  <2> QED
    BY <2>2, <2>4
<1>2. IsFiniteSet(S)
  BY FS_Interval
<1> HIDE DEF Y, S
<1>3. PICK s \in Y : \A t \in Y : t \subseteq s => t = s
  BY <1>1, <1>2, LeastSet
<1> USE DEF Y
<1>4. PICK m \in X : s = 0..m
  BY <1>3
<1>5. ASSUME NEW k \in X, k < m PROVE FALSE
  <2>1. 0..k \in Y /\ 0..k \subseteq s /\ m \in s /\ m \notin 0..k
    BY <1>4, <1>5
  <2> QED
    BY <2>1, <1>3
<1> QED
  BY <1>5

\* One unfolding of the fold of s with g for the rest ...
Sum(g, s) == IF s = {} THEN 0 ELSE Size[First(s)] + g[s \ {First(s)}]

\* ... which g obeys on the subsets of S with at most n elements.
UpTo(g, S, n) == \A s \in SUBSET S : Cardinality(s) <= n => g[s] = Sum(g, s)

\* The fold of a finite set exists: longer and longer partial ones do.
LEMMA FoldExists ==
  ASSUME NEW S, IsFiniteSet(S)
  PROVE  \E g : IsFold(g, S)
<1> DEFINE N == Cardinality(S)
           X == {n \in 0..N : ~ \E g : UpTo(g, S, n)}
<1>1. N \in Nat /\ \A s \in SUBSET S : Cardinality(s) \in Nat /\ Cardinality(s) <= N
                                       /\ IsFiniteSet(s)
  BY FS_CardinalityType, FS_Subset
<1>2. X = {}
  <2>1. SUFFICES ASSUME X # {} PROVE FALSE
    OBVIOUS
  <2>2. PICK m \in X : \A k \in X : m <= k
    BY <1>1, <2>1, LeastNumber
  <2>3. CASE m = 0
    <3>1. UpTo([s \in SUBSET S |-> 0], S, 0)
      BY <1>1, FS_EmptySet DEF UpTo, Sum
    <3> QED
      BY <2>2, <2>3, <3>1
  <2>4. CASE m # 0
    <3>1. m - 1 \in 0..N /\ m - 1 \notin X
      BY <1>1, <2>2, <2>4
    <3>2. PICK g : UpTo(g, S, m - 1)
      BY <3>1
    <3> DEFINE h == [s \in SUBSET S |-> IF Cardinality(s) < m THEN g[s] ELSE Sum(g, s)]
    <3>3. ASSUME NEW s \in SUBSET S, Cardinality(s) <= m
          PROVE  h[s] = Sum(h, s)
      <4>1. CASE s = {}
        <5>1. Cardinality(s) < m
          BY <4>1, <2>4, <2>2, <1>1, FS_EmptySet
        <5>2. g[s] = 0
          <6>1. Cardinality(s) <= m - 1
            BY <5>1, <1>1, <2>2
          <6>2. g[s] = Sum(g, s)
            BY <3>2, <6>1 DEF UpTo
          <6> QED
            BY <6>2, <4>1 DEF Sum
        <5> QED
          BY <4>1, <5>1, <5>2 DEF Sum
      <4>2. CASE s # {}
        <5> DEFINE x == First(s)
        <5>1. x \in s
          BY <4>2 DEF First
        <5> HIDE DEF x
        <5>2. s \ {x} \in SUBSET S /\ Cardinality(s \ {x}) = Cardinality(s) - 1
          BY <5>1, <1>1, FS_RemoveElement
        <5>3. h[s \ {x}] = g[s \ {x}]
          BY <5>2, <3>3, <1>1, <2>2
        <5>4. Sum(h, s) = Sum(g, s)
          BY <5>3, <4>2 DEF Sum, x
        <5>5. h[s] = Sum(g, s)
          BY <3>2, <1>1, <2>2 DEF UpTo
        <5> QED
          BY <5>4, <5>5
      <4> QED
        BY <4>1, <4>2
    <3>4. UpTo(h, S, m)
      BY <3>3 DEF UpTo
    <3> QED
      BY <2>2, <3>4
  <2> QED
    BY <2>3, <2>4
<1>3. PICK g : UpTo(g, S, N)
  BY <1>1, <1>2
<1> DEFINE h == [s \in SUBSET S |-> g[s]]
<1>4. \A s \in SUBSET S : s \ {First(s)} \in SUBSET S
  OBVIOUS
<1>5. \A s \in SUBSET S : h[s] = Sum(h, s)
  BY <1>1, <1>3, <1>4 DEF UpTo, Sum
<1>6. IsFold(h, S)
  BY <1>5 DEF IsFold, Sum
<1> QED
  BY <1>6

\* The fold of a set is one function, whatever set it is taken in.
LEMMA FoldUnique ==
  ASSUME NEW S, IsFiniteSet(S), NEW R, S \subseteq R, NEW g, NEW h, IsFold(g, S), IsFold(h, R)
  PROVE  \A s \in SUBSET S : g[s] = h[s]
<1> DEFINE X == {s \in SUBSET S : g[s] # h[s]}
<1>1. SUFFICES ASSUME X # {} PROVE FALSE
  OBVIOUS
<1>a. X \in SUBSET (SUBSET S)
  OBVIOUS
<1> HIDE DEF X
<1>2. PICK s \in X : \A t \in X : t \subseteq s => t = s
  BY <1>1, <1>a, LeastSet
<1> USE DEF X
<1>3. s \in SUBSET S /\ s \in SUBSET R /\ g[s] # h[s]
  BY <1>2
<1>4. s # {}
  BY <1>3 DEF IsFold
<1>5. First(s) \in s
  BY <1>4 DEF First
<1>6. s \ {First(s)} \in SUBSET S /\ s \ {First(s)} \notin X
  BY <1>2, <1>5
<1>7. g[s \ {First(s)}] = h[s \ {First(s)}]
  BY <1>6
<1>8. /\ g[s] = Size[First(s)] + g[s \ {First(s)}]
      /\ h[s] = Size[First(s)] + h[s \ {First(s)}]
  BY <1>3, <1>4 DEF IsFold
<1> QED
  BY <1>3, <1>7, <1>8

\* What the steps below use of the sum.
LEMMA BodiesDef ==
  ASSUME NEW S \in SUBSET Requests
  PROVE  /\ BodiesOf(S) \in Nat
         /\ BodiesOf({}) = 0
         /\ \A r \in S : BodiesOf(S) = Size[r] + BodiesOf(S \ {r})
<1> DEFINE g == CHOOSE g : IsFold(g, Requests)
<1>1. IsFold(g, Requests)
  BY FoldExists, GateAssumption
<1> HIDE DEF g
<1>2. ASSUME NEW s \in SUBSET Requests PROVE BodiesOf(s) = g[s]
  <2> DEFINE h == CHOOSE h : IsFold(h, s)
  <2>1. IsFiniteSet(s)
    BY GateAssumption, FS_Subset
  <2>2. IsFold(h, s)
    BY <2>1, FoldExists
  <2>3. BodiesOf(s) = h[s]
    BY FoldIs
  <2> HIDE DEF h
  <2> QED
    BY <1>1, <2>1, <2>2, <2>3, FoldUnique
<1>3. ASSUME NEW s \in SUBSET Requests
      PROVE  g[s] = IF s = {} THEN 0 ELSE Size[First(s)] + g[s \ {First(s)}]
  BY <1>1 DEF IsFold
<1>4. ASSUME NEW s \in SUBSET Requests, s # {} PROVE First(s) \in s
  BY <1>4 DEF First
<1>5. \A s \in SUBSET Requests : g[s] \in Nat
  <2> DEFINE X == {s \in SUBSET Requests : g[s] \notin Nat}
  <2>1. SUFFICES ASSUME X # {} PROVE FALSE
    OBVIOUS
  <2>a. X \in SUBSET (SUBSET Requests)
    OBVIOUS
  <2> HIDE DEF X
  <2>2. PICK s \in X : \A t \in X : t \subseteq s => t = s
    BY <2>1, <2>a, LeastSet, GateAssumption
  <2> USE DEF X
  <2>b. s \in SUBSET Requests /\ g[s] \notin Nat
    BY <2>2
  <2>3. s # {}
    BY <2>b, <1>3
  <2>4. First(s) \in s /\ s \ {First(s)} \notin X
    BY <1>4, <2>2, <2>3
  <2>5. Size[First(s)] \in Nat /\ g[s \ {First(s)}] \in Nat
    BY <2>2, <2>4, GateAssumption
  <2> QED
    BY <1>3, <2>2, <2>3, <2>5
<1>6. \A s \in SUBSET Requests : \A r \in s : g[s] = Size[r] + g[s \ {r}]
  <2> DEFINE X == {s \in SUBSET Requests : \E r \in s : g[s] # Size[r] + g[s \ {r}]}
  <2>1. SUFFICES ASSUME X # {} PROVE FALSE
    OBVIOUS
  <2>a. X \in SUBSET (SUBSET Requests)
    OBVIOUS
  <2> HIDE DEF X
  <2>2. PICK s \in X : \A t \in X : t \subseteq s => t = s
    BY <2>1, <2>a, LeastSet, GateAssumption
  <2> USE DEF X
  <2>3. PICK r \in s : g[s] # Size[r] + g[s \ {r}]
    BY <2>2
  <2> DEFINE x == First(s)
  <2>4. x \in s /\ g[s] = Size[x] + g[s \ {x}]
    BY <1>3, <1>4, <2>2, <2>3
  <2> HIDE DEF x, X
  <2>5. x # r
    BY <2>3, <2>4
  <2>6. s \ {x} \notin X /\ s \ {r} \notin X
    BY <2>2, <2>3, <2>4
  <2>7. s \ {x} \in SUBSET Requests /\ s \ {r} \in SUBSET Requests
    BY <2>2 DEF X
  <2>8. /\ g[s \ {x}] = Size[r] + g[(s \ {x}) \ {r}]
        /\ g[s \ {r}] = Size[x] + g[(s \ {r}) \ {x}]
    BY <2>3, <2>4, <2>5, <2>6, <2>7 DEF X
  <2>9. (s \ {x}) \ {r} = (s \ {r}) \ {x}
    OBVIOUS
  <2>10. /\ Size[r] \in Nat /\ Size[x] \in Nat
         /\ g[(s \ {r}) \ {x}] \in Nat
    BY <1>5, <2>3, <2>4, <2>7, GateAssumption
  <2>11. g[s] = Size[x] + (Size[r] + g[(s \ {r}) \ {x}])
    BY <2>4, <2>8, <2>9
  <2>12. Size[r] + g[s \ {r}] = Size[r] + (Size[x] + g[(s \ {r}) \ {x}])
    BY <2>8
  <2> QED
    BY <2>3, <2>10, <2>11, <2>12
<1> QED
  BY <1>2, <1>3, <1>5, <1>6

\* A request joins the held ones with its body.
LEMMA BodiesAdd ==
  ASSUME NEW S \in SUBSET Requests, NEW r \in Requests, r \notin S
  PROVE  BodiesOf(S \union {r}) = BodiesOf(S) + Size[r]
<1>1. /\ S \union {r} \in SUBSET Requests
      /\ (S \union {r}) \ {r} = S
  OBVIOUS
<1>2. BodiesOf(S \union {r}) = Size[r] + BodiesOf(S)
  BY <1>1, BodiesDef
<1>3. BodiesOf(S) \in Nat /\ Size[r] \in Nat
  BY BodiesDef, GateAssumption
<1> QED
  BY <1>2, <1>3

\* A request leaves them with its body.
LEMMA BodiesDrop ==
  ASSUME TypeOK, BytesMatch, NEW r \in Requests, pc[r] = "waiting", Release(r),
         Held' = Held \ {r}
  PROVE  BytesMatch'
<1>1. Held \in SUBSET Requests /\ r \in Held
  BY DEF Held
<1>2. Held \ {r} \in SUBSET Requests
  BY <1>1
<1>3. BodiesOf(Held) = Size[r] + BodiesOf(Held \ {r})
  BY <1>1, BodiesDef
<1>4. BodiesOf(Held \ {r}) \in Nat /\ Size[r] \in Nat
  BY <1>2, BodiesDef, GateAssumption
<1>5. waitBytes' = BodiesOf(Held \ {r})
  BY <1>3, <1>4 DEF Release, BytesMatch
<1> QED
  BY <1>5, Held' = Held \ {r} DEF BytesMatch

\* Steps that neither hold a request nor let one go.
LEMMA BodiesSame ==
  ASSUME BytesMatch, waitBytes' = waitBytes, Held' = Held
  PROVE  BytesMatch'
BY DEF BytesMatch

LEMMA BodiesRequest ==
  ASSUME GateInv, BytesMatch, NEW r \in Requests, RequestStep(r)
  PROVE  BytesMatch'
<1> USE DEF GateInv
<1>1. CASE ArriveOpen(r) \/ ArriveAborting(r)
  <2>1. PICK e \in Destinations : Forward(r, e)
    BY <1>1 DEF ArriveOpen, ArriveAborting, Destinations
  <2>2. pc[r] = "idle" /\ waitBytes' = waitBytes
    BY <1>1 DEF ArriveOpen, ArriveAborting
  <2>3. Held' = Held \ {r} /\ r \notin Held
    BY <2>1, <2>2, ForwardCounts DEF Held
  <2> QED
    BY <2>2, <2>3, BodiesSame
<1>2. CASE ArriveHeld(r)
  <2>1. r \notin Held /\ Held \in SUBSET Requests /\ Held' = Held \union {r}
    BY <1>2 DEF ArriveHeld, Held, TypeOK
  <2>2. waitBytes' = BodiesOf(Held) + Size[r]
    BY <1>2 DEF ArriveHeld, BytesMatch
  <2>3. waitBytes' = BodiesOf(Held \union {r})
    BY <2>1, <2>2, BodiesAdd
  <2> QED
    BY <2>1, <2>3 DEF BytesMatch
<1>3. CASE WakeForward(r)
  <2>1. PICK e \in Destinations : Forward(r, e)
    BY <1>3 DEF WakeForward
  <2>2. pc[r] = "waiting" /\ Release(r)
    BY <1>3 DEF WakeForward
  <2>3. Held' = Held \ {r}
    BY <2>1, <2>2, ForwardCounts
  <2> QED
    BY <2>2, <2>3, BodiesDrop
<1>4. CASE WakeBlocked(r) \/ WakeDisconnected(r) \/ CancelWaiting(r)
  <2>1. /\ pc[r] = "waiting" /\ Release(r)
        /\ pc' = [pc EXCEPT ![r] = "failed"] /\ dest' = dest
    BY <1>4 DEF WakeBlocked, WakeDisconnected, CancelWaiting
  <2>2. Held' = Held \ {r}
    BY <2>1, RefuseCounts
  <2> QED
    BY <2>1, <2>2, BodiesDrop
<1>5. CASE ArriveBlocked(r) \/ Complete(r) \/ Break(r) \/ Finish(r)
  <2>1. waitBytes' = waitBytes
    BY <1>5 DEF ArriveBlocked, Complete, Break, Finish
  <2>2. Held' = Held
    BY <1>5 DEF ArriveBlocked, Complete, Break, Finish, Held, TypeOK
  <2> QED
    BY <2>1, <2>2, BodiesSame
<1> QED
  BY <1>1, <1>2, <1>3, <1>4, <1>5 DEF RequestStep

LEMMA BodiesStep ==
  ASSUME GateInv, BytesMatch, [HostNext]_gateVars
  PROVE  BytesMatch'
<1>1. ASSUME Die PROVE BytesMatch'
  <2>1. Held' = {}
    BY <1>1, DieCounts DEF GateInv
  <2>2. waitBytes' = 0 /\ BodiesOf({}) = 0
    BY <1>1, BodiesDef DEF Die
  <2> QED
    BY <2>1, <2>2 DEF BytesMatch
<1>2. ASSUME UNCHANGED <<waitBytes, pc>> PROVE BytesMatch'
  BY <1>2, BodiesSame DEF Held
<1>3. CASE TimerStep
  BY <1>3, <1>2 DEF TimerStep, DeadlinePasses, Expire
<1>4. CASE AdminStep
  BY <1>4, <1>1, <1>2
  DEF AdminStep, Begin, CommitDurably, CommitUncertain, CrashInCommit, AdminAbort
<1>5. CASE Crash \/ PowerLoss
  BY <1>5, <1>1 DEF Crash, PowerLoss
<1>6. CASE Restart \/ Writeback \/ UNCHANGED gateVars
  BY <1>6, <1>2 DEF Restart, Writeback, gateVars
<1> QED
  BY BodiesRequest, <1>3, <1>4, <1>5, <1>6 DEF HostNext, Next

(***************************************************************************)
(* However requests arrive, wake, hang up, are cancelled or die with the   *)
(* gate, wait_bytes is the sum of the bodies that are held: no reservation *)
(* leaks and none is given back twice, whatever the sizes.                 *)
(***************************************************************************)
THEOREM BodiesCounted == HostSpec => []BytesMatch
<1>1. Init => BytesMatch
  <2>1. ASSUME Init PROVE Held = {} /\ waitBytes = 0
    BY <2>1 DEF Init, Held
  <2> QED
    BY <2>1, BodiesDef DEF BytesMatch
<1>2. GateInv /\ BytesMatch /\ [HostNext]_gateVars => BytesMatch'
  BY BodiesStep
<1> QED
  BY <1>1, <1>2, GateInvariant, PTL DEF HostSpec

-----------------------------------------------------------------------------
(* Capacity and timers.                                                     *)

LEMMA LimitStep ==
  ASSUME TypeOK, WithinLimits, [HostNext]_gateVars
  PROVE  WithinLimits'
<1> USE GateAssumption DEF WithinLimits, TypeOK
<1>1. ASSUME NEW r \in Requests, RequestStep(r)
      PROVE  WithinLimits'
  BY <1>1
  DEF RequestStep, ArriveOpen, ArriveHeld, ArriveAborting, ArriveBlocked,
      WakeForward, WakeBlocked, WakeDisconnected, CancelWaiting, Complete,
      Break, Finish, Release, Holdable, HasRoom
<1>2. CASE TimerStep
  BY <1>2 DEF TimerStep, DeadlinePasses, Expire
<1>3. CASE AdminStep
  BY <1>3
  DEF AdminStep, Begin, CommitDurably, CommitUncertain, CrashInCommit, Die,
      AdminAbort
<1>4. CASE Crash \/ PowerLoss
  BY <1>4 DEF Crash, PowerLoss, Die
<1>5. CASE Restart \/ Writeback \/ UNCHANGED gateVars
  BY <1>5 DEF Restart, Writeback, gateVars
<1>6. QED
  BY <1>1, <1>2, <1>3, <1>4, <1>5 DEF HostNext, Next

(***************************************************************************)
(* No sequence of arrivals, aborts and new holds pins more requests or     *)
(* bytes than the configuration allows.                                    *)
(***************************************************************************)
THEOREM LimitsHold == HostSpec => []WithinLimits
<1>1. Init => WithinLimits
  BY GateAssumption DEF Init, WithinLimits
<1>2. TypeOK /\ WithinLimits /\ [HostNext]_gateVars => WithinLimits'
  BY LimitStep
<1>3. QED
  BY <1>1, <1>2, TypeCorrect, PTL DEF HostSpec

(***************************************************************************)
(* The watchdog of an earlier hold never ends a later one.                 *)
(***************************************************************************)
THEOREM TimerCorrect == Spec => TimerEndsOnlyItsHold
<1> DEFINE Own == (phase = "HOLD" /\ phase' = "V1" /\ watchdogs' # watchdogs)
                    => token <= overdue
<1>1. ASSUME [Next]_gateVars
      PROVE  Own
  <2>1. ASSUME NEW r \in Requests, RequestStep(r)
        PROVE  watchdogs' = watchdogs
    BY <2>1
    DEF RequestStep, ArriveOpen, ArriveHeld, ArriveAborting, ArriveBlocked,
        WakeForward, WakeBlocked, WakeDisconnected, CancelWaiting, Complete,
        Break, Finish
  <2>2. ASSUME NEW t \in watchdogs, Expire(t)
        PROVE  Own
    BY <2>2 DEF Expire
  <2>3. CASE DeadlinePasses
    BY <2>3 DEF DeadlinePasses
  <2>4. CASE AdminStep
    BY <2>4
    DEF AdminStep, Begin, CommitDurably, CommitUncertain, CrashInCommit, Die,
        AdminAbort
  <2>5. CASE Crash \/ Restart
    BY <2>5 DEF Crash, Die, Restart
  <2>6. CASE UNCHANGED gateVars
    BY <2>6 DEF gateVars
  <2>7. QED
    BY <1>1, <2>1, <2>2, <2>3, <2>4, <2>5, <2>6 DEF Next, TimerStep
<1>2. QED
  BY <1>1, PTL DEF Spec, TimerEndsOnlyItsHold

-----------------------------------------------------------------------------
(* The gate implements the handover of authority.                           *)

LEMMA ForwardAdmits ==
  ASSUME TypeOK, NotAdmitted, NEW r \in Requests, NEW e \in Destinations,
         pc[r] \in {"idle", "waiting"}, Forward(r, e), e = Owner,
         journal' = journal
  PROVE  Authority!Admit(r)
<1>1. Serving[r] = "none"
  BY DEF Serving, NotAdmitted
<1>2. Serving' = [Serving EXCEPT ![r] = Owner]
  BY DEF Serving, Forward, TypeOK, Destinations
<1>3. QED
  BY <1>1, <1>2 DEF Authority!Admit, Owner

LEMMA RequestRefines ==
  ASSUME GateInv, NEW r \in Requests, RequestStep(r)
  PROVE  [Authority!Next]_(Authority!vars)
<1> USE DEF GateInv
<1>1. CASE ArriveOpen(r) \/ WakeForward(r)
  <2>1. PICK e \in Destinations : phase = e /\ Forward(r, e)
    BY <1>1 DEF ArriveOpen, WakeForward
  <2>2. e = Owner
    BY <2>1 DEF Owner, AuthorityFence, Destinations, TypeOK
  <2>3. Authority!Admit(r)
    BY <1>1, <2>1, <2>2, ForwardAdmits DEF ArriveOpen, WakeForward
  <2>4. QED
    BY <2>3 DEF Authority!Next
<1>2. CASE ArriveAborting(r)
  <2>1. Owner = "V1" /\ "V1" \in Destinations
    BY <1>2 DEF ArriveAborting, Owner, AuthorityFence, Destinations
  <2>2. Authority!Admit(r)
    BY <1>2, <2>1, ForwardAdmits DEF ArriveAborting
  <2>3. QED
    BY <2>2 DEF Authority!Next
<1>3. CASE \/ ArriveHeld(r) \/ ArriveBlocked(r) \/ WakeBlocked(r)
           \/ WakeDisconnected(r) \/ CancelWaiting(r) \/ Complete(r) \/ Break(r)
  <2>1. Serving' = Serving
    BY <1>3
    DEF Serving, TypeOK, NotAdmitted, ArriveHeld, ArriveBlocked, WakeBlocked,
        WakeDisconnected, CancelWaiting, Complete, Break
  <2>2. Owner' = Owner
    BY <1>3
    DEF Owner, ArriveHeld, ArriveBlocked, WakeBlocked, WakeDisconnected,
        CancelWaiting, Complete, Break
  <2>3. QED
    BY <2>1, <2>2 DEF Authority!vars
<1>4. CASE Finish(r)
  <2>1. Owner' = Owner
    BY <1>4 DEF Finish, Owner
  <2>2. CASE dest[r] = "none"
    <3>1. Serving' = Serving
      BY <1>4, <2>2 DEF Finish, Serving, TypeOK
    <3>2. QED
      BY <2>1, <3>1 DEF Authority!vars
  <2>3. CASE dest[r] # "none"
    <3>1. Serving[r] \in {"V1", "V2"}
      BY <1>4, <2>3 DEF Finish, Serving, TypeOK, Destinations
    <3>2. Serving' = [q \in Requests |-> IF q \in {r} THEN "ended" ELSE Serving[q]]
      BY <1>4, <2>3 DEF Finish, Serving, TypeOK
    <3>3. Authority!End({r})
      BY <2>1, <3>1, <3>2 DEF Authority!End
    <3>4. QED
      BY <3>3 DEF Authority!Next
  <2>4. QED
    BY <2>2, <2>3
<1>5. QED
  BY <1>1, <1>2, <1>3, <1>4 DEF RequestStep

\* A commit, certain or not, hands over exactly when it publishes the journal.
LEMMA CommitRefines ==
  ASSUME GateInv, NEW t, NEW matched, Acceptable(t, matched),
         journal' \in {journal, "V2"}, Serving' = Serving
  PROVE  [Authority!Next]_(Authority!vars)
<1>1. Owner = "V1"
  BY DEF GateInv, AuthorityFence, Acceptable, Owner
<1>2. \A r \in Requests : Serving[r] # "V1"
  BY CommitFence DEF Serving, Served, Destinations
<1>3. CASE journal' = journal
  BY <1>3 DEF Authority!vars, Owner
<1>4. CASE journal' = "V2"
  BY <1>1, <1>2, <1>4 DEF Authority!Next, Authority!HandOver, Owner
<1>5. QED
  BY <1>3, <1>4

LEMMA AdminRefines ==
  ASSUME GateInv, AdminStep
  PROVE  [Authority!Next]_(Authority!vars)
<1>1. CASE Begin
  BY <1>1 DEF Begin, Authority!vars, Owner, Serving
<1>2. ASSUME NEW t \in 1..holds, NEW matched \in BOOLEAN,
             CommitDurably(t, matched) \/ CommitUncertain(t, matched)
      PROVE  [Authority!Next]_(Authority!vars)
  BY <1>2, CommitRefines DEF CommitDurably, CommitUncertain, Serving
<1>3. ASSUME NEW t \in 1..holds, NEW matched \in BOOLEAN, CrashInCommit(t, matched)
      PROVE  [Authority!Next]_(Authority!vars)
  <2>1. \A d \in Destinations : Served(d) = {}
    BY <1>3, CommitFence DEF CrashInCommit
  <2>2. Serving' = Serving
    BY <1>3, <2>1
    DEF CrashInCommit, Die, Serving, Served, GateInv, TypeOK, States, NotAdmitted
  <2>3. QED
    BY <1>3, <2>2, CommitRefines DEF CrashInCommit
<1>4. ASSUME NEW t \in 0..holds, AdminAbort(t)
      PROVE  [Authority!Next]_(Authority!vars)
  BY <1>4 DEF AdminAbort, Authority!vars, Owner, Serving
<1>5. QED
  BY <1>1, <1>2, <1>3, <1>4 DEF AdminStep

LEMMA CrashRefines ==
  ASSUME GateInv, Crash
  PROVE  [Authority!Next]_(Authority!vars)
<1> DEFINE S == {r \in Requests : Serving[r] \in {"V1", "V2"}}
<1>1. Serving' = [r \in Requests |-> IF r \in S THEN "ended" ELSE Serving[r]]
  BY DEF Crash, Die, Serving, GateInv, TypeOK, Destinations, States, NotAdmitted
<1>2. Authority!End(S)
  BY <1>1 DEF Authority!End, Crash, Owner
<1>3. QED
  BY <1>2 DEF Authority!Next

LEMMA StepRefines ==
  ASSUME GateInv, [Next]_gateVars
  PROVE  [Authority!Next]_(Authority!vars)
<1>1. CASE TimerStep
  BY <1>1
  DEF TimerStep, DeadlinePasses, Expire, Authority!vars, Owner, Serving
<1>2. CASE Restart \/ UNCHANGED gateVars
  BY <1>2 DEF Restart, gateVars, Authority!vars, Owner, Serving
<1>3. QED
  BY <1>1, <1>2, RequestRefines, AdminRefines, CrashRefines DEF Next

(***************************************************************************)
(* Through aborted holds, uncertain commits and restarts, authority moves  *)
(* once from V1 to V2, while V1 serves nobody, and every request is served *)
(* by its owner.                                                           *)
(***************************************************************************)
THEOREM HandoverRefined == Spec => SingleHandover
<1>1. Init => Authority!Init
  BY DEF Init, Authority!Init, Owner, Serving
<1>2. GateInv /\ [Next]_gateVars => [Authority!Next]_(Authority!vars)
  BY StepRefines
<1>3. GateInv /\ [Next]_gateVars => GateInv'
  BY GateStep DEF HostNext
<1>4. QED
  BY <1>1, <1>2, <1>3, GateInit, PTL DEF Spec, SingleHandover, Authority!Spec

-----------------------------------------------------------------------------
(* The gate inside the cutover is the gate of RequestGate.                  *)

\* The hold in force is the newest, and the disk never runs ahead.
GateFacts ==
  /\ phase = "HOLD" => holds # 0 /\ token = holds
  /\ disk = "V2" => journal = "V2"

LEMMA HandleIsGateStep ==
  ASSUME GateInv, GateFacts, calls \subseteq Calls, NEW m \in calls,
         HandleBegin(m) \/ HandleCommit(m) \/ HandleAbort(m)
  PROVE  [Next]_gateVars
<1>1. CASE HandleBegin(m)
  BY <1>1 DEF HandleBegin, Next, AdminStep
<1>2. CASE HandleCommit(m)
  <2>1. CASE UNCHANGED gateVars
    BY <2>1
  <2>2. CASE \/ CommitDurably(m.token, m.matched) \/ CommitUncertain(m.token, m.matched)
             \/ CrashInCommit(m.token, m.matched)
    <3>1. m.token \in 1..holds
      BY <2>2 DEF CommitDurably, CommitUncertain, CrashInCommit, Acceptable, GateFacts,
           GateInv, TypeOK
    <3>2. m.matched \in BOOLEAN
      BY DEF Calls
    <3>3. AdminStep
      BY <2>2, <3>1, <3>2 DEF AdminStep
    <3>4. QED
      BY <3>3 DEF Next
  <2>3. QED
    BY <1>2, <2>1, <2>2 DEF HandleCommit
<1>3. CASE HandleAbort(m)
  <2>1. CASE AdminAbort(m.token)
    <3>1. m.token \in 0..holds
      BY <2>1 DEF AdminAbort, GateInv, TypeOK
    <3>2. QED
      BY <2>1, <3>1 DEF Next, AdminStep
  <2>2. QED
    BY <1>3, <2>1 DEF HandleAbort
<1>4. QED
  BY <1>1, <1>2, <1>3

\* The steps of the gate that are not the answer to a controller.
GateAlone ==
  \/ \E r \in Requests : GateRequest(r)
  \/ GateTimer \/ GateCrash \/ GatePowerLoss \/ GateRestart \/ GateWriteback

\* The steps of a controller and of its import leave the gate alone.
Local == \E c \in Controllers : ControllerStep(c) \/ ThreadStep(c)
V1Step == \E r \in Requests : V1Receive(r) \/ V1Answer(r)
Handle == \E m \in calls : HandleBegin(m) \/ HandleCommit(m) \/ HandleAbort(m)

LEMMA StepKinds ==
  ASSUME CutoverHostNext
  PROVE  GateAlone \/ V1Step \/ Local \/ Handle
BY DEF CutoverHostNext, CutoverNext, GateAlone, V1Step, Local, Handle

LEMMA LocalFrame ==
  ASSUME Local
  PROVE  UNCHANGED <<gateVars, v1, sql, loose>>
BY DEF Local, ControllerStep, Lock, LockBusy, Preflight, Drained, HoldGone, SendCommit,
     ImportFailed, Recover, CallFails, Interrupt, Kill, ThreadStep, Snapshot, Scan,
     Delete, Write, Verify, ImportError, At, dataVars

LEMMA V1Frame ==
  ASSUME V1Step
  PROVE  UNCHANGED <<gateVars, redis, loose, ctlVars, threadVars>>
BY DEF V1Step, V1Receive, V1Answer

LEMMA GateAloneFrame ==
  ASSUME GateAlone
  PROVE  /\ HostNext
         /\ UNCHANGED <<v1, sql, redis, lock, ctl, mine, threadVars>>
         /\ calls' \subseteq calls /\ loose \subseteq loose'
<1>1. ASSUME NEW r \in Requests, GateRequest(r)
      PROVE  /\ HostNext /\ UNCHANGED <<v1, sql, redis, ctlVars, threadVars>>
             /\ loose \subseteq loose'
  BY <1>1 DEF GateRequest, HostNext, Next
<1>2. CASE GateTimer
  BY <1>2 DEF GateTimer, HostNext, Next, dataVars, ctlVars
<1>3. CASE GateCrash \/ GatePowerLoss
  BY <1>3 DEF GateCrash, GatePowerLoss, LoseAll, HostNext, Next
<1>4. CASE GateRestart \/ GateWriteback
  BY <1>4 DEF GateRestart, GateWriteback, HostNext, Next, dataVars, ctlVars
<1>5. QED
  BY <1>1, <1>2, <1>3, <1>4 DEF GateAlone, ctlVars

LEMMA CutoverIsGateStep ==
  ASSUME GateInv, GateFacts, calls \subseteq Calls, [CutoverHostNext]_cutoverVars
  PROVE  [HostNext]_gateVars
BY HandleIsGateStep, LocalFrame, V1Frame, GateAloneFrame, StepKinds DEF Handle,
     HostNext, cutoverVars

\* While the host keeps its power the gate takes no other step than its own.
LEMMA PoweredGateStep ==
  ASSUME GateInv, GateFacts, calls \subseteq Calls, [CutoverNext]_cutoverVars
  PROVE  [Next]_gateVars
<1>1. CASE UNCHANGED cutoverVars
  BY <1>1 DEF cutoverVars
<1>2. CASE (\E r \in Requests : GateRequest(r)) \/ GateTimer \/ GateCrash \/ GateRestart
  BY <1>2 DEF GateRequest, GateTimer, GateCrash, GateRestart, Next
<1>3. CASE V1Step
  BY <1>3, V1Frame
<1>4. CASE Local
  BY <1>4, LocalFrame
<1>5. CASE Handle
  BY <1>5, HandleIsGateStep DEF Handle
<1>6. QED
  BY <1>1, <1>2, <1>3, <1>4, <1>5 DEF CutoverNext, V1Step, Local, Handle

\* A new hold comes from Begin alone, and a hold that lasts is the same hold, in
\* which V1 gets no request.
LEMMA HoldLasts ==
  ASSUME GateInv, [HostNext]_gateVars, phase' = "HOLD", ~Begin
  PROVE  /\ phase = "HOLD" /\ UNCHANGED <<token, holds, journal>>
         /\ Served("V1")' \subseteq Served("V1")
<1>1. ASSUME NEW r \in Requests, RequestStep(r)
      PROVE  /\ phase = "HOLD" /\ UNCHANGED <<token, holds, journal>>
             /\ Served("V1")' \subseteq Served("V1")
  BY <1>1 DEF RequestStep, ArriveOpen, ArriveHeld, ArriveAborting, ArriveBlocked,
       WakeForward, WakeBlocked, WakeDisconnected, CancelWaiting, Complete, Break, Finish,
       AbortLocked, Forward, Release, Served, Destinations, GateInv, TypeOK, NotAdmitted
<1>2. CASE TimerStep
  BY <1>2 DEF TimerStep, DeadlinePasses, Expire, AbortLocked, Served
<1>3. CASE AdminStep
  BY <1>3 DEF AdminStep, CommitDurably, CommitUncertain, CrashInCommit, AdminAbort,
       AbortLocked, Die
<1>4. CASE Crash \/ PowerLoss \/ Restart
  BY <1>4 DEF Crash, PowerLoss, Restart, Die
<1>5. CASE Writeback \/ UNCHANGED gateVars
  BY <1>5 DEF Writeback, gateVars, Served
<1>6. QED
  BY <1>1, <1>2, <1>3, <1>4, <1>5 DEF HostNext, Next

\* The facts about holds and the disk are the gate's own.
LEMMA GateFactsStep ==
  ASSUME GateInv, GateFacts, [HostNext]_gateVars
  PROVE  GateFacts'
<1>1. phase' = "HOLD" => holds' # 0 /\ token' = holds'
  BY HoldLasts DEF Begin, GateFacts, GateInv, TypeOK
<1>2. disk' = "V2" => journal' = "V2"
  BY DEF HostNext, Next, RequestStep, ArriveOpen, ArriveHeld, ArriveAborting,
       ArriveBlocked, WakeForward, WakeBlocked, WakeDisconnected, CancelWaiting, Complete,
       Break, Finish, TimerStep, DeadlinePasses, Expire, AdminStep, Begin, CommitDurably,
       CommitUncertain, CrashInCommit, AdminAbort, Crash, PowerLoss, Restart, Writeback,
       Die, gateVars, GateFacts
<1>3. QED
  BY <1>1, <1>2 DEF GateFacts

-----------------------------------------------------------------------------
(* Types.                                                                   *)

\* The variables the composition adds to the gate.
OwnTypeOK ==
  /\ v1 \in [Requests -> {"none", "running", "answered"}]
  /\ sql \subseteq Rows
  /\ redis \subseteq Rows
  /\ lock \in Controllers \union {Nobody}
  /\ ctl \in [Controllers -> CtlStates]
  /\ mine \in [Controllers -> 0..MaxHolds]
  /\ calls \subseteq Calls
  /\ thread \in [Controllers -> ThreadStates]
  /\ snap \in [Controllers -> SUBSET Rows]
  /\ todo \in [Controllers -> SUBSET Rows]
  /\ loose \subseteq Requests \X (0..MaxHolds)

LEMMA OwnTypeInit == CutoverInit => OwnTypeOK
<1> SUFFICES ASSUME CutoverInit PROVE OwnTypeOK
  OBVIOUS
<1>1. None \in 0..MaxHolds
  BY GateAssumption DEF None
<1>2. mine \in [Controllers -> 0..MaxHolds]
  BY <1>1 DEF CutoverInit
<1>3. ctl \in [Controllers -> CtlStates] /\ thread \in [Controllers -> ThreadStates]
  BY DEF CutoverInit, CtlStates, ThreadStates
<1>4. /\ v1 \in [Requests -> {"none", "running", "answered"}]
      /\ sql \subseteq Rows /\ redis \subseteq Rows /\ lock \in Controllers \union {Nobody}
  BY DEF CutoverInit, Rows
<1>5. snap \in [Controllers -> SUBSET Rows] /\ todo \in [Controllers -> SUBSET Rows]
  BY DEF CutoverInit
<1>6. calls \subseteq Calls /\ loose \subseteq Requests \X (0..MaxHolds)
  BY DEF CutoverInit
<1>7. QED
  BY <1>2, <1>3, <1>4, <1>5, <1>6 DEF OwnTypeOK

LEMMA GateAloneType ==
  ASSUME OwnTypeOK, TypeOK, GateAlone
  PROVE  OwnTypeOK'
<1>1. loose' \subseteq Requests \X (0..MaxHolds)
  <2>1. holds \in 0..MaxHolds
    BY DEF TypeOK
  <2>2. ASSUME NEW r \in Requests, GateRequest(r)
        PROVE  loose' \subseteq Requests \X (0..MaxHolds)
    BY <2>1, <2>2 DEF GateRequest, OwnTypeOK
  <2>3. CASE GateCrash \/ GatePowerLoss
    <3>1. Served("V1") \subseteq Requests
      BY DEF Served
    <3>2. QED
      BY <2>1, <2>3, <3>1 DEF GateCrash, GatePowerLoss, LoseAll, OwnTypeOK
  <2>4. CASE GateTimer \/ GateRestart \/ GateWriteback
    BY <2>4 DEF GateTimer, GateRestart, GateWriteback, dataVars, OwnTypeOK
  <2>5. QED
    BY <2>2, <2>3, <2>4 DEF GateAlone
<1>2. QED
  BY <1>1, GateAloneFrame DEF OwnTypeOK, threadVars

LEMMA V1Type ==
  ASSUME OwnTypeOK, V1Step
  PROVE  OwnTypeOK'
<1>1. v1' \in [Requests -> {"none", "running", "answered"}] /\ sql' \subseteq Rows
  BY DEF V1Step, V1Receive, V1Answer, OwnTypeOK, Rows
<1>2. QED
  BY <1>1, V1Frame DEF OwnTypeOK, ctlVars, threadVars

LEMMA ControllerTypeKept ==
  ASSUME OwnTypeOK, TypeOK, NEW c \in Controllers, ControllerStep(c)
  PROVE  OwnTypeOK'
<1> USE DEF ControllerStep
<1>1. UNCHANGED <<v1, sql, redis, loose>>
  BY DEF Lock, LockBusy, Preflight, Drained, HoldGone, SendCommit, ImportFailed, Recover,
       CallFails, Interrupt, Kill, dataVars
<1>2. lock' \in Controllers \union {Nobody} /\ ctl' \in [Controllers -> CtlStates]
  BY DEF Lock, LockBusy, Preflight, Drained, HoldGone, SendCommit, ImportFailed, Recover,
       CallFails, Interrupt, Kill, Leave, Goto, OwnTypeOK, CtlStates
<1>3. UNCHANGED mine
  BY DEF Lock, LockBusy, Preflight, Drained, HoldGone, SendCommit, ImportFailed, Recover,
       CallFails, Interrupt, Kill
<1>4. calls' \subseteq Calls
  <2>1. ASSUME NEW op \in {"begin", "commit", "abort"}, NEW t \in 0..MaxHolds, Send(c, op, t, TRUE)
        PROVE  calls' \subseteq Calls
    <3>1. [op |-> op, by |-> c, token |-> t, matched |-> TRUE] \in Calls
      BY DEF Calls
    <3>2. QED
      BY <2>1, <3>1 DEF Send, OwnTypeOK
  <2>2. CASE Preflight(c)
    <3>1. None \in 0..MaxHolds
      BY GateAssumption DEF None
    <3>2. QED
      BY <2>1, <2>2, <3>1 DEF Preflight
  <2>3. CASE SendCommit(c) \/ Recover(c)
    <3>1. mine[c] \in 0..MaxHolds
      BY DEF OwnTypeOK
    <3>2. QED
      BY <2>1, <2>3, <3>1 DEF SendCommit, Recover, OwnTypeOK
  <2>4. CASE ~Preflight(c) /\ ~SendCommit(c) /\ ~Recover(c)
    BY <2>4 DEF Lock, LockBusy, Drained, HoldGone, ImportFailed, CallFails, Interrupt,
         Kill, OwnTypeOK
  <2>5. QED
    BY <2>2, <2>3, <2>4
<1>5. /\ thread' \in [Controllers -> ThreadStates]
      /\ snap' \in [Controllers -> SUBSET Rows] /\ todo' \in [Controllers -> SUBSET Rows]
  BY DEF Lock, LockBusy, Preflight, Drained, HoldGone, SendCommit, ImportFailed, Recover,
       CallFails, Interrupt, Kill, Return, ThreadTo, threadVars, OwnTypeOK, ThreadStates
<1>6. QED
  BY <1>1, <1>2, <1>3, <1>4, <1>5 DEF OwnTypeOK

LEMMA ThreadTypeKept ==
  ASSUME OwnTypeOK, NEW c \in Controllers, ThreadStep(c)
  PROVE  OwnTypeOK'
<1> USE DEF ThreadStep
<1>1. UNCHANGED <<v1, sql, loose, ctlVars>>
  BY DEF Snapshot, Scan, Delete, Write, Verify, ImportError, At, dataVars
<1>2. redis' \subseteq Rows
  BY DEF Snapshot, Scan, Delete, Write, Verify, ImportError, dataVars, OwnTypeOK
<1>3. thread' \in [Controllers -> ThreadStates]
  BY DEF Snapshot, Scan, Delete, Write, Verify, ImportError, Return, ThreadTo, OwnTypeOK,
       ThreadStates
<1>4. snap' \in [Controllers -> SUBSET Rows] /\ todo' \in [Controllers -> SUBSET Rows]
  BY DEF Snapshot, Scan, Delete, Write, Verify, ImportError, Return, OwnTypeOK
<1>5. QED
  BY <1>1, <1>2, <1>3, <1>4 DEF OwnTypeOK, ctlVars

LEMMA HandleType ==
  ASSUME OwnTypeOK, TypeOK, TypeOK', Handle
  PROVE  OwnTypeOK'
<1> PICK m \in calls : HandleBegin(m) \/ HandleCommit(m) \/ HandleAbort(m)
  BY DEF Handle
<1>1. UNCHANGED <<v1, sql, redis, threadVars>>
  BY DEF HandleBegin, HandleCommit, HandleAbort, dataVars
<1>2. m.by \in Controllers /\ calls' \subseteq Calls
  BY DEF HandleBegin, HandleCommit, HandleAbort, LoseAll, OwnTypeOK, Calls
<1>3. lock' \in Controllers \union {Nobody} /\ ctl' \in [Controllers -> CtlStates]
  BY <1>2 DEF HandleBegin, HandleCommit, HandleAbort, Answered, AnsweredInTry, Leave,
       Goto, OwnTypeOK, CtlStates
<1>4. mine' \in [Controllers -> 0..MaxHolds]
  <2>1. CASE HandleBegin(m)
    <3>1. Begin => token' \in 0..MaxHolds
      BY DEF Begin, TypeOK
    <3>2. QED
      BY <2>1, <3>1 DEF HandleBegin, OwnTypeOK
  <2>2. CASE HandleCommit(m) \/ HandleAbort(m)
    BY <2>2 DEF HandleCommit, HandleAbort, OwnTypeOK
  <2>3. QED
    BY <2>1, <2>2
<1>5. loose' \subseteq Requests \X (0..MaxHolds)
  <2>1. Served("V1") \subseteq Requests /\ holds \in 0..MaxHolds
    BY DEF Served, TypeOK
  <2>2. loose' = loose \/ LoseAll
    BY DEF HandleBegin, HandleCommit, HandleAbort, dataVars
  <2>3. QED
    BY <2>1, <2>2 DEF LoseAll, OwnTypeOK
<1>6. QED
  BY <1>1, <1>2, <1>3, <1>4, <1>5 DEF OwnTypeOK, threadVars

LEMMA OwnTypeStep ==
  ASSUME OwnTypeOK, TypeOK, TypeOK', [CutoverHostNext]_cutoverVars
  PROVE  OwnTypeOK'
<1>1. CASE UNCHANGED cutoverVars
  BY <1>1 DEF cutoverVars, dataVars, ctlVars, threadVars, OwnTypeOK
<1>2. CASE CutoverHostNext
  BY <1>2, StepKinds, GateAloneType, V1Type, ControllerTypeKept, ThreadTypeKept,
       HandleType
  DEF Local
<1>3. QED
  BY <1>1, <1>2

\* What holds of the gate and of the types.
BaseInv == GateInv /\ GateFacts /\ OwnTypeOK

LEMMA BaseStep ==
  ASSUME BaseInv, [CutoverHostNext]_cutoverVars
  PROVE  BaseInv' /\ [HostNext]_gateVars
<1>1. [HostNext]_gateVars
  BY CutoverIsGateStep DEF BaseInv, OwnTypeOK
<1>2. GateInv'
  BY <1>1, GateStep DEF BaseInv
<1>3. GateFacts'
  BY <1>1, GateFactsStep DEF BaseInv
<1>4. OwnTypeOK'
  BY <1>2, OwnTypeStep DEF BaseInv, GateInv
<1>5. QED
  BY <1>1, <1>2, <1>3, <1>4 DEF BaseInv

LEMMA BaseInit == CutoverInit => BaseInv
<1>1. CutoverInit => GateInv
  BY GateInit DEF CutoverInit
<1>2. CutoverInit => GateFacts
  BY DEF CutoverInit, Init, GateFacts
<1>3. QED
  BY <1>1, <1>2, OwnTypeInit DEF BaseInv

\* Every variable of the composition keeps its type, through crashes of the
\* gate, killed controllers, power losses and late control requests.
THEOREM CutoverTypesKept == CutoverHostSpec => []CutoverTypeOK
<1>1. BaseInv => CutoverTypeOK
  BY DEF BaseInv, GateInv, OwnTypeOK, CutoverTypeOK
<1>2. BaseInv /\ [CutoverHostNext]_cutoverVars => BaseInv'
  BY BaseStep
<1>3. QED
  BY <1>1, <1>2, BaseInit, PTL DEF CutoverHostSpec

(***************************************************************************)
(* Whatever the controllers and their imports do to it, the gate of a      *)
(* cutover is a gate of RequestGate, on a host that may lose power and on  *)
(* one that does not: every theorem above holds of it.                     *)
(***************************************************************************)
THEOREM GateImplemented ==
  /\ CutoverHostSpec => HostSpec
  /\ CutoverSpec => Spec
<1>1. CutoverInit => Init
  BY DEF CutoverInit
<1>2. BaseInv /\ [CutoverHostNext]_cutoverVars => BaseInv' /\ [HostNext]_gateVars
  BY BaseStep
<1>3. BaseInv /\ [CutoverNext]_cutoverVars => BaseInv' /\ [Next]_gateVars
  BY BaseStep, PoweredGateStep DEF CutoverHostNext, BaseInv, OwnTypeOK
<1>4. CutoverHostSpec => HostSpec
  BY <1>1, <1>2, BaseInit, PTL DEF CutoverHostSpec, HostSpec
<1>5. CutoverSpec => Spec
  BY <1>1, <1>3, BaseInit, PTL DEF CutoverSpec, Spec
<1>6. QED
  BY <1>4, <1>5

(***************************************************************************)
(* So the whole system of gate, controllers and imports hands authority    *)
(* over once, from V1 to V2, while V1 serves nobody.                       *)
(***************************************************************************)
THEOREM CutoverHandsOver == CutoverSpec => SingleHandover
BY GateImplemented, HandoverRefined

-----------------------------------------------------------------------------
(* The lock, the holds the controllers know and what they asked for.        *)

\* The controllers that know a hold of theirs.
Holding == {"draining", "importing", "committing", "recovering", "aborting"}

\* Who is in the flock'ed region has the newest hold of all controllers, and what
\* a controller asked the gate for concerns its own hold.
LockFacts ==
  /\ \A c \in Controllers : ctl[c] \in Active <=> lock = c
  /\ \A c \in Controllers : mine[c] <= holds
  /\ \A c, a \in Controllers : ctl[c] \in Holding /\ a # c => mine[a] < mine[c]
  /\ \A m \in calls : m.op \in {"commit", "abort"} =>
       /\ m.token = mine[m.by]
       /\ ctl[m.by] \in {"committing", "recovering", "aborting", "committed", "gone"}

\* How a controller may move, apart from answers.
LEMMA LocalLock ==
  ASSUME OwnTypeOK, LockFacts, NEW c \in Controllers, ControllerStep(c)
  PROVE  LockFacts'
<1> USE DEF OwnTypeOK
<1>0. UNCHANGED <<holds, mine>> /\ \A a \in Controllers \ {c} : ctl'[a] = ctl[a]
  BY DEF ControllerStep, Lock, LockBusy, Preflight, Drained, HoldGone, SendCommit,
       ImportFailed, Recover, CallFails, Interrupt, Kill, Leave, Goto, gateVars
<1>1. \A a \in Controllers : (ctl'[a] \in Active <=> lock' = a)
  <2>1. lock' = lock /\ (ctl'[c] \in Active <=> ctl[c] \in Active)
          => \A a \in Controllers : (ctl'[a] \in Active <=> lock' = a)
    BY <1>0 DEF LockFacts
  <2>2. CASE Lock(c)
    BY <1>0, <2>2, CutoverAssumption DEF Lock, Goto, Active, LockFacts
  <2>3. CASE \/ LockBusy(c) \/ Preflight(c) \/ Drained(c)
             \/ HoldGone(c) \/ SendCommit(c) \/ ImportFailed(c)
    BY <2>1, <2>3 DEF LockBusy, Preflight, Drained, HoldGone, SendCommit, ImportFailed,
         Goto, Active
  <2>4. ASSUME ctl[c] \in Active, Leave(c, "gone")
        PROVE  \A a \in Controllers : (ctl'[a] \in Active <=> lock' = a)
    BY <1>0, <2>4, CutoverAssumption DEF Leave, Goto, Active, LockFacts
  <2>5. CASE Recover(c)
    <3>1. CASE Leave(c, "gone")
      BY <2>4, <2>5, <3>1 DEF Recover, Active
    <3>2. CASE ~Leave(c, "gone")
      BY <2>1, <2>5, <3>2 DEF Recover, Goto, Active
    <3>3. QED
      BY <3>1, <3>2
  <2>6. CASE CallFails(c)
    <3>1. CASE Leave(c, "gone")
      BY <2>4, <2>6, <3>1 DEF CallFails, Active
    <3>2. CASE ~Leave(c, "gone")
      BY <2>1, <2>6, <3>2 DEF CallFails, Goto, Active
    <3>3. QED
      BY <3>1, <3>2
  <2>7. CASE Kill(c)
    BY <2>4, <2>7 DEF Kill
  <2>8. CASE Interrupt(c)
    BY <2>1, <2>8 DEF Interrupt, Goto, Active
  <2>9. QED
    BY <2>2, <2>3, <2>5, <2>6, <2>7, <2>8 DEF ControllerStep
<1>3. ctl'[c] \in Holding => ctl[c] \in Holding
  BY DEF ControllerStep, Lock, LockBusy, Preflight, Drained, HoldGone, SendCommit,
       ImportFailed, Recover, CallFails, Interrupt, Kill, Leave, Goto, Holding
<1>4. ASSUME NEW m \in calls', m.op \in {"commit", "abort"}
      PROVE  /\ m.token = mine'[m.by]
             /\ ctl'[m.by] \in {"committing", "recovering", "aborting", "committed", "gone"}
  <2>1. CASE m \in calls
    <3>1. m.by \in Controllers /\ m.token = mine[m.by]
          /\ ctl[m.by] \in {"committing", "recovering", "aborting", "committed", "gone"}
      BY <1>4, <2>1 DEF LockFacts, Calls
    <3>2. ctl[c] \in {"committing", "recovering", "aborting", "committed", "gone"} =>
            ctl'[c] \in {"committing", "recovering", "aborting", "committed", "gone"}
      BY DEF ControllerStep, Lock, LockBusy, Preflight, Drained, HoldGone, SendCommit,
           ImportFailed, Recover, CallFails, Interrupt, Kill, Leave, Goto
    <3>3. QED
      BY <1>0, <3>1, <3>2
  <2>2. CASE m \notin calls
    <3>1. SendCommit(c) \/ Recover(c)
      BY <1>4, <2>2 DEF ControllerStep, Lock, LockBusy, Preflight, Drained, HoldGone,
           ImportFailed, CallFails, Interrupt, Kill, Send
    <3>2. m.by = c /\ m.token = mine[c] /\ ctl'[c] \in {"committing", "aborting"}
      BY <2>2, <3>1 DEF SendCommit, Recover, Send, Goto
    <3>3. QED
      BY <1>0, <3>2
  <2>3. QED
    BY <2>1, <2>2
<1>5. QED
  BY <1>0, <1>1, <1>3, <1>4 DEF LockFacts

LEMMA ThreadLock ==
  ASSUME LockFacts, NEW c \in Controllers, ThreadStep(c)
  PROVE  LockFacts'
<1>1. UNCHANGED <<holds, lock, ctl, mine, calls>>
  BY DEF ThreadStep, Snapshot, Scan, Delete, Write, Verify, ImportError, At, ctlVars,
       gateVars
<1>2. QED
  BY <1>1 DEF LockFacts

\* The number of holds only grows.
LEMMA HoldsGrow ==
  ASSUME TypeOK, [HostNext]_gateVars
  PROVE  holds' = holds \/ (Begin /\ holds' = holds + 1)
BY DEF HostNext, Next, RequestStep, ArriveOpen, ArriveHeld, ArriveAborting, ArriveBlocked,
     WakeForward, WakeBlocked, WakeDisconnected, CancelWaiting, Complete, Break, Finish,
     TimerStep, DeadlinePasses, Expire, AdminStep, Begin, CommitDurably, CommitUncertain,
     CrashInCommit, AdminAbort, Crash, PowerLoss, Restart, Writeback, Die, gateVars

LEMMA GateLock ==
  ASSUME BaseInv, LockFacts, GateAlone \/ V1Step \/ UNCHANGED cutoverVars
  PROVE  LockFacts'
<1>1. UNCHANGED <<lock, ctl, mine, thread>> /\ calls' \subseteq calls
  BY GateAloneFrame, V1Frame DEF cutoverVars, ctlVars, threadVars
<1>2. holds \in Nat /\ holds' \in Nat /\ holds' >= holds
  <2>1. holds \in Nat
    BY GateAssumption DEF BaseInv, GateInv, TypeOK
  <2>2. [HostNext]_gateVars
    BY GateAloneFrame, V1Frame DEF cutoverVars
  <2>3. QED
    BY <2>1, <2>2, HoldsGrow DEF BaseInv, GateInv
<1>3. \A c \in Controllers : mine[c] \in Nat
  BY GateAssumption DEF BaseInv, OwnTypeOK
<1>4. QED
  BY <1>1, <1>2, <1>3 DEF LockFacts

LEMMA HandleLock ==
  ASSUME BaseInv, LockFacts, Handle
  PROVE  LockFacts'
<1> PICK m \in calls : HandleBegin(m) \/ HandleCommit(m) \/ HandleAbort(m)
  BY DEF Handle
<1> USE DEF OwnTypeOK, BaseInv
<1> DEFINE b == m.by
<1>0. b \in Controllers /\ calls' \subseteq calls
      /\ holds \in Nat /\ \A c \in Controllers : mine[c] \in Nat
  BY GateAssumption DEF HandleBegin, HandleCommit, HandleAbort, LoseAll, Calls, GateInv,
       TypeOK
<1>1. \A a \in Controllers \ {b} : ctl'[a] = ctl[a] /\ mine'[a] = mine[a]
  BY <1>0 DEF HandleBegin, HandleCommit, HandleAbort, Answered, AnsweredInTry, Leave, Goto
<1>2. \/ UNCHANGED <<ctl, lock>>
      \/ ctl[b] = "committing" /\ ctl' = [ctl EXCEPT ![b] = "recovering"] /\ UNCHANGED lock
      \/ ctl[b] = "beginning" /\ ctl' = [ctl EXCEPT ![b] = "draining"] /\ UNCHANGED lock
         /\ HandleBegin(m) /\ Begin
      \/ /\ ctl[b] \in {"beginning", "committing", "aborting"}
         /\ Leave(b, "committed") \/ Leave(b, "gone")
  BY <1>0 DEF HandleBegin, HandleCommit, HandleAbort, Answered, AnsweredInTry, Leave, Goto
<1>3. \A a \in Controllers : (ctl'[a] \in Active <=> lock' = a)
  BY <1>0, <1>1, <1>2, CutoverAssumption DEF Leave, Goto, Active, LockFacts
<1>5. ctl[b] \in {"committing", "recovering", "aborting", "committed", "gone"} =>
        ctl'[b] \in {"committing", "recovering", "aborting", "committed", "gone"}
  BY <1>0, <1>2 DEF Leave, Goto
<1>6. CASE UNCHANGED mine
  <2>1. holds' >= holds /\ holds' \in Nat
    <3>1. [HostNext]_gateVars
      BY HandleIsGateStep DEF HostNext
    <3>2. QED
      BY <1>0, <3>1, HoldsGrow DEF GateInv
  <2>3. ~(ctl[b] = "beginning" /\ ctl' = [ctl EXCEPT ![b] = "draining"])
    <3>1. ASSUME HandleBegin(m), Begin, ctl[b] = "beginning",
                 ctl' = [ctl EXCEPT ![b] = "draining"]
          PROVE  FALSE
      <4>1. mine' = [mine EXCEPT ![b] = token']
        <5>1. ctl'[b] # ctl[b]
          BY <1>0, <3>1
        <5>2. QED
          BY <3>1, <5>1 DEF HandleBegin, Begin
      <4>2. token' = holds + 1
        BY <3>1 DEF Begin
      <4>3. QED
        BY <1>0, <1>6, <4>1, <4>2 DEF LockFacts
    <3>2. QED
      BY <1>0, <1>2, <3>1 DEF Leave, Goto
  <2>4. \A c \in Controllers : ctl'[c] \in Holding => ctl[c] \in Holding
    <3>1. ctl'[b] \in Holding => ctl[b] \in Holding
      BY <1>0, <1>2, <2>3 DEF Leave, Goto, Holding
    <3>2. QED
      BY <1>1, <3>1
  <2>5. \A c \in Controllers : mine'[c] <= holds'
    BY <1>0, <1>6, <2>1 DEF LockFacts
  <2>6. \A k \in calls' : k.op \in {"commit", "abort"} =>
          /\ k.token = mine'[k.by]
          /\ ctl'[k.by] \in {"committing", "recovering", "aborting", "committed", "gone"}
    BY <1>0, <1>1, <1>5, <1>6 DEF LockFacts, Calls
  <2>7. QED
    BY <1>3, <1>6, <2>4, <2>5, <2>6 DEF LockFacts
<1>7. CASE ~UNCHANGED mine
  <2>1. /\ ctl[b] = "beginning" /\ ctl'[b] = "draining"
        /\ mine'[b] = holds + 1 /\ holds' = holds + 1
    BY <1>0, <1>7 DEF HandleBegin, HandleCommit, HandleAbort, Begin, Goto
  <2>2. \A a \in Controllers \ {b} : mine'[a] < mine'[b]
    BY <1>0, <1>1, <2>1 DEF LockFacts
  <2>3. \A a \in Controllers \ {b} : ctl'[a] \notin Holding
    <3>1. lock = b
      BY <1>0, <2>1 DEF LockFacts, Active
    <3>2. QED
      BY <1>1, <3>1 DEF LockFacts, Active, Holding
  <2>4. \A k \in calls' : k.op \in {"commit", "abort"} => k.by # b /\ k.by \in Controllers
    BY <1>0, <2>1 DEF LockFacts, Calls
  <2>5. QED
    BY <1>0, <1>1, <1>3, <2>1, <2>2, <2>3, <2>4 DEF LockFacts
<1>8. QED
  BY <1>6, <1>7

LEMMA LockStep ==
  ASSUME BaseInv, LockFacts, [CutoverHostNext]_cutoverVars
  PROVE  LockFacts'
BY StepKinds, LocalLock, ThreadLock, GateLock, HandleLock DEF BaseInv, Local

LEMMA LockInit == CutoverInit => LockFacts
<1> SUFFICES ASSUME CutoverInit PROVE LockFacts
  OBVIOUS
<1>1. /\ \A c \in Controllers : ctl[c] = "idle" /\ mine[c] = None
      /\ lock = Nobody /\ calls = {} /\ holds = 0
  BY DEF CutoverInit, Init
<1>2. QED
  BY <1>1, CutoverAssumption DEF LockFacts, Active, Holding, None

\* Only the newest hold is in force, so a late abort never ends another hold.
THEOREM LateAbortHarmless == CutoverHostSpec => AbortOnlyOwnHold
<1>1. ASSUME BaseInv, LockFacts, [CutoverHostNext]_cutoverVars
      PROVE  [\A m \in calls \ calls' :
               (m.op = "abort" /\ phase = "HOLD" /\ phase' = "V1")
                 => token = mine[m.by]]_cutoverVars
  <2>1. ASSUME NEW m \in calls \ calls', m.op = "abort", phase = "HOLD", phase' = "V1"
        PROVE  token = mine[m.by]
    <3>1. HandleAbort(m)
      <4>1. ~GateAlone
        BY <2>1 DEF GateAlone, GateRequest, GateTimer, GateCrash, GatePowerLoss,
             GateRestart, GateWriteback, Crash, PowerLoss, Die, Restart, ctlVars
      <4>2. ~V1Step
        BY <2>1, V1Frame DEF ctlVars
      <4>3. ~Local
        BY <2>1, LocalFrame DEF gateVars
      <4>4. ASSUME NEW k \in calls, HandleBegin(k) \/ HandleCommit(k) PROVE FALSE
        BY <2>1, <4>4 DEF HandleBegin, HandleCommit, Begin, CommitDurably,
             CommitUncertain, CrashInCommit, Die, gateVars
      <4>5. ASSUME NEW k \in calls, HandleAbort(k) PROVE HandleAbort(m)
        BY <2>1, <4>5 DEF HandleAbort
      <4>6. QED
        BY <1>1, <2>1, <4>1, <4>2, <4>3, <4>4, <4>5, StepKinds DEF Handle, cutoverVars,
             gateVars
    <3>2. m.token = token
      BY <2>1, <3>1 DEF HandleAbort, AdminAbort, gateVars
    <3>3. QED
      BY <1>1, <2>1, <3>2 DEF LockFacts
  <2>2. QED
    BY <2>1
<1>2. BaseInv /\ LockFacts /\ [CutoverHostNext]_cutoverVars => BaseInv' /\ LockFacts'
  BY BaseStep, LockStep
<1>3. QED
  BY <1>1, <1>2, BaseInit, LockInit, PTL DEF CutoverHostSpec, AbortOnlyOwnHold

-----------------------------------------------------------------------------
(* What a controller was told.                                              *)

\* What a controller was told is on the disk.
Told == (\E c \in Controllers : ctl[c] = "committed") => disk = "V2"

\* The rename that was synced is there for good.
LEMMA DiskStays ==
  ASSUME GateInv, GateFacts, [HostNext]_gateVars, disk = "V2"
  PROVE  disk' = "V2"
BY DEF HostNext, Next, RequestStep, ArriveOpen, ArriveHeld, ArriveAborting, ArriveBlocked,
     WakeForward, WakeBlocked, WakeDisconnected, CancelWaiting, Complete, Break, Finish,
     TimerStep, DeadlinePasses, Expire, AdminStep, Begin, CommitDurably, CommitUncertain,
     CrashInCommit, AdminAbort, Crash, PowerLoss, Restart, Writeback, Die, gateVars,
     GateFacts

LEMMA ToldStep ==
  ASSUME BaseInv, Told, [CutoverHostNext]_cutoverVars
  PROVE  Told'
<1>1. disk = "V2" => disk' = "V2"
  BY BaseStep, DiskStays DEF BaseInv
<1>2. ASSUME NEW c \in Controllers, ctl'[c] = "committed", ctl[c] # "committed"
      PROVE  disk' = "V2"
  <2>1. ~(GateAlone \/ V1Step \/ UNCHANGED cutoverVars)
    BY <1>2, GateAloneFrame, V1Frame DEF ctlVars, cutoverVars
  <2>2. ~Local
    BY <1>2 DEF Local, BaseInv, OwnTypeOK, ControllerStep, Lock, LockBusy, Preflight,
         Drained, HoldGone, SendCommit, ImportFailed, Recover, CallFails, Interrupt, Kill,
         Leave, Goto, ThreadStep, Snapshot, Scan, Delete, Write, Verify, ImportError, At,
         ctlVars
  <2>3. PICK m \in calls : HandleBegin(m) \/ HandleCommit(m) \/ HandleAbort(m)
    BY <2>1, <2>2, StepKinds DEF Handle
  <2>4. CommitDurably(m.token, m.matched)
    BY <1>2, <2>3 DEF HandleBegin, HandleCommit, HandleAbort, Answered, AnsweredInTry,
         Leave, Goto, BaseInv, OwnTypeOK
  <2>5. QED
    BY <2>4 DEF CommitDurably
<1>3. QED
  BY <1>1, <1>2 DEF Told

\* A commit that was acknowledged survives every crash and power loss.
THEOREM AckedIsForever == CutoverHostSpec => []AckedForever
<1>1. BaseInv /\ Told => AckedForever
  BY DEF BaseInv, GateInv, AuthorityFence, GateFacts, Told, AckedForever
<1>2. CutoverInit => Told
  BY DEF CutoverInit, Told
<1>3. BaseInv /\ Told /\ [CutoverHostNext]_cutoverVars => BaseInv' /\ Told'
  BY BaseStep, ToldStep
<1>4. QED
  BY <1>1, <1>2, <1>3, BaseInit, PTL DEF CutoverHostSpec

-----------------------------------------------------------------------------
(* Imports.                                                                 *)

\* An import runs while its controller waits for it.
Imports == \A c \in Controllers : thread[c] # "none" => ctl[c] = "importing"

\* This is where an interrupt of the coroutine that awaits the import hurts.
LEMMA ImportsStep ==
  ASSUME BaseInv, Imports, ~Interruptible, [CutoverHostNext]_cutoverVars
  PROVE  Imports'
<1> USE DEF BaseInv, OwnTypeOK
<1>1. CASE GateAlone \/ V1Step \/ UNCHANGED cutoverVars
  BY <1>1, GateAloneFrame, V1Frame DEF ctlVars, threadVars, cutoverVars, Imports
<1>2. ASSUME NEW c \in Controllers, ControllerStep(c) PROVE Imports'
  <2>1. \A a \in Controllers \ {c} : ctl'[a] = ctl[a] /\ thread'[a] = thread[a]
    BY <1>2 DEF ControllerStep, Lock, LockBusy, Preflight, Drained, HoldGone, SendCommit,
         ImportFailed, Recover, CallFails, Interrupt, Kill, Leave, Goto, Return, ThreadTo,
         threadVars
  <2>2. thread'[c] # "none" => ctl'[c] = "importing"
    <3>1. CASE Drained(c) \/ SendCommit(c) \/ ImportFailed(c) \/ Kill(c)
      BY <3>1 DEF Drained, SendCommit, ImportFailed, Kill, Leave, Goto, Return, ThreadTo
    <3>2. CASE ~(Drained(c) \/ SendCommit(c) \/ ImportFailed(c) \/ Kill(c))
      <4>1. UNCHANGED thread /\ ctl[c] # "importing"
        BY <1>2, <3>2 DEF ControllerStep, Lock, LockBusy, Preflight, HoldGone, Recover,
             CallFails, Interrupt, threadVars
      <4>2. QED
        BY <4>1 DEF Imports
    <3>3. QED
      BY <3>1, <3>2
  <2>3. QED
    BY <2>1, <2>2 DEF Imports
<1>3. ASSUME NEW c \in Controllers, ThreadStep(c) PROVE Imports'
  <2>1. UNCHANGED ctl /\ thread[c] # "none"
    BY <1>3 DEF ThreadStep, Snapshot, Scan, Delete, Write, Verify, ImportError, At,
         ctlVars
  <2>2. \A a \in Controllers \ {c} : thread'[a] = thread[a]
    BY <1>3 DEF ThreadStep, Snapshot, Scan, Delete, Write, Verify, ImportError, Return,
         ThreadTo
  <2>3. QED
    BY <2>1, <2>2 DEF Imports
<1>4. CASE Handle
  <2>1. UNCHANGED thread /\ \A a \in Controllers : ctl[a] = "importing" => ctl'[a] = "importing"
    BY <1>4 DEF Handle, HandleBegin, HandleCommit, HandleAbort, Answered, AnsweredInTry,
         Leave, Goto, threadVars, Calls
  <2>2. QED
    BY <2>1 DEF Imports
<1>5. QED
  BY <1>1, <1>2, <1>3, <1>4, StepKinds DEF Local

\* No import is at work, or waits to be asked about, once V2 is committed.
Quiet == journal = "V2" => \A c \in Controllers : thread[c] = "none"

\* Only a commit moves the journal to V2.
LEMMA JournalMoves ==
  ASSUME GateInv, GateFacts, [HostNext]_gateVars, journal' = "V2", journal # "V2"
  PROVE  \E t \in 1..holds, matched \in BOOLEAN :
            CommitDurably(t, matched) \/ CommitUncertain(t, matched) \/ CrashInCommit(t, matched)
BY DEF HostNext, Next, RequestStep, ArriveOpen, ArriveHeld, ArriveAborting, ArriveBlocked,
     WakeForward, WakeBlocked, WakeDisconnected, CancelWaiting, Complete, Break, Finish,
     TimerStep, DeadlinePasses, Expire, AdminStep, Begin, AdminAbort, Crash, PowerLoss,
     Restart, Writeback, Die, gateVars, GateFacts

\* ... and a commit is one that was asked for, under the hold in force.
LEMMA CommitAsked ==
  ASSUME BaseInv, [CutoverHostNext]_cutoverVars, journal' = "V2", journal # "V2"
  PROVE  \E m \in calls : /\ HandleCommit(m) /\ m.op = "commit"
                          /\ phase = "HOLD" /\ m.token = token /\ inflight["V1"] = 0
<1>1. phase = "HOLD" /\ phase' \in {"V2", "BLOCKED", "DOWN"} /\ UNCHANGED holds
  BY BaseStep, JournalMoves DEF BaseInv, CommitDurably, CommitUncertain, CrashInCommit,
       Acceptable, Die
<1>2. ~GateAlone
  <2>1. ASSUME NEW r \in Requests, RequestStep(r) PROVE FALSE
    BY <2>1 DEF RequestStep, ArriveOpen, ArriveHeld, ArriveAborting, ArriveBlocked,
         WakeForward, WakeBlocked, WakeDisconnected, CancelWaiting, Complete, Break,
         Finish
  <2>2. CASE GateTimer
    BY <2>2 DEF GateTimer, TimerStep, DeadlinePasses, Expire
  <2>3. CASE GateCrash \/ GatePowerLoss \/ GateRestart \/ GateWriteback
    BY <2>3 DEF GateCrash, GatePowerLoss, GateRestart, GateWriteback, Crash, PowerLoss,
         Restart, Writeback, Die, BaseInv, GateFacts
  <2>4. QED
    BY <2>1, <2>2, <2>3 DEF GateAlone, GateRequest
<1>3. Handle
  BY <1>2, StepKinds, LocalFrame, V1Frame DEF gateVars, cutoverVars
<1>4. PICK m \in calls : HandleBegin(m) \/ HandleCommit(m) \/ HandleAbort(m)
  BY <1>3 DEF Handle
<1>5. HandleCommit(m)
  BY <1>4 DEF HandleBegin, HandleAbort, Begin, AdminAbort, gateVars
<1>6. QED
  BY <1>5 DEF HandleCommit, CommitDurably, CommitUncertain, CrashInCommit, Acceptable,
       gateVars

\* Under the hold in force, no import runs once its commit was asked for.
LEMMA AskedIsLast ==
  ASSUME BaseInv, LockFacts, Imports, phase = "HOLD",
         NEW m \in calls, m.op = "commit", m.token = token,
         NEW c \in Controllers
  PROVE  thread[c] = "none"
<1> SUFFICES ASSUME thread[c] # "none" PROVE FALSE
  OBVIOUS
<1>1. ctl[c] = "importing" /\ m.by \in Controllers
  BY DEF Imports, BaseInv, OwnTypeOK, Calls
<1>2. m.by # c /\ mine[m.by] = holds
  BY <1>1 DEF LockFacts, BaseInv, GateFacts
<1>3. mine[m.by] < mine[c] /\ mine[c] <= holds
  BY <1>1, <1>2 DEF LockFacts, Holding
<1>4. holds \in Nat /\ mine[c] \in Nat
  BY GateAssumption DEF BaseInv, OwnTypeOK, GateInv, TypeOK
<1>5. QED
  BY <1>2, <1>3, <1>4

LEMMA QuietStep ==
  ASSUME BaseInv, LockFacts, Imports, Quiet, [CutoverHostNext]_cutoverVars
  PROVE  Quiet'
<1> SUFFICES ASSUME journal' = "V2", NEW c \in Controllers PROVE thread'[c] = "none"
  BY DEF Quiet
<1>1. CASE journal # "V2"
  <2>1. PICK m \in calls : HandleCommit(m) /\ m.op = "commit" /\ phase = "HOLD" /\ m.token = token
    BY <1>1, CommitAsked
  <2>2. QED
    BY <2>1, AskedIsLast DEF HandleCommit, threadVars
<1>2. CASE journal = "V2"
  <2>1. thread[c] = "none" /\ phase # "HOLD"
    BY <1>2 DEF Quiet, BaseInv, GateInv, AuthorityFence
  <2>2. CASE ~Local
    BY <2>1, <2>2, StepKinds, GateAloneFrame, V1Frame
    DEF Handle, HandleBegin, HandleCommit, HandleAbort, threadVars, cutoverVars
  <2>3. ASSUME NEW a \in Controllers, ControllerStep(a) PROVE thread'[c] = "none"
    BY <2>1, <2>3 DEF ControllerStep, Lock, LockBusy, Preflight, Drained, HoldGone,
         SendCommit, ImportFailed, Recover, CallFails, Interrupt, Kill, Return, ThreadTo,
         threadVars, BaseInv, OwnTypeOK
  <2>4. ASSUME NEW a \in Controllers, ThreadStep(a) PROVE thread'[c] = "none"
    <3>1. thread[a] # "none"
      BY <2>4 DEF ThreadStep, Snapshot, Scan, Delete, Write, Verify, ImportError, At
    <3>2. QED
      BY <1>2, <3>1 DEF Quiet
  <2>5. QED
    BY <2>2, <2>3, <2>4 DEF Local
<1>3. QED
  BY <1>1, <1>2

ImportInv == BaseInv /\ LockFacts /\ Imports /\ Quiet

LEMMA ImportInvStep ==
  ~Interruptible => (ImportInv /\ [CutoverHostNext]_cutoverVars => ImportInv')
BY BaseStep, LockStep, ImportsStep, QuietStep DEF ImportInv

LEMMA ImportInvInit == CutoverInit => ImportInv
<1>1. CutoverInit => Imports /\ Quiet
  BY DEF CutoverInit, Imports, Quiet
<1>2. QED
  BY <1>1, BaseInit, LockInit DEF ImportInv

\* Without an interrupt of the coroutine that awaits it, no import is at work once
\* V2 is committed, however late the commit of which controller is handled.
THEOREM NoLateImport ==
  ASSUME ~Interruptible
  PROVE  CutoverHostSpec => []ImportOverAtCommit
<1>1. ImportInv => ImportOverAtCommit
  BY DEF ImportInv, Quiet, ImportOverAtCommit
<1>2. ImportInv /\ [CutoverHostNext]_cutoverVars => ImportInv'
  BY ImportInvStep
<1>3. QED
  BY <1>1, <1>2, ImportInvInit, PTL DEF CutoverHostSpec

-----------------------------------------------------------------------------
(* The ends of V1's requests.                                               *)

\* The requests of V1 whose end the gate does not know.
Loosened == {r \in Requests : \E n \in 0..MaxHolds : <<r, n>> \in loose}

\* What is known of the ends of V1's requests.
EndFacts ==
  /\ \A r \in Requests : v1[r] # "none" => dest[r] = "V1"
  /\ \A r \in Requests : dest[r] = "V1" =>
       r \in Served("V1") \/ v1[r] = "answered" \/ r \in Loosened
  /\ \A r \in Requests : dest[r] = "V1" /\ pc[r] = "completed" => v1[r] = "answered"
  /\ \A p \in loose : p[2] <= holds
  /\ phase = "HOLD" \/ journal = "V2" => \A p \in loose : p[2] < holds

LEMMA LoosenedGrows ==
  ASSUME loose \subseteq loose'
  PROVE  Loosened \subseteq Loosened'
BY DEF Loosened

LEMMA NobodyServed ==
  ASSUME GateInv, inflight["V1"] = 0
  PROVE  Served("V1") = {}
<1>1. IsFiniteSet(Served("V1")) /\ Cardinality(Served("V1")) = 0
  BY CountedFinite DEF GateInv, CountersMatch, Destinations
<1>2. QED
  BY <1>1, FS_EmptySet

\* A step of a request of V1: admitted, ended, counted out, in this order.
LEMMA RequestEnds ==
  ASSUME BaseInv, EndFacts, NEW r \in Requests, GateRequest(r)
  PROVE  EndFacts'
<1> USE DEF BaseInv, GateInv, TypeOK, OwnTypeOK
<1>1. UNCHANGED <<v1, holds, journal>> /\ loose \subseteq loose' /\ RequestStep(r)
  BY DEF GateRequest, RequestStep, ArriveOpen, ArriveHeld, ArriveAborting, ArriveBlocked,
       WakeForward, WakeBlocked, WakeDisconnected, CancelWaiting, Complete, Break, Finish
<1>2. \A u \in Requests \ {r} : pc'[u] = pc[u] /\ dest'[u] = dest[u]
  BY <1>1 DEF RequestStep, ArriveOpen, ArriveHeld, ArriveAborting, ArriveBlocked, Forward,
       Release, WakeForward, WakeBlocked, WakeDisconnected, CancelWaiting, Complete,
       Break, Finish
<1>3. dest'[r] = dest[r] \/ (dest[r] = "none" /\ pc'[r] = "forwarded")
  BY <1>1 DEF RequestStep, ArriveOpen, ArriveHeld, ArriveAborting, ArriveBlocked, Forward,
       Release, WakeForward, WakeBlocked, WakeDisconnected, CancelWaiting, Complete,
       Break, Finish, NotAdmitted
<1>4. ASSUME dest[r] = "V1"
      PROVE  \/ pc[r] = "forwarded" /\ pc'[r] = "completed" /\ v1[r] = "answered"
             \/ pc[r] = "forwarded" /\ pc'[r] = "failed"
             \/ pc[r] = "completed" /\ pc'[r] = "done"
             \/ pc[r] = "failed" /\ pc'[r] = "broken" /\ loose' = loose \union {<<r, holds>>}
  <2>1. pc[r] \notin {"idle", "waiting"} /\ dest'[r] = "V1"
    BY <1>3, <1>4 DEF NotAdmitted
  <2>2. Complete(r) \/ Break(r) \/ Finish(r)
    BY <1>1, <2>1 DEF RequestStep, ArriveOpen, ArriveHeld, ArriveAborting, ArriveBlocked,
         WakeForward, WakeBlocked, WakeDisconnected, CancelWaiting
  <2>3. CASE Complete(r)
    BY <1>4, <2>3 DEF Complete, GateRequest
  <2>4. CASE Break(r)
    BY <2>4 DEF Break
  <2>5. CASE Finish(r)
    BY <1>4, <2>5, <2>1 DEF Finish, GateRequest
  <2>6. QED
    BY <2>2, <2>3, <2>4, <2>5
<1>5. Loosened \subseteq Loosened'
  BY <1>1, LoosenedGrows
<1>6. \A u \in Requests : v1'[u] # "none" => dest'[u] = "V1"
  BY <1>1, <1>2, <1>3 DEF EndFacts
<1>7. ASSUME NEW u \in Requests, dest'[u] = "V1"
      PROVE  u \in Served("V1")' \/ v1'[u] = "answered" \/ u \in Loosened'
  <2>1. CASE u # r
    BY <1>1, <1>2, <1>5, <1>7, <2>1 DEF EndFacts, Served
  <2>2. CASE u = r /\ dest[r] # "V1"
    BY <1>3, <1>7, <2>2 DEF Served
  <2>3. CASE u = r /\ dest[r] = "V1"
    <3>1. CASE pc'[r] \in {"completed", "failed"}
      BY <1>7, <2>3, <3>1 DEF Served
    <3>2. CASE pc[r] = "completed" /\ pc'[r] = "done"
      BY <1>1, <2>3, <3>2 DEF EndFacts
    <3>3. CASE loose' = loose \union {<<r, holds>>}
      BY <2>3, <3>3 DEF Loosened
    <3>4. QED
      BY <1>4, <2>3, <3>1, <3>2, <3>3
  <2>4. QED
    BY <2>1, <2>2, <2>3
<1>8. ASSUME NEW u \in Requests, dest'[u] = "V1", pc'[u] = "completed"
      PROVE  v1'[u] = "answered"
  BY <1>1, <1>2, <1>3, <1>4, <1>8 DEF EndFacts
<1>9. \/ loose' = loose
      \/ loose' = loose \union {<<r, holds>>} /\ phase' \in {"V1"} /\ journal' = "none"
  <2>1. CASE pc'[r] = "broken" /\ dest[r] = "V1"
    <3>1. Finish(r)
      BY <1>1, <2>1 DEF RequestStep, ArriveOpen, ArriveHeld, ArriveAborting,
           ArriveBlocked, Forward, Release, WakeForward, WakeBlocked, WakeDisconnected,
           CancelWaiting, Complete, Break
    <3>2. r \in Served("V1") /\ pc[r] = "failed"
      BY <2>1, <3>1 DEF Finish, Served
    <3>3. phase \in {"V1", "HOLD"} /\ journal = "none"
      BY <3>2 DEF AuthorityFence
    <3>4. phase' = "V1"
      BY <3>1, <3>2, <3>3 DEF Finish, AbortLocked
    <3>5. QED
      BY <1>1, <2>1, <3>3, <3>4 DEF GateRequest
  <2>2. CASE ~(pc'[r] = "broken" /\ dest[r] = "V1")
    BY <2>2 DEF GateRequest
  <2>3. QED
    BY <2>1, <2>2
<1>10. phase' = "HOLD" => phase = "HOLD"
  BY <1>1, HoldLasts, GateAloneFrame DEF GateAlone, RequestStep, ArriveOpen, ArriveHeld,
       ArriveAborting, ArriveBlocked, WakeForward, WakeBlocked, WakeDisconnected,
       CancelWaiting, Complete, Break, Finish, AbortLocked
<1>11. /\ \A p \in loose' : p[2] <= holds'
       /\ phase' = "HOLD" \/ journal' = "V2" => \A p \in loose' : p[2] < holds'
  <2>1. holds \in Nat
    BY GateAssumption
  <2>2. QED
    BY <1>1, <1>9, <1>10, <2>1 DEF EndFacts
<1>12. QED
  BY <1>6, <1>7, <1>8, <1>11 DEF EndFacts

\* The gate dies: nobody knows of its requests.
LEMMA DeathEnds ==
  ASSUME BaseInv, EndFacts, UNCHANGED v1, Die, LoseAll,
         journal' = "V2" => journal = "V2" \/ (Served("V1") = {} /\ phase = "HOLD")
  PROVE  EndFacts'
<1> USE DEF BaseInv, GateInv, TypeOK, OwnTypeOK
<1>1. UNCHANGED <<holds, dest>> /\ phase' = "DOWN" /\ loose \subseteq loose'
  BY DEF Die, LoseAll
<1>2. Loosened \subseteq Loosened'
  BY <1>1, LoosenedGrows
<1>3. Served("V1") \subseteq Loosened'
  BY DEF LoseAll, Loosened, Served
<1>4. \A u \in Requests : dest'[u] = "V1" => v1'[u] = "answered" \/ u \in Loosened'
  BY <1>1, <1>2, <1>3 DEF EndFacts
<1>5. \A u \in Requests : pc'[u] # "completed"
  BY DEF Die
<1>6. \A p \in loose' : p \in loose \/ p[2] = holds
  BY DEF LoseAll
<1>7. journal' = "V2" => loose' = loose /\ (journal = "V2" \/ phase = "HOLD")
  <2>1. journal = "V2" => Served("V1") = {}
    BY DEF AuthorityFence
  <2>2. QED
    BY <2>1 DEF LoseAll
<1>8. holds \in Nat
  BY GateAssumption
<1>9. QED
  BY <1>1, <1>4, <1>5, <1>6, <1>7, <1>8 DEF EndFacts

LEMMA EndStep ==
  ASSUME BaseInv, EndFacts, [CutoverHostNext]_cutoverVars
  PROVE  EndFacts'
<1> USE DEF BaseInv
<1>0. holds \in Nat
  BY GateAssumption DEF GateInv, TypeOK
<1>1. ASSUME UNCHANGED <<v1, dest, pc, loose, holds>>,
              phase' = "HOLD" \/ journal' = "V2" => phase = "HOLD" \/ journal = "V2"
      PROVE  EndFacts'
  BY <1>1 DEF EndFacts, Loosened, Served
<1>2. CASE GateTimer \/ GateRestart \/ GateWriteback
  <2>1. CASE GateTimer
    BY <1>1, <2>1 DEF GateTimer, TimerStep, DeadlinePasses, Expire, AbortLocked, dataVars
  <2>2. CASE GateRestart \/ GateWriteback
    BY <1>1, <2>2 DEF GateRestart, GateWriteback, Restart, Writeback, dataVars
  <2>3. QED
    BY <1>2, <2>1, <2>2
<1>3. CASE GateCrash \/ GatePowerLoss
  <2>1. UNCHANGED v1 /\ Die /\ LoseAll
    BY <1>3 DEF GateCrash, GatePowerLoss, Crash, PowerLoss
  <2>2. journal' = "V2" => journal = "V2"
    BY <1>3 DEF GateCrash, GatePowerLoss, Crash, PowerLoss, GateFacts
  <2>3. QED
    BY <2>1, <2>2, DeathEnds
<1>4. CASE V1Step
  <2>1. UNCHANGED <<dest, pc, loose, holds, phase, journal>>
    BY <1>4, V1Frame DEF gateVars
  <2>2. \A u \in Requests : \/ v1'[u] = v1[u]
                            \/ v1'[u] = "answered" /\ v1[u] = "running"
                            \/ dest[u] = "V1" /\ v1'[u] = "running" /\ v1[u] = "none"
    <3>1. ASSUME NEW r \in Requests, V1Receive(r)
          PROVE  \A u \in Requests :
                   \/ v1'[u] = v1[u]
                   \/ dest[u] = "V1" /\ v1'[u] = "running" /\ v1[u] = "none"
      BY <3>1 DEF V1Receive, OwnTypeOK
    <3>2. ASSUME NEW r \in Requests, V1Answer(r)
          PROVE  \A u \in Requests : v1'[u] = v1[u] \/ (v1'[u] = "answered" /\ v1[u] = "running")
      BY <3>2 DEF V1Answer, OwnTypeOK
    <3>3. QED
      BY <1>4, <3>1, <3>2 DEF V1Step
  <2>3. QED
    BY <2>1, <2>2 DEF EndFacts, Loosened, Served
<1>5. CASE Local \/ UNCHANGED cutoverVars
  BY <1>1, <1>5, LocalFrame DEF gateVars, cutoverVars, dataVars
<1>6. CASE Handle
  <2>1. PICK m \in calls : HandleBegin(m) \/ HandleCommit(m) \/ HandleAbort(m)
    BY <1>6 DEF Handle
  <2>2. UNCHANGED v1
    BY <2>1 DEF HandleBegin, HandleCommit, HandleAbort, dataVars
  <2>3. CASE HandleBegin(m)
    <3>1. CASE Begin
      <4>1. UNCHANGED <<v1, dest, pc, loose>> /\ holds' = holds + 1
        BY <2>3, <3>1 DEF HandleBegin, Begin, dataVars
      <4>2. \A p \in loose : p[2] \in Nat /\ p[2] <= holds
        BY GateAssumption DEF EndFacts, OwnTypeOK
      <4>3. \A p \in loose' : p[2] <= holds' /\ p[2] < holds'
        BY <1>0, <4>1, <4>2
      <4>4. UNCHANGED <<Loosened, Served("V1")>>
        BY <4>1 DEF Loosened, Served
      <4>5. QED
        BY <4>1, <4>3, <4>4 DEF EndFacts
    <3>2. CASE ~Begin
      BY <1>1, <2>3, <3>2 DEF HandleBegin, gateVars, dataVars
    <3>3. QED
      BY <3>1, <3>2
  <2>4. CASE HandleAbort(m)
    BY <1>1, <2>4 DEF HandleAbort, AdminAbort, AbortLocked, gateVars, dataVars
  <2>5. CASE HandleCommit(m)
    <3>1. CASE CrashInCommit(m.token, m.matched) /\ LoseAll
      <4>1. Served("V1") = {} /\ phase = "HOLD"
        BY <3>1, NobodyServed DEF CrashInCommit, Acceptable
      <4>2. QED
        BY <2>2, <3>1, <4>1, DeathEnds DEF CrashInCommit
    <3>2. CASE ~(CrashInCommit(m.token, m.matched) /\ LoseAll)
      BY <1>1, <2>2, <2>5, <3>2 DEF HandleCommit, CommitDurably, CommitUncertain,
           Acceptable, gateVars
    <3>3. QED
      BY <3>1, <3>2
  <2>6. QED
    BY <2>1, <2>3, <2>4, <2>5
<1>7. QED
  BY <1>2, <1>3, <1>4, <1>5, <1>6, RequestEnds, StepKinds DEF GateAlone

LEMMA EndInit == CutoverInit => EndFacts
BY DEF CutoverInit, Init, EndFacts, Served

-----------------------------------------------------------------------------
(* The copy.                                                                *)

HoldOf(c) == phase = "HOLD" /\ token = mine[c]
Asked(c) == \E m \in calls : m.op = "commit" /\ m.by = c
Differ(c) == (sql \ snap[c]) \union (snap[c] \ sql)

\* Under the hold of an import V1 is drained, and what differs from its snapshot,
\* later from its copy, is the work of requests whose end is unknown.
CopyFacts ==
  /\ \A c \in Controllers : HoldOf(c) =>
       /\ thread[c] # "none" \/ Asked(c) => Served("V1") = {}
       /\ thread[c] \in {"scan", "delete", "write"} => Differ(c) \subseteq Loosened
       /\ thread[c] = "proved" \/ Asked(c) => Divergence \subseteq Loosened
  /\ journal = "V2" => Divergence \subseteq Loosened

CutoverInv == ImportInv /\ EndFacts /\ CopyFacts

\* The gate by itself starts no hold and commits nothing.
LEMMA GateAloneKeeps ==
  ASSUME BaseInv, GateAlone
  PROVE  holds' = holds /\ (journal' = "V2" => journal = "V2")
<1>1. ASSUME NEW r \in Requests, GateRequest(r) PROVE UNCHANGED <<holds, journal>>
  BY <1>1 DEF GateRequest, RequestStep, ArriveOpen, ArriveHeld, ArriveAborting,
       ArriveBlocked, WakeForward, WakeBlocked, WakeDisconnected, CancelWaiting, Complete,
       Break, Finish
<1>2. CASE GateTimer
  BY <1>2 DEF GateTimer, TimerStep, DeadlinePasses, Expire
<1>3. CASE GateCrash \/ GatePowerLoss
  BY <1>3 DEF GateCrash, GatePowerLoss, Crash, PowerLoss, Die, BaseInv, GateFacts
<1>4. CASE GateRestart \/ GateWriteback
  BY <1>4 DEF GateRestart, GateWriteback, Restart, Writeback
<1>5. QED
  BY <1>1, <1>2, <1>3, <1>4 DEF GateAlone

\* A step that leaves the data and the imports alone, and starts no hold.
LEMMA CopyKept ==
  ASSUME BaseInv, CopyFacts, [HostNext]_gateVars, ~Begin,
         UNCHANGED <<sql, redis, mine, thread, snap>>,
         calls' \subseteq calls, loose \subseteq loose',
         journal' = "V2" => Divergence \subseteq Loosened
  PROVE  CopyFacts'
<1>1. Loosened \subseteq Loosened'
  BY LoosenedGrows
<1>2. ASSUME NEW c \in Controllers, HoldOf(c)'
      PROVE  HoldOf(c) /\ Served("V1")' \subseteq Served("V1")
  BY <1>2, HoldLasts DEF HoldOf, BaseInv
<1>3. \A c \in Controllers : Asked(c)' => Asked(c)
  BY DEF Asked
<1>4. Divergence' = Divergence /\ \A c \in Controllers : Differ(c)' = Differ(c)
  BY DEF Divergence, Differ
<1>5. QED
  BY <1>1, <1>2, <1>3, <1>4 DEF CopyFacts

\* V1 still answers requests it got before the hold: only those whose end the gate
\* does not know.
LEMMA CopyV1 ==
  ASSUME CutoverInv, V1Step
  PROVE  CopyFacts'
<1> USE DEF CutoverInv, ImportInv, BaseInv
<1>1. UNCHANGED <<phase, journal, token, dest, pc, redis, loose, mine, calls, thread, snap>>
  BY V1Frame DEF gateVars, ctlVars, threadVars
<1>2. Loosened' = Loosened /\ Served("V1")' = Served("V1")
      /\ \A c \in Controllers : Asked(c)' = Asked(c) /\ HoldOf(c)' = HoldOf(c)
  BY <1>1 DEF Loosened, Served, Asked, HoldOf
<1>3. ASSUME Served("V1") = {} PROVE (sql \ sql') \union (sql' \ sql) \subseteq Loosened
  <2>1. ASSUME NEW r \in Requests, V1Receive(r) PROVE sql' = sql
    BY <2>1 DEF V1Receive
  <2>2. ASSUME NEW r \in Requests, V1Answer(r)
        PROVE  (sql \ sql') \union (sql' \ sql) \subseteq Loosened
    <3>1. r \in Loosened
      BY <1>3, <2>2 DEF V1Answer, EndFacts
    <3>2. (sql \ sql') \union (sql' \ sql) \subseteq {r}
      BY <2>2 DEF V1Answer
    <3>3. QED
      BY <3>1, <3>2
  <2>3. QED
    BY <2>1, <2>2 DEF V1Step
<1>4. ASSUME Served("V1") = {}
      PROVE  /\ Divergence \subseteq Loosened => Divergence' \subseteq Loosened
             /\ \A c \in Controllers : Differ(c) \subseteq Loosened => Differ(c)' \subseteq Loosened
  BY <1>1, <1>3, <1>4 DEF Divergence, Differ
<1>5. journal = "V2" => Served("V1") = {}
  BY DEF GateInv, AuthorityFence
<1>6. QED
  BY <1>1, <1>2, <1>4, <1>5 DEF CopyFacts

\* While an import runs, nobody else relies on the copy.
LEMMA NobodyElse ==
  ASSUME CutoverInv, NEW c \in Controllers, thread[c] # "none", NEW a \in Controllers, HoldOf(a)
  PROVE  /\ thread[a] # "none" \/ Asked(a) => a = c
         /\ ~Asked(c) /\ journal # "V2"
<1> USE DEF CutoverInv, ImportInv
<1>1. ctl[c] = "importing"
  BY DEF Imports
<1>2. ~Asked(c)
  BY <1>1 DEF Asked, LockFacts
<1>3. a # c => mine[a] < mine[c] /\ mine[c] <= holds /\ mine[a] = holds
  BY <1>1 DEF LockFacts, Holding, HoldOf, BaseInv, GateFacts
<1>4. holds \in Nat /\ mine[c] \in Nat
  BY GateAssumption DEF BaseInv, OwnTypeOK, GateInv, TypeOK
<1>5. journal # "V2"
  BY DEF HoldOf, BaseInv, GateInv, AuthorityFence
<1>6. QED
  BY <1>2, <1>3, <1>4, <1>5

LEMMA CopyThread ==
  ASSUME CutoverInv, NEW c \in Controllers, ThreadStep(c)
  PROVE  CopyFacts'
<1> USE DEF CutoverInv, ImportInv, BaseInv, OwnTypeOK
<1>1. /\ UNCHANGED <<phase, journal, token, dest, pc, sql, loose, mine, calls>>
      /\ thread[c] # "none"
      /\ \A a \in Controllers \ {c} : thread'[a] = thread[a] /\ snap'[a] = snap[a]
  BY DEF ThreadStep, Snapshot, Scan, Delete, Write, Verify, ImportError, At, Return,
       ThreadTo, gateVars, ctlVars, dataVars
<1>2. Loosened' = Loosened /\ Served("V1")' = Served("V1")
      /\ \A a \in Controllers : Asked(a)' = Asked(a) /\ HoldOf(a)' = HoldOf(a)
  BY <1>1 DEF Loosened, Served, Asked, HoldOf
<1>3. journal # "V2"
  BY <1>1 DEF Quiet
<1>4. ASSUME NEW a \in Controllers, HoldOf(a)', a # c
      PROVE  thread'[a] = "none" /\ ~Asked(a)'
  BY <1>1, <1>2, <1>4, NobodyElse
<1>5. ASSUME HoldOf(c)'
      PROVE  /\ Served("V1")' = {} /\ ~Asked(c)'
             /\ thread'[c] \in {"scan", "delete", "write"} => Differ(c)' \subseteq Loosened'
             /\ thread'[c] = "proved" => Divergence' \subseteq Loosened'
  <2>1. Served("V1") = {} /\ ~Asked(c) /\ HoldOf(c)
    BY <1>1, <1>2, <1>5, NobodyElse DEF CopyFacts
  <2>2. CASE Snapshot(c)
    <3>1. snap'[c] = sql /\ thread'[c] = "scan"
      BY <2>2 DEF Snapshot, ThreadTo
    <3>2. Differ(c)' = {}
      BY <1>1, <3>1 DEF Differ
    <3>3. QED
      BY <1>2, <2>1, <3>1, <3>2
  <2>3. CASE Scan(c) \/ Delete(c) \/ Write(c)
    <3>1. thread[c] \in {"scan", "delete", "write"} /\ thread'[c] \in {"delete", "write"} /\ snap'[c] = snap[c]
      BY <2>3 DEF Scan, Delete, Write, At, ThreadTo
    <3>2. Differ(c)' = Differ(c)
      BY <1>1, <3>1 DEF Differ
    <3>3. QED
      BY <1>2, <2>1, <3>1, <3>2 DEF CopyFacts
  <2>4. CASE Verify(c)
    <3>1. thread[c] = "write" /\ redis' = redis /\ thread'[c] = IF redis = snap[c] THEN "proved" ELSE "failed"
      BY <2>4 DEF Verify, At, Return, ThreadTo
    <3>2. redis = snap[c] => Divergence' = Differ(c)
      BY <1>1, <3>1 DEF Divergence, Differ
    <3>3. QED
      BY <1>2, <2>1, <3>1, <3>2 DEF CopyFacts
  <2>5. CASE ImportError(c)
    <3>1. thread'[c] = "failed"
      BY <2>5 DEF ImportError, Return, ThreadTo
    <3>2. QED
      BY <1>2, <2>1, <3>1
  <2>6. QED
    BY <2>2, <2>3, <2>4, <2>5 DEF ThreadStep
<1>6. QED
  BY <1>1, <1>2, <1>3, <1>4, <1>5 DEF CopyFacts

LEMMA CopyController ==
  ASSUME CutoverInv, NEW c \in Controllers, ControllerStep(c)
  PROVE  CopyFacts'
<1> USE DEF CutoverInv, ImportInv, BaseInv, OwnTypeOK
<1>1. /\ UNCHANGED <<phase, journal, token, inflight, dest, pc, sql, redis, loose, mine>>
      /\ \A a \in Controllers \ {c} : thread'[a] = thread[a] /\ snap'[a] = snap[a]
  BY DEF ControllerStep, Lock, LockBusy, Preflight, Drained, HoldGone, SendCommit,
       ImportFailed, Recover, CallFails, Interrupt, Kill, Return, ThreadTo, gateVars,
       dataVars, threadVars
<1>2. Loosened' = Loosened /\ Served("V1")' = Served("V1") /\ Divergence' = Divergence
      /\ \A a \in Controllers : HoldOf(a)' = HoldOf(a)
  BY <1>1 DEF Loosened, Served, Divergence, HoldOf
<1>3. \A a \in Controllers : Asked(a)' => Asked(a) \/ (a = c /\ thread[c] = "proved")
  <2>1. CASE SendCommit(c)
    BY <2>1 DEF SendCommit, Send, Asked
  <2>2. CASE ~SendCommit(c)
    BY <2>2 DEF ControllerStep, Lock, LockBusy, Preflight, Drained, HoldGone,
         ImportFailed, Recover, CallFails, Interrupt, Kill, Send, Asked
  <2>3. QED
    BY <2>1, <2>2
<1>4. \/ thread'[c] = thread[c] /\ snap'[c] = snap[c]
      \/ thread'[c] = "none"
      \/ thread'[c] = "snapshot" /\ inflight["V1"] = 0
  BY DEF ControllerStep, Lock, LockBusy, Preflight, Drained, HoldGone, SendCommit,
       ImportFailed, Recover, CallFails, Interrupt, Kill, Return, ThreadTo, threadVars
<1>5. \A a \in Controllers : snap'[a] = snap[a] => Differ(a)' = Differ(a)
  BY <1>1 DEF Differ
<1>6. inflight["V1"] = 0 => Served("V1") = {}
  BY NobodyServed
<1>7. ASSUME NEW a \in Controllers, HoldOf(a)'
      PROVE  /\ thread'[a] # "none" \/ Asked(a)' => Served("V1")' = {}
             /\ thread'[a] \in {"scan", "delete", "write"} => Differ(a)' \subseteq Loosened'
             /\ thread'[a] = "proved" \/ Asked(a)' => Divergence' \subseteq Loosened'
  <2>1. CASE a # c
    BY <1>1, <1>2, <1>3, <1>5, <1>7, <2>1 DEF CopyFacts
  <2>2. CASE a = c
    BY <1>2, <1>3, <1>4, <1>5, <1>6, <1>7, <2>2 DEF CopyFacts
  <2>3. QED
    BY <2>1, <2>2
<1>8. QED
  BY <1>1, <1>2, <1>7 DEF CopyFacts

LEMMA CopyHandle ==
  ASSUME CutoverInv, Handle
  PROVE  CopyFacts'
<1> USE DEF CutoverInv, ImportInv, BaseInv, OwnTypeOK
<1>1. PICK m \in calls : HandleBegin(m) \/ HandleCommit(m) \/ HandleAbort(m)
  BY DEF Handle
<1>2. UNCHANGED <<sql, redis, thread, snap>> /\ calls' \subseteq calls /\ loose \subseteq loose'
      /\ m.by \in Controllers
  BY <1>1 DEF HandleBegin, HandleCommit, HandleAbort, dataVars, threadVars, LoseAll, Calls
<1>3. [HostNext]_gateVars
  BY <1>1, HandleIsGateStep DEF HostNext
<1>4. CASE HandleBegin(m) /\ Begin
  <2>1. /\ token' = holds + 1 /\ phase = "V1" /\ UNCHANGED journal
        /\ \/ UNCHANGED mine
           \/ ctl[m.by] = "beginning" /\ mine' = [mine EXCEPT ![m.by] = holds + 1]
    BY <1>4 DEF HandleBegin, Begin
  <2>2. journal # "V2"
    BY <2>1 DEF GateInv, AuthorityFence
  <2>3. ASSUME NEW c \in Controllers, HoldOf(c)' PROVE thread'[c] = "none" /\ ~Asked(c)'
    <3>1. mine'[c] = holds + 1
      BY <2>1, <2>3 DEF HoldOf
    <3>2. mine[c] <= holds /\ holds \in Nat /\ mine[c] \in Nat
      BY GateAssumption DEF LockFacts, GateInv, TypeOK
    <3>3. c = m.by /\ ctl[c] = "beginning"
      BY <1>2, <2>1, <3>1, <3>2
    <3>4. thread[c] = "none" /\ ~Asked(c)
      BY <3>3 DEF Imports, LockFacts, Asked
    <3>5. QED
      BY <1>2, <3>4 DEF Asked
  <2>4. QED
    BY <2>1, <2>2, <2>3 DEF CopyFacts
<1>5. CASE ~(HandleBegin(m) /\ Begin)
  <2>1. UNCHANGED mine /\ ~Begin
    BY <1>1, <1>5 DEF HandleBegin, HandleCommit, HandleAbort, Begin, CommitDurably,
         CommitUncertain, CrashInCommit, Die, AdminAbort, AbortLocked, gateVars
  <2>2. journal' = "V2" => Divergence \subseteq Loosened
    <3>1. CASE journal = "V2"
      BY <3>1 DEF CopyFacts
    <3>2. ASSUME journal' = "V2", journal # "V2" PROVE Divergence \subseteq Loosened
      <4>1. /\ HandleCommit(m) /\ m.op = "commit" /\ phase = "HOLD" /\ m.token = token
        BY <1>1, <3>2 DEF HandleBegin, HandleCommit, HandleAbort, Begin, CommitDurably,
             CommitUncertain, CrashInCommit, Acceptable, AdminAbort, gateVars
      <4>2. HoldOf(m.by) /\ Asked(m.by)
        BY <4>1 DEF HoldOf, Asked, LockFacts
      <4>3. QED
        BY <1>2, <4>2 DEF CopyFacts
    <3>3. QED
      BY <3>1, <3>2
  <2>3. QED
    BY <1>2, <1>3, <2>1, <2>2, CopyKept
<1>6. QED
  BY <1>4, <1>5

LEMMA CopyStep ==
  ASSUME CutoverInv, [CutoverHostNext]_cutoverVars
  PROVE  CopyFacts'
<1> USE DEF CutoverInv, ImportInv
<1>1. CASE GateAlone
  <2>1. ~Begin /\ (journal' = "V2" => journal = "V2")
    BY <1>1, GateAloneKeeps, GateAssumption DEF Begin, BaseInv, GateInv, TypeOK
  <2>2. QED
    BY <1>1, <2>1, CopyKept, GateAloneFrame, BaseStep DEF threadVars, CopyFacts
<1>2. CASE UNCHANGED cutoverVars
  BY <1>2 DEF cutoverVars, gateVars, dataVars, ctlVars, threadVars, CopyFacts, HoldOf,
       Asked, Differ, Divergence, Loosened, Served
<1>3. QED
  BY <1>1, <1>2, StepKinds, CopyV1, CopyThread, CopyController, CopyHandle DEF Local

LEMMA CutoverInvStep ==
  ~Interruptible => (CutoverInv /\ [CutoverHostNext]_cutoverVars => CutoverInv')
BY ImportInvStep, EndStep, CopyStep DEF CutoverInv, ImportInv

LEMMA CutoverInvInit == CutoverInit => CutoverInv
<1>1. CutoverInit => CopyFacts
  BY DEF CutoverInit, Init, CopyFacts, HoldOf
<1>2. QED
  BY <1>1, ImportInvInit, EndInit DEF CutoverInv

\* Without such an interrupt V2 starts with all that V1 did, but for requests whose
\* outcome was unknown before the hold that committed.
THEOREM CopyIsComplete ==
  ASSUME ~Interruptible
  PROVE  CutoverHostSpec => []LostWritesPrecedeHold
<1>1. CutoverInv => LostWritesPrecedeHold
  <2> SUFFICES ASSUME CutoverInv, journal = "V2", NEW r \in Divergence
               PROVE  \E n \in 0..(holds - 1) : <<r, n>> \in loose
    BY DEF LostWritesPrecedeHold
  <2>1. PICK n \in 0..MaxHolds : <<r, n>> \in loose
    BY DEF CutoverInv, CopyFacts, Loosened
  <2>2. n < holds
    BY <2>1 DEF CutoverInv, EndFacts
  <2>3. holds \in Nat
    BY GateAssumption DEF CutoverInv, ImportInv, BaseInv, GateInv, TypeOK
  <2>4. QED
    BY <2>1, <2>2, <2>3, GateAssumption
<1>2. CutoverInv /\ [CutoverHostNext]_cutoverVars => CutoverInv'
  BY CutoverInvStep
<1>3. QED
  BY <1>1, <1>2, CutoverInvInit, PTL DEF CutoverHostSpec

=============================================================================
