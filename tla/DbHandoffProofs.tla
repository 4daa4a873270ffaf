--------------------------- MODULE DbHandoffProofs ---------------------------
(***************************************************************************)
(* Proofs about DbHandoff, for any set of transactions and any number of   *)
(* commands.                                                               *)
(***************************************************************************)
EXTENDS DbHandoff, TLAPS

-----------------------------------------------------------------------------
(* Type correctness.                                                        *)

\* Where control may be, and that it is consistent.
ControlTypeOK ==
  /\ pc \in Steps \union {"idle"}
  /\ cmd \in {"none", "cutover", "abort", "finish"}
  /\ (cmd = "none") = (pc = "idle")
  /\ timer \in {"off", "running", "late"}

\* Every step leads to a step or to the end of the command.
LEMMA Targets ==
  ASSUME NEW s \in Steps
  PROVE  Then[s] \in Steps \union {"idle"} /\ Handler(s) \in Steps \union {"idle"}
<1>1. Then[s] \in Steps \union {"idle"}
  BY SMT DEF Steps, Then
<1>2. Handler(s) \in Steps \union {"idle"}
  BY SMT DEF Steps, Then, Handler
<1>3. QED
  BY <1>1, <1>2

LEMMA IdleIsNoStep == "idle" \notin Steps
BY DEF Steps, Then

\* The steps named by the actions are steps of the program.
LEMMA Named ==
  /\ Saves \subseteq Steps
  /\ {"drainProxy1", "drainProxy2", "posWait", "recheck", "verifyFences",
      "verifyWriter", "checkHistory", "awaitReplica", "drainSource1", "drainSource2",
      "readFinal", "fenceTarget", "refence", "fenceSource", "unfence", "openTarget",
      "unfenceSource", "openSource", "stopReplica", "startReplica", "shutV2", "holdV2",
      "openV2", "shutV1", "closeV1", "openV1", "addRule", "route20", "dropRule",
      "default20", "default10"} \subseteq Steps
BY DEF Steps, Then, Saves, Holds

LEMMA GotoType ==
  ASSUME ControlTypeOK, pc \in Steps, NEW s \in Steps \union {"idle"}, Goto(s)
  PROVE  ControlTypeOK'
BY IdleIsNoStep DEF ControlTypeOK, Goto

LEMMA DoType ==
  ASSUME ControlTypeOK, NEW s \in Steps, Do(s)
  PROVE  ControlTypeOK' /\ commands' = commands
<1>1. pc = s /\ commands' = commands
  BY DEF Do
<1>2. CASE Goto(Then[s])
  BY <1>1, <1>2, Targets, GotoType
<1>3. CASE Goto(Handler(s))
  BY <1>1, <1>3, Targets, GotoType
<1>4. QED
  BY <1>1, <1>2, <1>3 DEF Do

\* What the other variables may hold.
DataTypeOK ==
  /\ journal \in Journal
  /\ final \in Nat /\ commands \in 0..MaxCommands
  /\ {src, tgt} \subseteq {"open", "ro", "fenced"}
  /\ log \in Seq(Txns) /\ own \in Seq(Txns)
  /\ applied \in 0..Len(log)
  /\ foreign \in 0..1
  /\ replica \in {"running", "stopped", "broken"}
  /\ {hg10, hg20} \subseteq {"ONLINE", "SOFT", "HARD"}
  /\ rule \in BOOLEAN /\ default \in {10, 20}
  /\ tx \in [Txns -> {"idle", "wait10", "wait20", "in10", "in20", "committed", "failed"}]
  /\ saw \in [Txns -> SUBSET Txns]

LEMMA TypeParts ==
  /\ HandoffTypeOK <=> ControlTypeOK /\ DataTypeOK
  /\ HandoffTypeOK' <=> ControlTypeOK' /\ DataTypeOK'
BY DEF HandoffTypeOK, ControlTypeOK, DataTypeOK

LEMMA TypeInit == HandoffInit => HandoffTypeOK
<1>1. HandoffInit => ControlTypeOK
  BY DEF HandoffInit, ControlTypeOK
<1>2. HandoffInit => DataTypeOK
  <2> SUFFICES ASSUME HandoffInit PROVE DataTypeOK
    OBVIOUS
  <2>1. journal \in Journal
    BY DEF HandoffInit, Journal
  <2>2. log \in Seq(Txns) /\ own \in Seq(Txns) /\ applied \in 0..Len(log)
    BY DEF HandoffInit
  <2>3. tx \in [Txns -> {"idle", "wait10", "wait20", "in10", "in20", "committed", "failed"}]
    BY DEF HandoffInit
  <2>4. saw \in [Txns -> SUBSET Txns]
    BY DEF HandoffInit
  <2>5. rule \in BOOLEAN
    BY DEF HandoffInit
  <2>6. final \in Nat /\ commands \in 0..MaxCommands /\ foreign \in 0..1 /\ default \in {10, 20}
    BY HandoffAssumption DEF HandoffInit
  <2>7. {src, tgt} \subseteq {"open", "ro", "fenced"} /\ {hg10, hg20} \subseteq {"ONLINE", "SOFT", "HARD"}
    BY DEF HandoffInit
  <2>8. replica \in {"running", "stopped", "broken"}
    BY DEF HandoffInit
  <2>9. QED
    BY <2>1, <2>2, <2>3, <2>4, <2>5, <2>6, <2>7, <2>8 DEF DataTypeOK
<1>3. QED
  BY <1>1, <1>2, TypeParts

\* Transactions leave the controller alone.
LEMMA TransactionType ==
  ASSUME HandoffTypeOK, NEW t \in Txns, Transaction(t)
  PROVE  HandoffTypeOK'
<1> USE DEF HandoffTypeOK, controlVars, serverVars, proxyVars, historyVars
<1>1. CASE Arrive(t)
  BY <1>1 DEF Arrive
<1>2. CASE GetConnection(t)
  BY <1>2 DEF GetConnection
<1>3. CASE CommitV1(t)
  <2>1. log' \in Seq(Txns) /\ Len(log') = Len(log) + 1
    BY <1>3 DEF CommitV1
  <2>2. {log[i] : i \in 1..Len(log)} \subseteq Txns
    OBVIOUS
  <2>3. saw' \in [Txns -> SUBSET Txns]
    BY <1>3, <2>2 DEF CommitV1
  <2>4. applied' \in 0..Len(log')
    BY <1>3, <2>1 DEF CommitV1
  <2>5. QED
    BY <1>3, <2>1, <2>3, <2>4 DEF CommitV1
<1>4. CASE CommitV2(t)
  <2>1. own' \in Seq(Txns)
    BY <1>4 DEF CommitV2
  <2>2. Replicated \union {own[i] : i \in 1..Len(own)} \subseteq Txns
    BY DEF Replicated
  <2>3. saw' \in [Txns -> SUBSET Txns]
    BY <1>4, <2>2 DEF CommitV2
  <2>4. QED
    BY <1>4, <2>1, <2>3 DEF CommitV2
<1>5. CASE Fail(t)
  BY <1>5 DEF Fail
<1>6. QED
  BY <1>1, <1>2, <1>3, <1>4, <1>5 DEF Transaction

LEMMA EnvironmentType ==
  ASSUME HandoffTypeOK, Environment
  PROVE  HandoffTypeOK'
<1> USE DEF HandoffTypeOK, controlVars, serverVars, proxyVars, historyVars
<1>1. CASE Apply
  BY <1>1 DEF Apply
<1>2. CASE ReplicaBreaks
  BY <1>2 DEF ReplicaBreaks
<1>3. CASE ForeignWrite
  BY <1>3 DEF ForeignWrite
<1>4. CASE \E t \in Txns : Transaction(t)
  BY <1>4, TransactionType
<1>5. QED
  BY <1>1, <1>2, <1>3, <1>4 DEF Environment

LEMMA OperatorType ==
  ASSUME HandoffTypeOK, Operator
  PROVE  HandoffTypeOK'
<1> USE HandoffAssumption, IdleIsNoStep, Named
    DEF HandoffTypeOK, Starts, serverVars, proxyVars, historyVars
<1>1. CASE Cutover
  <2>1. journal' \in Journal
    BY <1>1 DEF Cutover, Journal, OwnCommits
  <2>2. QED
    BY <1>1, <2>1 DEF Cutover
<1>2. CASE Abort
  BY <1>2 DEF Abort
<1>3. CASE Finish
  BY <1>3 DEF Finish
<1>4. QED
  BY <1>1, <1>2, <1>3 DEF Operator

LEMMA SaveType ==
  ASSUME HandoffTypeOK, Save
  PROVE  HandoffTypeOK'
<1>1. ControlTypeOK' /\ commands' = commands
  BY Named, DoType, TypeParts DEF Save
<1>2. journal' \in Journal
  <2>1. pc \in Saves /\ journal \in Journal /\ final \in Nat
    BY DEF Save, HandoffTypeOK
  <2>2. journal' = [journal EXCEPT !.phase = pc,
                   !.promo = @ \/ pc = "promotion_intent" \/ pc = "hold_after_promotion",
                   !.final = IF pc = "source_fenced" THEN final ELSE @]
    BY DEF Save
  <2>3. (journal.promo \/ pc = "promotion_intent" \/ pc = "hold_after_promotion") \in BOOLEAN
    OBVIOUS
  <2>4. QED
    BY <2>1, <2>2, <2>3 DEF Journal
<1>3. DataTypeOK'
  BY <1>1, <1>2, TypeParts DEF DataTypeOK, Save, serverVars, proxyVars, historyVars
<1>4. QED
  BY <1>1, <1>3, TypeParts

LEMMA ControllerType ==
  ASSUME HandoffTypeOK, Controller
  PROVE  HandoffTypeOK'
<1> USE Named DEF serverVars, proxyVars, historyVars, DataTypeOK
<1>0. ControlTypeOK /\ DataTypeOK
  BY TypeParts
<1>1. CASE Verify
  <2>1. ControlTypeOK' /\ commands' = commands
    BY <1>0, <1>1, DoType DEF Verify
  <2>2. QED
    BY <1>0, <1>1, <2>1, TypeParts DEF Verify
<1>2. CASE DrainSource
  <2>1. PICK n \in {1, 2} :
          \/ Do(IF n = 1 THEN "drainSource1" ELSE "drainSource2")
          \/ /\ pc = IF n = 1 THEN "drainSource1" ELSE "drainSource2"
             /\ Goto(IF n = 1 THEN "drainProxy1" ELSE "drainProxy2")
             /\ UNCHANGED commands
    BY <1>2 DEF DrainSource
  <2>2. ControlTypeOK' /\ commands' = commands
    BY <1>0, <2>1, DoType, GotoType
  <2>3. QED
    BY <1>0, <1>2, <2>2, TypeParts DEF DrainSource
<1>3. CASE ReadFinal
  <2>1. ControlTypeOK' /\ commands' = commands
    BY <1>0, <1>3, DoType DEF ReadFinal
  <2>2. final' \in Nat
    BY <1>0, <1>3 DEF ReadFinal
  <2>3. QED
    BY <1>0, <1>3, <2>1, <2>2, TypeParts DEF ReadFinal
<1>4. CASE Save
  BY <1>4, SaveType
<1>5. CASE SetFlags
  <2>1. ControlTypeOK' /\ commands' = commands
    BY <1>0, <1>5, DoType DEF SetFlags
  <2>2. {src', tgt'} \subseteq {"open", "ro", "fenced"}
    BY <1>0, <1>5 DEF SetFlags
  <2>3. QED
    BY <1>0, <1>5, <2>1, <2>2, TypeParts DEF SetFlags
<1>6. CASE SetReplica
  <2>1. ControlTypeOK' /\ commands' = commands
    BY <1>0, <1>6, DoType DEF SetReplica
  <2>2. replica' \in {"running", "stopped", "broken"}
    BY <1>6 DEF SetReplica
  <2>3. QED
    BY <1>0, <1>6, <2>1, <2>2, TypeParts DEF SetReplica
<1>7. CASE SetServers
  <2>1. ControlTypeOK' /\ commands' = commands
    BY <1>0, <1>7, DoType DEF SetServers
  <2>2. {hg10', hg20'} \subseteq {"ONLINE", "SOFT", "HARD"}
    BY <1>0, <1>7 DEF SetServers
  <2>3. QED
    BY <1>0, <1>7, <2>1, <2>2, TypeParts DEF SetServers
<1>8. CASE SetRoutes
  <2>1. ControlTypeOK' /\ commands' = commands
    BY <1>0, <1>8, DoType DEF SetRoutes
  <2>2. rule' \in BOOLEAN /\ default' \in {10, 20}
    BY <1>0, <1>8 DEF SetRoutes
  <2>3. QED
    BY <1>0, <1>8, <2>1, <2>2, TypeParts DEF SetRoutes
<1>9. CASE Refused \/ PastDeadline
  <2>1. ControlTypeOK'
    BY <1>0, <1>9, Targets, GotoType DEF Refused, PastDeadline, Raise
  <2>2. QED
    BY <1>0, <1>9, <2>1, TypeParts DEF Refused, PastDeadline, Raise
<1>10. QED
  BY <1>1, <1>2, <1>3, <1>4, <1>5, <1>6, <1>7, <1>8, <1>9 DEF Controller

LEMMA TypeStep == HandoffTypeOK /\ [HandoffNext]_handoffVars => HandoffTypeOK'
<1> SUFFICES ASSUME HandoffTypeOK, [HandoffNext]_handoffVars
             PROVE  HandoffTypeOK'
  OBVIOUS
<1>0. ControlTypeOK /\ DataTypeOK
  BY TypeParts
<1>1. CASE Environment
  BY <1>1, EnvironmentType
<1>2. CASE Operator
  BY <1>2, OperatorType
<1>3. CASE Controller
  BY <1>3, ControllerType
<1>4. CASE Interrupted \/ Kill
  <2>1. ControlTypeOK'
    BY <1>0, <1>4, Targets, Named, GotoType DEF Interrupted, Kill, Raise, ControlTypeOK
  <2>2. QED
    BY <1>0, <1>4, <2>1, TypeParts
    DEF Interrupted, Kill, Raise, DataTypeOK, serverVars, proxyVars, historyVars
<1>5. CASE DeadlinePasses
  BY <1>5 DEF DeadlinePasses, HandoffTypeOK, serverVars, proxyVars, historyVars
<1>6. CASE UNCHANGED handoffVars
  BY <1>6 DEF handoffVars, controlVars, HandoffTypeOK, serverVars, proxyVars, historyVars
<1>7. QED
  BY <1>1, <1>2, <1>3, <1>4, <1>5, <1>6 DEF HandoffNext

\* Every variable of the handoff keeps its type.
THEOREM HandoffTypeCorrect == HandoffSpec => []HandoffTypeOK
<1>1. QED
  BY TypeInit, TypeStep, PTL DEF HandoffSpec

-----------------------------------------------------------------------------
(* The fences: what holds of the two databases at each step.                *)

\* The steps that come after the promotion intent was saved.
Opening == (Promoting \ {"promotion_intent"}) \union FinishSteps

\* The steps cutover() reaches only after it fenced V1.
V1Fenced == {"drainProxy2", "drainSource2", "readFinal", "source_fenced", "posWait",
             "caught_up", "stopReplica", "recheck", "replica_stopped", "verifyFences",
             "promotion_intent"}

\* The steps a command reaches only after it fenced the target.
V2Fenced == V1Fenced \union (AbortSteps \ {"refence"}) \union
            {"gate_intent", "shutV2", "addRule", "shutV1", "gated", "drainProxy1",
             "drainSource1", "fence_intent", "fenceSource"}

\* What holds of V1 once the intent is, or may be, on disk.
V1Stays ==
  /\ journal.promo => src = "fenced" /\ pc \in Opening \union {"idle", "hold_after_promotion"}
  /\ pc \in Opening => journal.promo
  /\ pc \in V1Fenced \union {"hold_after_promotion"} => src = "fenced"

\* What holds of the target until then.
V2Stays ==
  /\ pc \in V2Fenced => tgt = "fenced"
  /\ ~journal.promo =>
       (journal.phase \in Saves \ {"hold_before_promotion"} => tgt = "fenced")

FenceInv == HandoffTypeOK /\ V1Stays /\ V2Stays

\* Control reaches these groups of steps only through their entries.
LEMMA Flow ==
  ASSUME NEW s \in Steps, NEW n \in {Then[s], Handler(s)}
  PROVE  /\ n \in Opening => s \in Opening \union {"promotion_intent"}
         /\ s \in Opening => n \in Opening \union {"idle", "hold_after_promotion"}
         /\ n \in V1Fenced => s \in V1Fenced \union {"fenceSource"}
         /\ n = "hold_after_promotion" => s \in Opening \union {"promotion_intent"}
         /\ n \in V2Fenced => s \in V2Fenced \union {"fenceTarget", "refence"}
         /\ s \in Holds => n = "idle"
<1> USE DEF Opening, Promoting, FinishSteps, V1Fenced, V2Fenced, AbortSteps, Holds
<1>1. CASE n = Then[s]
  BY <1>1 DEF Steps, Then
<1>2. CASE n = Handler(s)
  BY <1>2 DEF Handler
<1>3. QED
  BY <1>1, <1>2

\* The groups do not overlap, and every save is in one of them.
LEMMA Groups ==
  /\ Opening \intersect (V2Fenced \union Holds \union {"idle", "fenceTarget", "refence"}) = {}
  /\ V1Fenced \subseteq V2Fenced
  /\ Saves \subseteq V2Fenced \union Opening \union Holds
  /\ {"promotion_intent", "fenceSource", "unfenceSource", "openSource"} \subseteq V2Fenced
  /\ {"unfence", "openTarget"} \subseteq Opening
  /\ {"fenceTarget", "refence", "idle", "hold_before_promotion", "hold_after_promotion"}
       \intersect V2Fenced = {}
  /\ {"fenceSource", "unfenceSource", "openSource"} \intersect V1Fenced = {}
BY DEF Opening, Promoting, FinishSteps, V1Fenced, V2Fenced, AbortSteps, Holds, Saves

\* A step that only moves control.
LEMMA Moves ==
  ASSUME FenceInv, pc \in Steps, UNCHANGED <<journal, src, tgt>>,
         pc \notin {"fenceSource", "fenceTarget", "refence", "promotion_intent"}
           \union {"hold_after_promotion"},
         pc' \in {Then[pc], Handler(pc), "idle"}
  PROVE  V1Stays' /\ V2Stays'
BY Flow, Groups, IdleIsNoStep DEF FenceInv, V1Stays, V2Stays

\* drain() asks again.
LEMMA AsksAgain ==
  ASSUME FenceInv, UNCHANGED <<journal, src, tgt>>,
         \/ pc = "drainSource1" /\ pc' = "drainProxy1"
         \/ pc = "drainSource2" /\ pc' = "drainProxy2"
  PROVE  V1Stays' /\ V2Stays'
BY DEF FenceInv, V1Stays, V2Stays, Opening, Promoting, FinishSteps, V1Fenced, V2Fenced

\* An exception, or the death of the controller.
LEMMA Raised ==
  ASSUME FenceInv, UNCHANGED <<journal, src, tgt>>, pc \in Steps,
         pc' \in {Handler(pc), "idle"} \/ (pc = "promotion_intent" /\ pc' = "refence")
  PROVE  V1Stays' /\ V2Stays'
<1>1. pc' \in {"idle", "refence", "hold_before_promotion", "hold_after_promotion"}
  BY DEF Handler
<1>2. pc' \notin Opening \union V1Fenced \union V2Fenced
  BY <1>1, Groups DEF Holds
<1>3. ASSUME pc' = "hold_after_promotion" PROVE pc \in Opening \union {"promotion_intent"}
  <2>1. pc' = Handler(pc)
    BY <1>3
  <2>2. QED
    BY <1>3, <2>1, Flow
<1>4. pc' = "hold_after_promotion" => src = "fenced"
  BY <1>3 DEF FenceInv, V1Stays, V1Fenced
<1>5. ASSUME journal.promo PROVE pc' \in {"idle", "hold_after_promotion"}
  <2>1. pc \in Opening \union {"hold_after_promotion"}
    BY <1>5, IdleIsNoStep DEF FenceInv, V1Stays
  <2>2. Handler(pc) \in {"idle", "hold_after_promotion"}
    BY <2>1 DEF Handler, Opening, Promoting, FinishSteps, AbortSteps, Holds
  <2>3. pc # "promotion_intent"
    BY <2>1 DEF Opening, Promoting, FinishSteps
  <2>4. QED
    BY <2>2, <2>3
<1>6. QED
  BY <1>2, <1>4, <1>5 DEF FenceInv, V1Stays, V2Stays

\* A successful step goes to its successor or, its answer lost, to the handler.
LEMMA DoTarget ==
  ASSUME NEW s \in Steps, Do(s)
  PROVE  pc = s /\ pc' \in {Then[s], Handler(s)}
BY DEF Do, Goto

LEMMA FenceSave ==
  ASSUME FenceInv, Save
  PROVE  V1Stays' /\ V2Stays'
<1>1. pc \in Saves /\ pc \in Steps /\ pc' \in {Then[pc], Handler(pc)}
  BY Named, DoTarget DEF Save
<1>2. /\ journal'.promo <=> (journal.promo \/ pc \in {"promotion_intent", "hold_after_promotion"})
      /\ journal'.phase = pc
  BY DEF Save, FenceInv, HandoffTypeOK, Journal
<1>3. UNCHANGED <<src, tgt>>
  BY DEF Save, serverVars
<1>4. CASE pc = "promotion_intent"
  <2>1. pc' \in {"unfence", "hold_after_promotion"}
    BY <1>1, <1>4 DEF Then, Handler, Promoting, FinishSteps, AbortSteps, Holds
  <2>2. src = "fenced"
    BY <1>4 DEF FenceInv, V1Stays, V1Fenced
  <2>3. pc' \in Opening \union {"hold_after_promotion"} /\ pc' \notin V2Fenced
    BY <2>1, Groups
  <2>4. QED
    BY <1>2, <1>3, <1>4, <2>2, <2>3, Groups DEF V1Stays, V2Stays
<1>5. CASE pc = "hold_after_promotion"
  <2>1. pc' = "idle"
    BY <1>1, <1>5, Flow DEF Holds
  <2>2. src = "fenced"
    BY <1>5 DEF FenceInv, V1Stays
  <2>3. pc' \notin Opening \union V1Fenced \union V2Fenced
    BY <2>1, Groups
  <2>4. journal'.promo
    BY <1>2, <1>5
  <2>5. QED
    BY <1>3, <2>1, <2>2, <2>3, <2>4 DEF V1Stays, V2Stays
<1>6. CASE pc \notin {"promotion_intent", "hold_after_promotion"}
  <2>1. journal'.promo <=> journal.promo
    BY <1>2, <1>6
  <2>2. V1Stays'
    <3>1. journal.promo => pc \in Opening
      BY <1>1, <1>6, IdleIsNoStep DEF FenceInv, V1Stays
    <3>2. pc' \in Opening => pc \in Opening
      BY <1>1, <1>6, Flow
    <3>3. pc \in Opening => pc' \in Opening \union {"idle", "hold_after_promotion"}
      BY <1>1, Flow
    <3>4. pc' \in V1Fenced \union {"hold_after_promotion"} => src = "fenced"
      BY <1>1, <1>6, Flow DEF FenceInv, V1Stays, Saves, Holds
    <3>5. QED
      BY <1>3, <2>1, <3>1, <3>2, <3>3, <3>4 DEF FenceInv, V1Stays
  <2>3. V2Stays'
    <3>1. pc' \in V2Fenced => tgt = "fenced"
      BY <1>1, Flow DEF FenceInv, V2Stays, Saves, Holds
    <3>2. ~journal.promo /\ pc # "hold_before_promotion" => tgt = "fenced"
      BY <1>1, <1>6, Groups DEF FenceInv, V1Stays, V2Stays, Holds
    <3>3. QED
      BY <1>2, <1>3, <2>1, <3>1, <3>2 DEF V2Stays
  <2>4. QED
    BY <2>2, <2>3
<1>7. QED
  BY <1>4, <1>5, <1>6

LEMMA FenceFlags ==
  ASSUME FenceInv, SetFlags
  PROVE  V1Stays' /\ V2Stays'
<1>0. UNCHANGED journal
  BY DEF SetFlags
<1>1. CASE (Do("fenceTarget") \/ Do("refence")) /\ tgt' = "fenced" /\ UNCHANGED src
  <2>1. pc \in {"fenceTarget", "refence"} /\ pc \in Steps /\ pc' \in {Then[pc], Handler(pc)}
    BY <1>1, Named, DoTarget
  <2>2. ~journal.promo
    BY <2>1, Groups DEF FenceInv, V1Stays
  <2>3. pc' \notin Opening \union V1Fenced \union {"hold_after_promotion"}
    BY <2>1, Flow DEF Opening, Promoting, FinishSteps, V1Fenced
  <2>4. QED
    BY <1>0, <1>1, <2>2, <2>3 DEF V1Stays, V2Stays
<1>2. CASE Do("fenceSource") /\ src' = "fenced" /\ UNCHANGED tgt
  <2>1. pc = "fenceSource" /\ pc \in Steps /\ pc' \in {Then[pc], Handler(pc)}
    BY <1>2, Named, DoTarget
  <2>2. ~journal.promo
    BY <2>1, Groups DEF FenceInv, V1Stays
  <2>3. pc' \notin Opening /\ tgt = "fenced"
    BY <2>1, Flow, Groups DEF FenceInv, V2Stays
  <2>4. QED
    BY <1>0, <1>2, <2>2, <2>3 DEF V1Stays, V2Stays
<1>3. CASE (Do("unfence") \/ Do("openTarget")) /\ UNCHANGED src
  <2>1. pc \in {"unfence", "openTarget"} /\ pc \in Steps /\ pc' \in {Then[pc], Handler(pc)}
    BY <1>3, Named, DoTarget
  <2>2. pc \in Opening /\ journal.promo /\ src = "fenced"
    BY <2>1, Groups DEF FenceInv, V1Stays
  <2>3. pc' \in Opening \union {"idle", "hold_after_promotion"} /\ pc' \notin V2Fenced
    BY <2>1, <2>2, Flow, Groups
  <2>4. QED
    BY <1>0, <1>3, <2>2, <2>3 DEF V1Stays, V2Stays
<1>4. CASE (Do("unfenceSource") \/ Do("openSource")) /\ UNCHANGED tgt
  <2>1. pc \in {"unfenceSource", "openSource"} /\ pc \in Steps /\ pc' \in {Then[pc], Handler(pc)}
    BY <1>4, Named, DoTarget
  <2>2. ~journal.promo /\ tgt = "fenced"
    BY <2>1, Groups DEF FenceInv, V1Stays, V2Stays
  <2>3. pc' \notin Opening \union V1Fenced \union {"hold_after_promotion"}
    BY <2>1, Flow DEF Opening, Promoting, FinishSteps, V1Fenced
  <2>4. QED
    BY <1>0, <1>4, <2>2, <2>3 DEF V1Stays, V2Stays
<1>5. QED
  BY <1>1, <1>2, <1>3, <1>4 DEF SetFlags

\* The queries that change neither a fence nor the journal.
Harmless == Verify \/ ReadFinal \/ SetReplica \/ SetServers \/ SetRoutes

HarmlessSteps ==
  {"drainProxy1", "drainProxy2", "posWait", "recheck", "verifyFences", "verifyWriter",
   "checkHistory", "awaitReplica", "drainSource1", "drainSource2", "readFinal",
   "stopReplica", "startReplica", "shutV2", "holdV2", "openV2", "shutV1", "closeV1",
   "openV1", "addRule", "route20", "dropRule", "default20", "default10"}

LEMMA HarmlessMoves ==
  ASSUME Harmless
  PROVE  /\ pc \in HarmlessSteps /\ pc' \in {Then[pc], Handler(pc)}
         /\ UNCHANGED <<journal, src, tgt>>
<1> USE Named, DoTarget DEF serverVars, HarmlessSteps
<1>1. CASE Verify
  BY <1>1 DEF Verify
<1>2. CASE ReadFinal
  BY <1>2 DEF ReadFinal
<1>3. CASE SetReplica
  BY <1>3 DEF SetReplica
<1>4. CASE SetServers
  BY <1>4 DEF SetServers
<1>5. CASE SetRoutes
  BY <1>5 DEF SetRoutes
<1>6. QED
  BY <1>1, <1>2, <1>3, <1>4, <1>5 DEF Harmless

LEMMA DrainMoves ==
  ASSUME DrainSource
  PROVE  /\ UNCHANGED <<journal, src, tgt>>
         /\ \/ /\ pc \in {"drainSource1", "drainSource2"} /\ Active(10) = {}
               /\ pc' \in {Then[pc], Handler(pc)}
            \/ pc = "drainSource1" /\ pc' = "drainProxy1"
            \/ pc = "drainSource2" /\ pc' = "drainProxy2"
<1>1. PICK n \in {1, 2} :
        \/ Active(10) = {} /\ Do(IF n = 1 THEN "drainSource1" ELSE "drainSource2")
        \/ /\ pc = IF n = 1 THEN "drainSource1" ELSE "drainSource2"
           /\ Goto(IF n = 1 THEN "drainProxy1" ELSE "drainProxy2")
  BY DEF DrainSource
<1>2. UNCHANGED <<journal, src, tgt>>
  BY DEF DrainSource, serverVars
<1>3. QED
  BY <1>1, <1>2, Named, DoTarget DEF Goto

LEMMA FenceController ==
  ASSUME FenceInv, Controller
  PROVE  V1Stays' /\ V2Stays'
<1>1. CASE Harmless
  <2>1. pc \in Steps /\ pc \notin {"fenceSource", "fenceTarget", "refence", "promotion_intent",
                                  "hold_after_promotion"}
    BY <1>1, HarmlessMoves, Named DEF HarmlessSteps
  <2>2. QED
    BY <1>1, <2>1, HarmlessMoves, Moves
<1>2. CASE DrainSource
  BY <1>2, DrainMoves, Named, Moves, AsksAgain
<1>3. CASE Save
  BY <1>3, FenceSave
<1>4. CASE SetFlags
  BY <1>4, FenceFlags
<1>5. CASE Refused \/ PastDeadline
  <2>1. pc \in Steps /\ pc' = Handler(pc) /\ UNCHANGED <<journal, src, tgt>>
    BY <1>5 DEF Refused, PastDeadline, Raise, Goto, serverVars
  <2>2. QED
    BY <2>1, Raised
<1>6. QED
  BY <1>1, <1>2, <1>3, <1>4, <1>5 DEF Controller, Harmless

LEMMA FenceStep == FenceInv /\ [HandoffNext]_handoffVars => FenceInv'
<1> SUFFICES ASSUME FenceInv, [HandoffNext]_handoffVars
             PROVE  FenceInv'
  OBVIOUS
<1>1. HandoffTypeOK'
  BY TypeStep DEF FenceInv
<1>2. ASSUME UNCHANGED <<journal, pc, src, tgt>> PROVE V1Stays' /\ V2Stays'
  BY <1>2 DEF FenceInv, V1Stays, V2Stays
<1>3. CASE Environment \/ DeadlinePasses \/ UNCHANGED handoffVars
  <2>1. UNCHANGED <<journal, pc, src, tgt>>
    BY <1>3 DEF Environment, Transaction, Arrive, GetConnection, CommitV1, CommitV2, Fail,
                Apply, ReplicaBreaks, ForeignWrite, DeadlinePasses, handoffVars,
                controlVars, serverVars
  <2>2. QED
    BY <1>1, <1>2, <2>1 DEF FenceInv
<1>4. CASE Operator
  <2>1. pc = "idle" /\ UNCHANGED <<src, tgt>>
    BY <1>4 DEF Operator, Cutover, Abort, Finish, Starts, serverVars
  <2>2. CASE Cutover
    <3>1. pc' = "fenceTarget" /\ ~journal'.promo /\ journal'.phase = "prepared"
      BY <2>2 DEF Cutover, Starts
    <3>2. pc' \notin Opening \union V1Fenced \union V2Fenced /\ journal'.phase \notin Saves
      BY <3>1, Groups DEF Saves, Holds
    <3>3. QED
      BY <1>1, <3>1, <3>2 DEF FenceInv, V1Stays, V2Stays
  <2>3. CASE Abort
    <3>1. pc' = "refence" /\ ~journal.promo /\ UNCHANGED journal
      BY <2>3 DEF Abort, Starts
    <3>2. pc' \notin Opening \union V1Fenced \union V2Fenced
      BY <3>1, Groups
    <3>3. QED
      BY <1>1, <2>1, <3>1, <3>2 DEF FenceInv, V1Stays, V2Stays
  <2>4. CASE Finish
    <3>1. pc' = "verifyWriter" /\ journal.promo /\ UNCHANGED journal
      BY <2>4 DEF Finish, Starts
    <3>2. pc' \in Opening /\ pc' \notin V2Fenced
      BY <3>1, Groups DEF Opening, FinishSteps
    <3>3. QED
      BY <1>1, <2>1, <3>1, <3>2, Groups DEF FenceInv, V1Stays, V2Stays
  <2>5. QED
    BY <1>4, <2>2, <2>3, <2>4 DEF Operator
<1>5. CASE Controller
  BY <1>1, <1>5, FenceController DEF FenceInv
<1>6. CASE Interrupted \/ Kill
  <2>1. /\ pc \in Steps /\ UNCHANGED <<journal, src, tgt>>
        /\ pc' \in {Handler(pc), "idle"} \/ (pc = "promotion_intent" /\ pc' = "refence")
    BY <1>6 DEF Interrupted, Kill, Raise, Goto, serverVars, FenceInv, HandoffTypeOK
  <2>2. QED
    BY <1>1, <2>1, Raised DEF FenceInv
<1>7. QED
  BY <1>3, <1>4, <1>5, <1>6 DEF HandoffNext

LEMMA FenceStart == HandoffInit => FenceInv
<1> SUFFICES ASSUME HandoffInit PROVE FenceInv
  OBVIOUS
<1>1. pc = "idle" /\ ~journal.promo /\ journal.phase = "none"
  BY DEF HandoffInit
<1>2. "none" \notin Saves
  BY DEF Saves, Holds
<1>3. QED
  BY <1>1, <1>2, TypeInit, Groups DEF FenceInv, V1Stays, V2Stays

\* Once the journal may say that V2 was promoted V1 is fenced for good, and
\* until then no run opens the target it fenced.
THEOREM NoWayBack == HandoffSpec => []ForwardOnly
<1>1. FenceInv => ForwardOnly
  BY DEF FenceInv, V1Stays, V2Stays, ForwardOnly
<1>2. QED
  BY <1>1, FenceStart, FenceStep, PTL DEF HandoffSpec

-----------------------------------------------------------------------------
(* What the fence of V1 and the promotion of V2 find.                       *)

\* From here to the fence V1's hostgroup gives no connection.
Shut == {"gated", "drainProxy1", "drainSource1", "fence_intent", "fenceSource"}

PoolShut ==
  /\ pc \in Shut => hg10 # "ONLINE"
  /\ pc \in {"fence_intent", "fenceSource"} => Active(10) = {}

\* What verifyFences saw is still so when the target is opened.
Ready ==
  pc \in {"promotion_intent", "unfence", "openTarget"} =>
    OwnCommits = journal.own /\ tgt # "open"

HandoverInv == HandoffTypeOK /\ PoolShut /\ Ready

\* These steps are reached only from the one before them.
LEMMA Entries ==
  ASSUME NEW s \in Steps, NEW n \in {Then[s], Handler(s), "idle", "refence"}
  PROVE  /\ n \in Shut => s \in (Shut \ {"fenceSource"}) \union {"shutV1"}
         /\ n = "fence_intent" => s = "drainSource1"
         /\ n = "fenceSource" => s = "fence_intent"
         /\ n = "promotion_intent" => s = "verifyFences"
         /\ n = "unfence" => s = "promotion_intent"
         /\ n = "openTarget" => s = "unfence"
<1>1. CASE n = Then[s]
  BY <1>1 DEF Steps, Then, Shut
<1>2. CASE n \in {Handler(s), "idle", "refence"}
  BY <1>2 DEF Handler, Shut
<1>3. QED
  BY <1>1, <1>2

\* A step of the controller that touches neither V1's hostgroup nor the target.
LEMMA HandoverMoves ==
  ASSUME HandoverInv, pc \in Steps, pc' \in {Then[pc], Handler(pc), "idle", "refence"},
         pc \notin {"shutV1", "drainSource1", "verifyFences"},
         UNCHANGED <<journal, hg10, tx, tgt, foreign, own>>
  PROVE  PoolShut' /\ Ready'
BY Entries DEF HandoverInv, PoolShut, Ready, Shut, Active, OwnCommits

\* Nobody gets a connection of V1, and nobody commits in a target not open.
LEMMA HandoverEnvironment ==
  ASSUME HandoverInv, Environment
  PROVE  PoolShut' /\ Ready'
<1>1. UNCHANGED <<journal, pc, hg10, tgt>>
  BY DEF Environment, Transaction, Arrive, GetConnection, CommitV1, CommitV2, Fail,
         Apply, ReplicaBreaks, ForeignWrite, controlVars, serverVars, proxyVars
<1>2. ASSUME hg10 # "ONLINE", Active(10) = {} PROVE Active(10)' = {}
  <2>1. CASE UNCHANGED tx
    BY <1>2, <2>1 DEF Active
  <2>2. ASSUME NEW t \in Txns, NEW new \in {"wait10", "wait20", "in20", "committed", "failed"},
               tx' = [tx EXCEPT ![t] = new]
        PROVE  Active(10)' = {}
    <3>1. \A u \in Txns : tx[u] # "in10"
      BY <1>2 DEF Active
    <3>2. \A u \in Txns : tx'[u] # "in10"
      BY <2>2, <3>1 DEF HandoverInv, HandoffTypeOK
    <3>3. QED
      BY <3>2 DEF Active
  <2>3. UNCHANGED tx \/
        \E t \in Txns, new \in {"wait10", "wait20", "in20", "committed", "failed"} :
          tx' = [tx EXCEPT ![t] = new]
    BY <1>2 DEF Environment, Transaction, Arrive, GetConnection, CommitV1, CommitV2, Fail,
                Apply, ReplicaBreaks, ForeignWrite
  <2>4. QED
    BY <2>1, <2>2, <2>3
<1>3. tgt # "open" => UNCHANGED <<foreign, own>>
  BY DEF Environment, Transaction, Arrive, GetConnection, CommitV1, CommitV2, Fail,
         Apply, ReplicaBreaks, ForeignWrite, serverVars, historyVars
<1>4. QED
  BY <1>1, <1>2, <1>3 DEF HandoverInv, PoolShut, Ready, Shut, OwnCommits

LEMMA HandoverController ==
  ASSUME HandoverInv, Controller
  PROVE  PoolShut' /\ Ready'
<1> USE DEF serverVars, proxyVars, historyVars
<1>1. CASE Verify
  <2>1. /\ pc \in Steps /\ pc' \in {Then[pc], Handler(pc)} /\ Requirement(pc)
        /\ pc \notin {"shutV1", "drainSource1"}
        /\ UNCHANGED <<journal, hg10, tx, tgt, foreign, own>>
    BY <1>1, Named, DoTarget DEF Verify
  <2>2. CASE pc = "verifyFences"
    <3>1. OwnCommits = journal.own /\ tgt = "fenced"
      BY <2>1, <2>2 DEF Requirement
    <3>2. pc' \notin Shut
      BY <2>1, <2>2, Entries DEF Shut
    <3>3. QED
      BY <2>1, <3>1, <3>2 DEF PoolShut, Ready, Shut, OwnCommits
  <2>3. QED
    BY <2>1, <2>2, HandoverMoves
<1>2. CASE DrainSource
  <2>1. UNCHANGED <<journal, hg10, tx, tgt, foreign, own>>
    BY <1>2 DEF DrainSource
  <2>2. CASE pc = "drainSource1" /\ pc' \in {Then[pc], Handler(pc)}
    <3>1. pc' \in {"fence_intent", "refence"}
      BY <2>2 DEF Then, Handler, Holds, FinishSteps, AbortSteps, Promoting
    <3>2. hg10 # "ONLINE"
      BY <2>2 DEF HandoverInv, PoolShut, Shut
    <3>3. Active(10) = {}
      BY <1>2, <2>2, <3>1, DrainMoves
    <3>4. QED
      BY <2>1, <3>1, <3>2, <3>3 DEF PoolShut, Ready, Shut, Active
  <2>3. CASE pc = "drainSource2" /\ pc' \in {Then[pc], Handler(pc)}
    BY <2>1, <2>3, Named, HandoverMoves
  <2>4. CASE pc' \in {"drainProxy1", "drainProxy2"}
    BY <1>2, <2>1, <2>4, DrainMoves, Entries, Named
    DEF HandoverInv, PoolShut, Ready, Shut, Then
  <2>5. QED
    BY <1>2, <2>2, <2>3, <2>4, DrainMoves
<1>3. CASE Save
  <2>1. /\ pc \in Saves /\ pc \in Steps /\ pc' \in {Then[pc], Handler(pc)}
        /\ UNCHANGED <<hg10, tx, tgt, foreign, own>>
    BY <1>3, Named, DoTarget DEF Save
  <2>2. journal'.own = journal.own
    BY <1>3 DEF Save, HandoverInv, HandoffTypeOK, Journal
  <2>3. pc \notin {"shutV1", "drainSource1", "verifyFences"}
    BY <2>1 DEF Saves, Holds
  <2>4. QED
    BY <2>1, <2>2, <2>3, Entries
    DEF HandoverInv, PoolShut, Ready, Shut, Active, OwnCommits
<1>4. CASE SetFlags
  <2>1. /\ pc \in {"fenceTarget", "refence", "fenceSource", "unfence", "openTarget",
                   "unfenceSource", "openSource"}
        /\ pc \in Steps /\ pc' \in {Then[pc], Handler(pc)}
        /\ UNCHANGED <<journal, hg10, tx, foreign, own>>
    BY <1>4, Named, DoTarget DEF SetFlags
  <2>2. CASE pc = "unfence"
    <3>1. OwnCommits = journal.own /\ tgt' # "open"
      BY <1>4, <2>2 DEF SetFlags, HandoverInv, Ready, Do
    <3>2. pc' \notin Shut
      BY <2>1, <2>2, Entries DEF Shut
    <3>3. QED
      BY <2>1, <3>1, <3>2 DEF PoolShut, Ready, Shut, OwnCommits
  <2>3. CASE pc # "unfence"
    <3>1. pc' \notin Shut \union {"promotion_intent", "unfence", "openTarget"}
      BY <2>1, <2>3, Entries DEF Shut
    <3>2. QED
      BY <3>1 DEF PoolShut, Ready, Shut
  <2>4. QED
    BY <2>2, <2>3
<1>5. CASE ReadFinal \/ SetReplica \/ SetRoutes
  <2>1. /\ pc \in HarmlessSteps /\ pc \in Steps /\ pc' \in {Then[pc], Handler(pc)}
        /\ pc \notin {"shutV1", "drainSource1", "verifyFences"}
        /\ UNCHANGED <<journal, hg10, tx, tgt, foreign, own>>
    BY <1>5, Named, DoTarget DEF ReadFinal, SetReplica, SetRoutes, HarmlessSteps
  <2>2. QED
    BY <2>1, HandoverMoves
<1>6. CASE SetServers
  <2>1. /\ pc \in {"shutV2", "holdV2", "openV2", "shutV1", "closeV1", "openV1"}
        /\ pc \in Steps /\ pc' \in {Then[pc], Handler(pc)}
        /\ pc = "shutV1" => hg10' = "SOFT"
    BY <1>6, Named, DoTarget DEF SetServers, Do
  <2>2. pc' \in Shut => pc = "shutV1" /\ pc' \notin {"fence_intent", "fenceSource"}
    BY <2>1, Entries DEF Shut
  <2>3. pc' \notin {"promotion_intent", "unfence", "openTarget"}
    BY <2>1, Entries
  <2>4. QED
    BY <2>1, <2>2, <2>3 DEF PoolShut, Ready, Shut
<1>7. CASE Refused \/ PastDeadline
  <2>1. pc \in Steps /\ pc' = Handler(pc)
    BY <1>7 DEF Refused, PastDeadline, Raise, Goto
  <2>2. pc' \notin Shut \union {"promotion_intent", "unfence", "openTarget"}
    BY <2>1 DEF Handler, Shut
  <2>3. QED
    BY <2>2 DEF PoolShut, Ready, Shut
<1>8. QED
  BY <1>1, <1>2, <1>3, <1>4, <1>5, <1>6, <1>7 DEF Controller

LEMMA HandoverStep == HandoverInv /\ [HandoffNext]_handoffVars => HandoverInv'
<1> SUFFICES ASSUME HandoverInv, [HandoffNext]_handoffVars
             PROVE  HandoverInv'
  OBVIOUS
<1>1. HandoffTypeOK'
  BY TypeStep DEF HandoverInv
<1>2. CASE Environment
  BY <1>1, <1>2, HandoverEnvironment DEF HandoverInv
<1>3. CASE Controller
  BY <1>1, <1>3, HandoverController DEF HandoverInv
<1>4. CASE Operator \/ Interrupted \/ Kill
  <2>1. pc' \in {"fenceTarget", "refence", "verifyWriter", "idle",
                 "hold_before_promotion", "hold_after_promotion"}
    BY <1>4 DEF Operator, Cutover, Abort, Finish, Starts, Interrupted, Kill, Raise, Goto,
         Handler
  <2>2. QED
    BY <1>1, <2>1 DEF HandoverInv, PoolShut, Ready, Shut
<1>5. CASE DeadlinePasses \/ UNCHANGED handoffVars
  <2>1. UNCHANGED <<journal, pc, hg10, tx, tgt, foreign, own>>
    BY <1>5 DEF DeadlinePasses, handoffVars, controlVars, serverVars, proxyVars, historyVars
  <2>2. QED
    BY <1>1, <2>1 DEF HandoverInv, PoolShut, Ready, Active, OwnCommits
<1>6. QED
  BY <1>2, <1>3, <1>4, <1>5 DEF HandoffNext

LEMMA HandoverStart == HandoffInit => HandoverInv
BY TypeInit DEF HandoffInit, HandoverInv, PoolShut, Ready, Shut

\* When V1 is fenced no transaction is running in it.
THEOREM FenceCutsNothing == HandoffSpec => FenceSparesTransactions
<1>1. ASSUME HandoverInv, [HandoffNext]_handoffVars, src = "open", src' = "fenced"
      PROVE  Active(10) = {}
  <2>1. SetFlags
    BY <1>1 DEF HandoffNext, Environment, Transaction, Arrive, GetConnection, CommitV1,
         CommitV2, Fail, Apply, ReplicaBreaks, ForeignWrite, Operator, Cutover, Abort, Finish,
         Starts, Controller, Verify, DrainSource, ReadFinal, Save, SetReplica, SetServers,
         SetRoutes, Refused, PastDeadline, Interrupted, DeadlinePasses, Kill, Raise,
         handoffVars, serverVars
  <2>2. pc = "fenceSource"
    BY <1>1, <2>1 DEF SetFlags, Do
  <2>3. QED
    BY <1>1, <2>2 DEF HandoverInv, PoolShut
<1>2. HandoverInv /\ [HandoffNext]_handoffVars
        => [src = "open" /\ src' = "fenced" => Active(10) = {}]_handoffVars
  BY <1>1
<1>3. QED
  BY <1>2, HandoverStart, HandoverStep, PTL DEF HandoffSpec, FenceSparesTransactions

\* The target is promoted with the commits of its own it had at the preflight.
THEOREM NothingForeignPromoted == HandoffSpec => PromotedUntouched
<1>1. ASSUME HandoverInv, [HandoffNext]_handoffVars, tgt # "open", tgt' = "open"
      PROVE  OwnCommits = journal.own
  <2>1. SetFlags
    BY <1>1 DEF HandoffNext, Environment, Transaction, Arrive, GetConnection, CommitV1,
         CommitV2, Fail, Apply, ReplicaBreaks, ForeignWrite, Operator, Cutover, Abort, Finish,
         Starts, Controller, Verify, DrainSource, ReadFinal, Save, SetReplica, SetServers,
         SetRoutes, Refused, PastDeadline, Interrupted, DeadlinePasses, Kill, Raise,
         handoffVars, serverVars
  <2>2. pc = "openTarget"
    BY <1>1, <2>1 DEF SetFlags, Do
  <2>3. QED
    BY <1>1, <2>2 DEF HandoverInv, Ready
<1>2. HandoverInv /\ [HandoffNext]_handoffVars
        => [journal.promo /\ tgt # "open" /\ tgt' = "open" => OwnCommits = journal.own]_handoffVars
  BY <1>1
<1>3. QED
  BY <1>2, HandoverStart, HandoverStep, PTL DEF HandoffSpec, PromotedUntouched

-----------------------------------------------------------------------------
(* What the journal says when no controller runs.                           *)

\* What abort has given back to V1 when control stands at its steps.
GivenBack ==
  /\ pc \in {"openV1", "unfenceSource", "openSource", "dropRule", "aborted"} => default = 10
  /\ pc \in {"unfenceSource", "openSource", "dropRule", "aborted"} => hg10 = "ONLINE"
  /\ pc \in {"dropRule", "aborted"} => src = "open"
  /\ pc = "aborted" => ~rule

\* What cutover or finish has given to V2.
GivenAway ==
  /\ pc \in {"default20", "closeV1", "route20", "openV2", "switched"} => tgt = "open"
  /\ pc \in {"closeV1", "route20", "openV2", "switched"} => default = 20
  /\ pc \in {"route20", "openV2", "switched"} => hg10 = "HARD"
  /\ pc \in {"openV2", "switched"} => rule
  /\ pc = "switched" => hg20 = "ONLINE"

V2Serves == src = "fenced" /\ tgt = "open" /\ hg10 = "HARD" /\ hg20 = "ONLINE" /\ rule /\ default = 20

\* A command that starts from a final phase keeps what it says.
Told ==
  /\ journal.phase \in {"none", "aborted"} =>
       V1Serves /\ ~journal.promo /\ pc \in AbortSteps \union {"idle", "hold_before_promotion"}
  /\ journal.phase = "switched" =>
       V2Serves /\ journal.promo /\ pc \in FinishSteps \union {"idle", "hold_after_promotion"}

JournalInv == FenceInv /\ GivenBack /\ GivenAway /\ Told

\* Where the steps that give V1 or V2 something come from, and where a command
\* that began with a final phase goes.
LEMMA Chains ==
  ASSUME NEW s \in Steps, NEW n \in {Then[s], Handler(s)}
  PROVE  /\ n = "openV1" => s = "default10"
         /\ n = "unfenceSource" => s = "openV1"
         /\ n = "openSource" => s = "unfenceSource"
         /\ n = "dropRule" => s = "openSource"
         /\ n = "aborted" => s = "dropRule"
         /\ n = "default20" => s = "verifyWriter"
         /\ n = "closeV1" => s = "default20"
         /\ n = "route20" => s = "closeV1"
         /\ n = "openV2" => s = "route20"
         /\ n = "switched" => s = "openV2"
         /\ s \in AbortSteps => n \in AbortSteps \union {"idle", "hold_before_promotion"}
         /\ s \in FinishSteps => n \in FinishSteps \union {"idle", "hold_after_promotion"}
         /\ s \in Holds => n = "idle"
<1> USE DEF AbortSteps, FinishSteps, Promoting, Holds
<1>1. CASE n = Then[s]
  BY <1>1 DEF Steps, Then
<1>2. CASE n = Handler(s)
  BY <1>2 DEF Handler
<1>3. QED
  BY <1>1, <1>2

\* The steps that give, and an exception gives nothing.
Giving == {"default10", "openV1", "unfenceSource", "openSource", "dropRule",
           "verifyWriter", "default20", "closeV1", "route20", "openV2"}

Given == {"openV1", "unfenceSource", "openSource", "dropRule", "aborted",
          "default20", "closeV1", "route20", "openV2", "switched"}

LEMMA NotGiven ==
  ASSUME pc' \notin Given
  PROVE  GivenBack' /\ GivenAway'
BY DEF GivenBack, GivenAway, Given

\* A move of control alone.
LEMMA OnlyMoves ==
  ASSUME JournalInv, pc \in Steps, UNCHANGED <<journal, src, tgt, proxyVars>>,
         \/ pc' \in {Handler(pc), "idle"}
         \/ pc \notin Giving /\ pc' = Then[pc]
         \/ pc = "promotion_intent" /\ pc' = "refence"
         \/ pc = "drainSource1" /\ pc' = "drainProxy1"
         \/ pc = "drainSource2" /\ pc' = "drainProxy2"
  PROVE  GivenBack' /\ GivenAway' /\ Told'
<1>1. pc' \notin Given
  <2>1. CASE pc' = Handler(pc)
    BY <2>1 DEF Handler, Given
  <2>2. CASE pc \notin Giving /\ pc' = Then[pc]
    BY <2>2, Chains DEF Giving, Given
  <2>3. QED
    BY <2>1, <2>2 DEF Given
<1>2. Told'
  <2>1. UNCHANGED <<V1Serves, V2Serves, journal>>
    BY DEF proxyVars, V1Serves, V2Serves
  <2>2. pc \in AbortSteps \union {"idle", "hold_before_promotion"} =>
          pc' \in AbortSteps \union {"idle", "hold_before_promotion"}
    BY Chains, IdleIsNoStep DEF AbortSteps, Holds
  <2>3. pc \in FinishSteps \union {"idle", "hold_after_promotion"} =>
          pc' \in FinishSteps \union {"idle", "hold_after_promotion"}
    BY Chains, IdleIsNoStep DEF FinishSteps, Holds
  <2>4. QED
    BY <2>1, <2>2, <2>3 DEF JournalInv, Told
<1>3. QED
  BY <1>1, <1>2, NotGiven

LEMMA JournalSave ==
  ASSUME JournalInv, Save
  PROVE  GivenBack' /\ GivenAway' /\ Told'
<1>1. /\ pc \in Saves /\ pc \in Steps /\ pc' \in {Then[pc], Handler(pc)}
      /\ UNCHANGED <<src, tgt, proxyVars>>
  BY Named, DoTarget DEF Save, serverVars
<1>2. journal'.phase = pc /\ journal'.promo = (journal.promo \/ pc \in {"promotion_intent", "hold_after_promotion"})
  BY DEF Save, JournalInv, FenceInv, HandoffTypeOK, Journal
<1>3. pc' \notin Given
  BY <1>1, Chains DEF Given, Saves, Holds
<1>4. Told'
  <2>1. CASE pc = "aborted"
    <3>1. V1Serves'
      BY <1>1, <2>1 DEF JournalInv, GivenBack, V1Serves, proxyVars
    <3>2. ~journal.promo
      BY <2>1 DEF JournalInv, FenceInv, V1Stays, Opening, Promoting, FinishSteps
    <3>3. pc' \in {"idle", "hold_before_promotion"}
      BY <1>1, <2>1 DEF Then, Handler, AbortSteps, FinishSteps, Holds
    <3>4. QED
      BY <1>2, <2>1, <3>1, <3>2, <3>3 DEF Told
  <2>2. CASE pc = "switched"
    <3>1. pc \in Opening /\ journal.promo /\ src = "fenced"
      BY <2>2 DEF JournalInv, FenceInv, V1Stays, Opening, FinishSteps
    <3>2. V2Serves'
      BY <1>1, <2>2, <3>1 DEF JournalInv, GivenAway, V2Serves, proxyVars
    <3>3. pc' \in {"idle", "hold_after_promotion"}
      BY <1>1, <2>2 DEF Then, Handler, AbortSteps, FinishSteps, Promoting, Holds
    <3>4. QED
      BY <1>2, <2>2, <3>1, <3>2, <3>3 DEF Told
  <2>3. CASE pc \notin {"aborted", "switched"}
    BY <1>1, <1>2, <2>3 DEF Told, Saves, Holds
  <2>4. QED
    BY <2>1, <2>2, <2>3
<1>5. QED
  BY <1>3, <1>4, NotGiven


\* The effect of a step leaves what the journal says true.
LEMMA StillTold ==
  ASSUME JournalInv, pc \in Steps \ Holds, pc' \in {Then[pc], Handler(pc)}, UNCHANGED journal,
         pc \in AbortSteps /\ V1Serves => V1Serves',
         pc \in FinishSteps /\ V2Serves => V2Serves'
  PROVE  Told'
BY Chains, IdleIsNoStep DEF JournalInv, Told, Holds

\* The steps of cutover() before the promotion is done, and those that only
\* fence or hold: none leads to one that relies on what was given.
LEMMA JournalPlain ==
  ASSUME JournalInv, UNCHANGED journal,
         pc \in {"fenceTarget", "refence", "fenceSource", "unfence", "openTarget",
                 "shutV2", "holdV2", "shutV1", "addRule"},
         pc' \in {Then[pc], Handler(pc)},
         pc \in {"refence", "holdV2"} => UNCHANGED <<src, hg10, rule, default>>
  PROVE  GivenBack' /\ GivenAway' /\ Told'
<1>1. pc \in Steps \ Holds /\ pc \notin FinishSteps
  BY Named DEF Holds, FinishSteps
<1>2. pc' \notin Given
  BY <1>1, Chains DEF Given
<1>3. pc \in AbortSteps /\ V1Serves => V1Serves'
  BY DEF AbortSteps, V1Serves
<1>4. QED
  BY <1>1, <1>2, <1>3, NotGiven, StillTold

LEMMA JournalFlags ==
  ASSUME JournalInv, SetFlags
  PROVE  GivenBack' /\ GivenAway' /\ Told'
<1>1. UNCHANGED <<journal, hg10, hg20, rule, default>>
  BY DEF SetFlags, proxyVars
<1>2. CASE (Do("fenceTarget") \/ Do("refence")) /\ UNCHANGED src
  BY <1>1, <1>2, DoTarget, Named, JournalPlain
<1>3. CASE Do("fenceSource") \/ Do("unfence") \/ Do("openTarget")
  BY <1>1, <1>3, DoTarget, Named, JournalPlain
<1>4. CASE Do("unfenceSource") /\ src' = (IF src = "fenced" THEN "ro" ELSE src) /\ UNCHANGED tgt
  <2>1. pc = "unfenceSource" /\ pc \in Steps \ Holds /\ pc' \in {Then[pc], Handler(pc)}
    BY <1>4, DoTarget, Named DEF Holds
  <2>2. pc' \in {"openSource", "hold_before_promotion"}
    BY <2>1 DEF Then, Handler, AbortSteps, FinishSteps, Holds
  <2>3. Told'
    BY <1>1, <1>4, <2>1, StillTold DEF V1Serves, FinishSteps
  <2>4. QED
    BY <1>1, <2>1, <2>2, <2>3 DEF JournalInv, GivenBack, GivenAway
<1>5. CASE Do("openSource") /\ src' = "open" /\ UNCHANGED tgt
  <2>1. pc = "openSource" /\ pc \in Steps \ Holds /\ pc' \in {Then[pc], Handler(pc)}
    BY <1>5, DoTarget, Named DEF Holds
  <2>2. pc' \in {"dropRule", "hold_before_promotion"}
    BY <2>1 DEF Then, Handler, AbortSteps, FinishSteps, Holds
  <2>3. Told'
    BY <1>1, <1>5, <2>1, StillTold DEF V1Serves, FinishSteps
  <2>4. QED
    BY <1>1, <1>5, <2>1, <2>2, <2>3 DEF JournalInv, GivenBack, GivenAway
<1>6. QED
  BY <1>2, <1>3, <1>4, <1>5 DEF SetFlags

LEMMA JournalServers ==
  ASSUME JournalInv, SetServers
  PROVE  GivenBack' /\ GivenAway' /\ Told'
<1>1. UNCHANGED <<journal, src, tgt, rule, default>>
  BY DEF SetServers, serverVars
<1>2. CASE (Do("shutV2") \/ Do("holdV2")) /\ UNCHANGED hg10
  BY <1>1, <1>2, DoTarget, Named, JournalPlain
<1>3. CASE Do("shutV1")
  BY <1>1, <1>3, DoTarget, Named, JournalPlain
<1>4. CASE Do("openV1") /\ hg10' = "ONLINE" /\ UNCHANGED hg20
  <2>1. pc = "openV1" /\ pc \in Steps \ Holds /\ pc' \in {Then[pc], Handler(pc)}
    BY <1>4, DoTarget, Named DEF Holds
  <2>2. pc' \in {"unfenceSource", "hold_before_promotion"}
    BY <2>1 DEF Then, Handler, AbortSteps, FinishSteps, Holds
  <2>3. Told'
    BY <1>1, <1>4, <2>1, StillTold DEF V1Serves, FinishSteps
  <2>4. QED
    BY <1>1, <1>4, <2>1, <2>2, <2>3 DEF JournalInv, GivenBack, GivenAway
<1>5. CASE Do("closeV1") /\ hg10' = "HARD" /\ UNCHANGED hg20
  <2>1. pc = "closeV1" /\ pc \in Steps \ Holds /\ pc' \in {Then[pc], Handler(pc)}
    BY <1>5, DoTarget, Named DEF Holds
  <2>2. pc' \in {"route20", "idle", "hold_after_promotion"}
    BY <2>1 DEF Then, Handler, AbortSteps, FinishSteps, Holds
  <2>3. Told'
    BY <1>1, <1>5, <2>1, StillTold DEF V2Serves, AbortSteps
  <2>4. QED
    BY <1>1, <1>5, <2>1, <2>2, <2>3 DEF JournalInv, GivenBack, GivenAway
<1>6. CASE Do("openV2") /\ hg20' = "ONLINE" /\ UNCHANGED hg10
  <2>1. pc = "openV2" /\ pc \in Steps \ Holds /\ pc' \in {Then[pc], Handler(pc)}
    BY <1>6, DoTarget, Named DEF Holds
  <2>2. pc' \in {"switched", "idle", "hold_after_promotion"}
    BY <2>1 DEF Then, Handler, AbortSteps, FinishSteps, Holds
  <2>3. Told'
    BY <1>1, <1>6, <2>1, StillTold DEF V2Serves, AbortSteps
  <2>4. QED
    BY <1>1, <1>6, <2>1, <2>2, <2>3 DEF JournalInv, GivenBack, GivenAway
<1>7. QED
  BY <1>2, <1>3, <1>4, <1>5, <1>6 DEF SetServers

LEMMA JournalRoutes ==
  ASSUME JournalInv, SetRoutes
  PROVE  GivenBack' /\ GivenAway' /\ Told'
<1>1. UNCHANGED <<journal, src, tgt, hg10, hg20>>
  BY DEF SetRoutes, serverVars
<1>2. CASE Do("addRule")
  BY <1>1, <1>2, DoTarget, Named, JournalPlain
<1>3. CASE rule /\ Do("route20") /\ UNCHANGED <<rule, default>>
  <2>1. pc = "route20" /\ pc \in Steps \ Holds /\ pc' \in {Then[pc], Handler(pc)}
    BY <1>3, DoTarget, Named DEF Holds
  <2>2. pc' \in {"openV2", "idle", "hold_after_promotion"}
    BY <2>1 DEF Then, Handler, AbortSteps, FinishSteps, Holds
  <2>3. Told'
    BY <1>1, <1>3, <2>1, StillTold DEF V2Serves, AbortSteps
  <2>4. QED
    BY <1>1, <1>3, <2>1, <2>2, <2>3 DEF JournalInv, GivenBack, GivenAway
<1>4. CASE Do("dropRule") /\ rule' = FALSE /\ UNCHANGED default
  <2>1. pc = "dropRule" /\ pc \in Steps \ Holds /\ pc' \in {Then[pc], Handler(pc)}
    BY <1>4, DoTarget, Named DEF Holds
  <2>2. pc' \in {"aborted", "hold_before_promotion"}
    BY <2>1 DEF Then, Handler, AbortSteps, FinishSteps, Holds
  <2>3. Told'
    BY <1>1, <1>4, <2>1, StillTold DEF V1Serves, FinishSteps
  <2>4. QED
    BY <1>1, <1>4, <2>1, <2>2, <2>3 DEF JournalInv, GivenBack, GivenAway
<1>5. CASE Do("default20") /\ default' = 20 /\ UNCHANGED rule
  <2>1. pc = "default20" /\ pc \in Steps \ Holds /\ pc' \in {Then[pc], Handler(pc)}
    BY <1>5, DoTarget, Named DEF Holds
  <2>2. pc' \in {"closeV1", "idle", "hold_after_promotion"}
    BY <2>1 DEF Then, Handler, AbortSteps, FinishSteps, Holds
  <2>3. Told'
    BY <1>1, <1>5, <2>1, StillTold DEF V2Serves, AbortSteps
  <2>4. QED
    BY <1>1, <1>5, <2>1, <2>2, <2>3 DEF JournalInv, GivenBack, GivenAway
<1>6. CASE Do("default10") /\ default' = 10 /\ UNCHANGED rule
  <2>1. pc = "default10" /\ pc \in Steps \ Holds /\ pc' \in {Then[pc], Handler(pc)}
    BY <1>6, DoTarget, Named DEF Holds
  <2>2. pc' \in {"openV1", "hold_before_promotion"}
    BY <2>1 DEF Then, Handler, AbortSteps, FinishSteps, Holds
  <2>3. Told'
    BY <1>1, <1>6, <2>1, StillTold DEF V1Serves, FinishSteps
  <2>4. QED
    BY <1>1, <1>6, <2>1, <2>2, <2>3 DEF JournalInv, GivenBack, GivenAway
<1>7. QED
  BY <1>2, <1>3, <1>4, <1>5, <1>6 DEF SetRoutes

LEMMA JournalController ==
  ASSUME JournalInv, Controller
  PROVE  GivenBack' /\ GivenAway' /\ Told'
<1>1. CASE Verify
  <2>1. pc \in Steps /\ pc' \in {Then[pc], Handler(pc)} /\ UNCHANGED <<journal, src, tgt, proxyVars>>
    BY <1>1, Named, DoTarget DEF Verify, serverVars
  <2>2. CASE pc = "verifyWriter" /\ pc' = Then[pc]
    <3>1. pc' = "default20" /\ tgt = "open"
      BY <1>1, <2>2 DEF Verify, Requirement, Then
    <3>2. Told'
      BY <2>1, <2>2, StillTold DEF V2Serves, V1Serves, proxyVars, Holds
    <3>3. QED
      BY <2>1, <3>1, <3>2 DEF GivenBack, GivenAway
  <2>3. CASE pc # "verifyWriter" \/ pc' = Handler(pc)
    <3>1. pc # "verifyWriter" => pc \notin Giving
      BY <1>1 DEF Verify, Giving
    <3>2. QED
      BY <2>1, <2>3, <3>1, OnlyMoves
  <2>4. QED
    BY <2>1, <2>2, <2>3
<1>2. CASE DrainSource
  <2>1. UNCHANGED <<journal, src, tgt, proxyVars>>
    BY <1>2 DEF DrainSource, serverVars
  <2>2. pc \in {"drainSource1", "drainSource2"}
    BY <1>2, DrainMoves
  <2>3. QED
    BY <1>2, <2>1, <2>2, DrainMoves, Named, OnlyMoves DEF Giving
<1>3. CASE ReadFinal
  <2>1. pc = "readFinal" /\ pc' \in {Then[pc], Handler(pc)} /\ UNCHANGED <<journal, src, tgt, proxyVars>>
    BY <1>3, Named, DoTarget DEF ReadFinal, serverVars
  <2>2. QED
    BY <2>1, Named, OnlyMoves DEF Giving
<1>4. CASE SetReplica
  <2>1. /\ pc \in {"stopReplica", "startReplica"} /\ pc' \in {Then[pc], Handler(pc)}
        /\ UNCHANGED <<journal, src, tgt, proxyVars>>
    BY <1>4, Named, DoTarget DEF SetReplica
  <2>2. QED
    BY <2>1, Named, OnlyMoves DEF Giving
<1>5. CASE Refused \/ PastDeadline
  <2>1. pc \in Steps /\ pc' = Handler(pc) /\ UNCHANGED <<journal, src, tgt, proxyVars>>
    BY <1>5 DEF Refused, PastDeadline, Raise, Goto, serverVars
  <2>2. QED
    BY <2>1, OnlyMoves
<1>6. QED
  BY <1>1, <1>2, <1>3, <1>4, <1>5, JournalSave, JournalFlags, JournalServers, JournalRoutes
       DEF Controller

LEMMA JournalOperator ==
  ASSUME JournalInv, Operator
  PROVE  GivenBack' /\ GivenAway' /\ Told'
<1>1. pc = "idle" /\ UNCHANGED <<src, tgt, proxyVars>>
  BY DEF Operator, Cutover, Abort, Finish, Starts, serverVars
<1>2. CASE Cutover
  BY <1>2, NotGiven DEF Cutover, Starts, Told, Given
<1>3. CASE Abort
  <2>1. pc' = "refence" /\ ~journal.promo /\ UNCHANGED journal
    BY <1>3 DEF Abort, Starts
  <2>2. QED
    BY <1>1, <2>1, NotGiven DEF JournalInv, Told, Given, AbortSteps, V1Serves, proxyVars
<1>4. CASE Finish
  <2>1. pc' = "verifyWriter" /\ journal.promo /\ UNCHANGED journal
    BY <1>4 DEF Finish, Starts
  <2>2. QED
    BY <1>1, <2>1, NotGiven DEF JournalInv, Told, Given, FinishSteps, V2Serves, proxyVars
<1>5. QED
  BY <1>2, <1>3, <1>4 DEF Operator

LEMMA JournalStep == JournalInv /\ [HandoffNext]_handoffVars => JournalInv'
<1> SUFFICES ASSUME JournalInv, [HandoffNext]_handoffVars
             PROVE  JournalInv'
  OBVIOUS
<1>1. FenceInv'
  BY FenceStep DEF JournalInv
<1>2. CASE Environment \/ DeadlinePasses \/ UNCHANGED handoffVars
  <2>1. UNCHANGED <<journal, pc, src, tgt, proxyVars>>
    BY <1>2 DEF Environment, Transaction, Arrive, GetConnection, CommitV1, CommitV2, Fail,
                Apply, ReplicaBreaks, ForeignWrite, DeadlinePasses, handoffVars,
                controlVars, serverVars
  <2>2. GivenBack' /\ GivenAway' /\ Told'
    BY <2>1 DEF JournalInv, GivenBack, GivenAway, Told, V1Serves, V2Serves, proxyVars
  <2>3. QED
    BY <1>1, <2>2 DEF JournalInv
<1>3. CASE Operator
  BY <1>1, <1>3, JournalOperator DEF JournalInv
<1>4. CASE Controller
  BY <1>1, <1>4, JournalController DEF JournalInv
<1>5. CASE Interrupted \/ Kill
  <2>1. /\ pc \in Steps /\ UNCHANGED <<journal, src, tgt, proxyVars>>
        /\ pc' \in {Handler(pc), "idle"} \/ (pc = "promotion_intent" /\ pc' = "refence")
    BY <1>5 DEF Interrupted, Kill, Raise, Goto, serverVars, JournalInv, FenceInv,
         HandoffTypeOK
  <2>2. GivenBack' /\ GivenAway' /\ Told'
    BY <2>1, OnlyMoves
  <2>3. QED
    BY <1>1, <2>2 DEF JournalInv
<1>6. QED
  BY <1>2, <1>3, <1>4, <1>5 DEF HandoffNext

LEMMA JournalStart == HandoffInit => JournalInv
BY FenceStart DEF HandoffInit, JournalInv, GivenBack, GivenAway, Told, V1Serves

\* Whoever finds no controller running can rely on the phases `aborted` and
\* `switched`, whatever was interrupted, killed or repeated before.
THEOREM JournalIsTrue == HandoffSpec => []JournalTellsWriter
<1>1. JournalInv => JournalTellsWriter
  BY DEF JournalInv, Told, V2Serves, JournalTellsWriter
<1>2. QED
  BY <1>1, JournalStart, JournalStep, PTL DEF HandoffSpec

-----------------------------------------------------------------------------
(* The handoff implements OneDatabase.                                      *)

\* The steps behind the last comparison of the positions.
Caught == {"replica_stopped", "verifyFences", "promotion_intent", "hold_after_promotion"}
            \union Opening

\* V1 is fenced there, and the target holds all it committed.
CaughtUp == journal.promo \/ pc \in Caught => applied = Len(log)

\* Before the promotion nothing reaches V2, and the target commits only after.
Unrouted ==
  /\ ~journal.promo => default = 10 /\ \A t \in Txns : tx[t] # "in20"
  /\ ~journal.promo /\ hg20 = "ONLINE" => ~rule /\ \A t \in Txns : tx[t] # "wait20"
  /\ pc = "addRule" => hg20 # "ONLINE"
  /\ own # <<>> => journal.promo /\ tgt = "open"

InLog(t) == \E i \in 1..Len(log) : log[i] = t
InOwn(t) == \E i \in 1..Len(own) : own[i] = t

\* A transaction commits once.
Recorded == \A t \in Txns : InLog(t) \/ InOwn(t) => tx[t] = "committed"

HistoryInv == JournalInv /\ CaughtUp /\ Unrouted /\ Recorded

LEMMA CaughtFlow ==
  ASSUME NEW s \in Steps, NEW n \in {Then[s], Handler(s)}
  PROVE  /\ n \in Caught => s \in Caught \/ (s = "recheck" /\ n = Then[s])
         /\ n = "addRule" => s = "shutV2"
<1> USE DEF Caught, Opening, Promoting, FinishSteps
<1>1. CASE n = Then[s]
  BY <1>1 DEF Steps, Then
<1>2. CASE n = Handler(s)
  BY <1>2 DEF Handler, AbortSteps, Holds
<1>3. QED
  BY <1>1, <1>2

\* V1 is fenced where the target has caught up.
LEMMA CaughtFenced ==
  ASSUME FenceInv, journal.promo \/ pc \in Caught
  PROVE  src = "fenced"
BY DEF FenceInv, V1Stays, V1Fenced, Caught

\* The controller alone neither commits nor applies anything.
LEMMA ControllerKeeps ==
  ASSUME Controller
  PROVE  UNCHANGED <<historyVars, tx, foreign>>
BY DEF Controller, Verify, DrainSource, ReadFinal, Save, SetFlags, SetReplica, SetServers,
       SetRoutes, Refused, PastDeadline, Raise, serverVars

LEMMA ControllerMoves ==
  ASSUME Controller
  PROVE  /\ pc \in Steps
         /\ \/ pc' \in {Then[pc], Handler(pc)}
            \/ pc = "drainSource1" /\ pc' = "drainProxy1"
            \/ pc = "drainSource2" /\ pc' = "drainProxy2"
<1>1. CASE Harmless
  BY <1>1, HarmlessMoves, Named DEF HarmlessSteps
<1>2. CASE DrainSource
  BY <1>2, DrainMoves, Named
<1>3. CASE Save
  BY <1>3, Named, DoTarget DEF Save
<1>4. CASE SetFlags
  BY <1>4, Named, DoTarget DEF SetFlags
<1>5. CASE Refused \/ PastDeadline
  BY <1>5 DEF Refused, PastDeadline, Raise, Goto
<1>6. QED
  BY <1>1, <1>2, <1>3, <1>4, <1>5 DEF Controller, Harmless

\* recheck goes on only if the target has applied all there is.
LEMMA RecheckGoesOn ==
  ASSUME Controller, pc = "recheck", pc' = Then[pc]
  PROVE  applied >= final /\ Len(log) = final
<1>1. CASE Verify
  BY <1>1 DEF Verify, Requirement
<1>2. CASE Refused \/ PastDeadline
  BY <1>2 DEF Refused, PastDeadline, Raise, Goto, Then, Handler, Holds, FinishSteps,
              AbortSteps, Promoting
<1>3. CASE DrainSource
  BY <1>3, DrainMoves
<1>4. CASE ReadFinal \/ Save \/ SetFlags \/ SetReplica \/ SetServers \/ SetRoutes
  BY <1>4 DEF ReadFinal, Save, SetFlags, SetReplica, SetServers, SetRoutes, Do, Saves, Holds
<1>5. QED
  BY <1>1, <1>2, <1>3, <1>4 DEF Controller

\* Only a save changes the journal.
LEMMA IntentSaved ==
  ASSUME FenceInv, Controller
  PROVE  /\ journal.promo => journal'.promo
         /\ journal'.promo => journal.promo \/ pc \in {"promotion_intent", "hold_after_promotion"}
<1>1. CASE Save
  BY <1>1 DEF Save, FenceInv, HandoffTypeOK, Journal
<1>2. CASE ~Save
  <2>1. UNCHANGED journal
    BY <1>2 DEF Controller, Verify, DrainSource, ReadFinal, SetFlags, SetReplica,
         SetServers,
                SetRoutes, Refused, PastDeadline, Raise
  <2>2. QED
    BY <2>1
<1>3. QED
  BY <1>1, <1>2

\* An exception or a kill.
LEMMA AbruptMoves ==
  ASSUME FenceInv, Interrupted \/ Kill
  PROVE  /\ pc \in Steps
         /\ pc' \in {Handler(pc), "idle"} \/ (pc = "promotion_intent" /\ pc' = "refence")
         /\ UNCHANGED <<journal, src, tgt, foreign, proxyVars, historyVars, tx>>
BY DEF Interrupted, Kill, Raise, Goto, serverVars, FenceInv, HandoffTypeOK

LEMMA OperatorMoves ==
  ASSUME JournalInv, Operator
  PROVE  /\ pc' \in {"fenceTarget", "refence", "verifyWriter"}
         /\ pc' = "verifyWriter" => journal.promo
         /\ journal'.promo <=> journal.promo
         /\ UNCHANGED <<src, tgt, foreign, proxyVars, historyVars, tx>>
<1>1. CASE Cutover
  BY <1>1 DEF Cutover, Starts, serverVars, JournalInv, Told
<1>2. CASE Abort \/ Finish
  BY <1>2 DEF Abort, Finish, Starts, serverVars
<1>3. QED
  BY <1>1, <1>2 DEF Operator

\* The history grows only by the application and the replication.
LEMMA CaughtStep ==
  ASSUME HistoryInv, [HandoffNext]_handoffVars
  PROVE  CaughtUp'
<1> USE DEF HistoryInv, JournalInv
<1>1. FenceInv /\ applied \in 0..Len(log) /\ Len(log) \in Nat
  BY DEF FenceInv, HandoffTypeOK
<1>2. CASE Environment
  <2>1. UNCHANGED <<journal, pc>>
    BY <1>2 DEF Environment, Transaction, Arrive, GetConnection, CommitV1, CommitV2, Fail,
                Apply, ReplicaBreaks, ForeignWrite, controlVars
  <2>2. CASE UNCHANGED <<applied, log>>
    BY <2>1, <2>2 DEF CaughtUp
  <2>3. CASE Apply
    BY <1>1, <2>1, <2>3 DEF Apply, CaughtUp
  <2>4. ASSUME NEW t \in Txns, CommitV1(t) PROVE CaughtUp'
    BY <1>1, <2>1, <2>4, CaughtFenced DEF CommitV1, CaughtUp
  <2>5. UNCHANGED <<applied, log>> \/ Apply \/ \E t \in Txns : CommitV1(t)
    BY <1>2 DEF Environment, Transaction, Arrive, GetConnection, CommitV2, Fail,
                ReplicaBreaks, ForeignWrite, historyVars
  <2>6. QED
    BY <2>2, <2>3, <2>4, <2>5
<1>3. CASE Operator
  BY <1>3, OperatorMoves DEF CaughtUp, Caught, Opening, Promoting, FinishSteps, historyVars
<1>4. CASE Controller
  <2>1. UNCHANGED <<applied, log>>
    BY <1>4, ControllerKeeps DEF historyVars
  <2>2. pc' \in Caught => pc \in Caught \/ (pc = "recheck" /\ pc' = Then[pc])
    BY <1>4, ControllerMoves, CaughtFlow DEF Caught, Opening, Promoting, FinishSteps
  <2>3. journal'.promo => journal.promo \/ pc \in Caught
    BY <1>1, <1>4, IntentSaved DEF Caught
  <2>4. pc = "recheck" /\ pc' = Then[pc] => applied = Len(log)
    BY <1>1, <1>4, RecheckGoesOn
  <2>5. QED
    BY <2>1, <2>2, <2>3, <2>4 DEF CaughtUp
<1>5. CASE Interrupted \/ Kill
  <2>1. pc' \in Caught => pc \in Caught
    <3>1. CASE pc' = Handler(pc)
      BY <1>1, <1>5, <3>1, AbruptMoves DEF Handler, Caught, Opening, Promoting, FinishSteps,
                                      AbortSteps, Holds
    <3>2. CASE pc' \in {"idle", "refence"}
      BY <3>2 DEF Caught, Opening, Promoting, FinishSteps
    <3>3. QED
      BY <1>1, <1>5, <3>1, <3>2, AbruptMoves
  <2>2. QED
    BY <1>1, <1>5, <2>1, AbruptMoves DEF CaughtUp, historyVars
<1>6. CASE DeadlinePasses \/ UNCHANGED handoffVars
  BY <1>6 DEF DeadlinePasses, handoffVars, controlVars, historyVars, CaughtUp
<1>7. QED
  BY <1>2, <1>3, <1>4, <1>5, <1>6 DEF HandoffNext

\* What the application does depends on the routes alone.
LEMMA UnroutedTransaction ==
  ASSUME HistoryInv, NEW t \in Txns, Transaction(t)
  PROVE  Unrouted'
<1> USE DEF HistoryInv
<1>1. /\ UNCHANGED <<journal, pc, tgt, hg20, rule, default>>
      /\ tx \in [Txns -> {"idle", "wait10", "wait20", "in10", "in20", "committed", "failed"}]
  BY DEF Transaction, Arrive, GetConnection, CommitV1, CommitV2, Fail, controlVars,
         serverVars, proxyVars, JournalInv, FenceInv, HandoffTypeOK
<1>2. own' # <<>> => journal.promo /\ tgt = "open"
  <2>1. CASE CommitV2(t)
    BY <2>1 DEF CommitV2, Unrouted
  <2>2. CASE UNCHANGED own
    BY <2>2 DEF Unrouted
  <2>3. QED
    BY <2>1, <2>2 DEF Transaction, Arrive, GetConnection, CommitV1, Fail, historyVars
<1>3. ASSUME ~journal.promo PROVE \A u \in Txns : tx'[u] # "in20"
  BY <1>1, <1>3 DEF Transaction, Arrive, GetConnection, CommitV1, CommitV2, Fail, Unrouted
<1>4. ASSUME ~journal.promo, hg20 = "ONLINE" PROVE \A u \in Txns : tx'[u] # "wait20"
  BY <1>1, <1>4 DEF Transaction, Arrive, GetConnection, CommitV1, CommitV2, Fail, Unrouted
<1>5. QED
  BY <1>1, <1>2, <1>3, <1>4 DEF Unrouted

\* The routes and the target stay where V1 needs them.
LEMMA UnroutedController ==
  ASSUME HistoryInv, Controller
  PROVE  Unrouted'
<1> USE DEF HistoryInv, JournalInv
<1>1. /\ pc \in Steps /\ UNCHANGED <<own, tx>>
      /\ journal.promo => journal'.promo
      /\ pc' = "addRule" => pc = "shutV2" /\ pc' \in {Then[pc], Handler(pc)}
  BY ControllerKeeps, ControllerMoves, IntentSaved, CaughtFlow DEF historyVars
<1>2. CASE UNCHANGED <<hg20, rule, default>>
  <2>1. CASE SetFlags
    <3>1. journal.promo /\ tgt = "open" => tgt' = "open"
      <4>1. CASE pc \in {"fenceTarget", "refence"}
        BY <4>1, Groups DEF FenceInv, V1Stays
      <4>2. CASE pc \notin {"fenceTarget", "refence"}
        BY <2>1, <4>2 DEF SetFlags, Do
      <4>3. QED
        BY <4>1, <4>2
    <3>2. pc # "shutV2"
      BY <2>1 DEF SetFlags, Do
    <3>3. QED
      BY <1>1, <1>2, <3>1, <3>2 DEF Unrouted
  <2>2. CASE UNCHANGED tgt
    <3>1. pc' = "addRule" => hg20 # "ONLINE"
      <4>1. CASE SetServers
        BY <1>1, <1>2, <4>1 DEF SetServers, Do
      <4>2. CASE ~SetServers
        <5>1. CASE Refused \/ PastDeadline
          BY <1>1, <5>1 DEF Refused, PastDeadline, Raise, Goto, Handler, Holds, FinishSteps,
                            AbortSteps, Promoting
        <5>2. CASE DrainSource
          BY <1>1, <5>2, DrainMoves
        <5>3. CASE Verify \/ ReadFinal \/ Save \/ SetReplica \/ SetFlags \/ SetRoutes
          BY <1>1, <5>3 DEF Verify, ReadFinal, Save, SetReplica, SetFlags, SetRoutes, Do,
                            Saves, Holds
        <5>4. QED
          BY <4>2, <5>1, <5>2, <5>3 DEF Controller
      <4>3. QED
        BY <4>1, <4>2
    <3>2. QED
      BY <1>1, <1>2, <2>2, <3>1 DEF Unrouted
  <2>3. QED
    BY <2>1, <2>2 DEF Controller, Verify, DrainSource, ReadFinal, Save, SetReplica,
         SetServers,
                      SetRoutes, Refused, PastDeadline, Raise, serverVars
<1>3. CASE SetServers
  <2>1. UNCHANGED <<journal, tgt, rule, default>>
    BY <1>3 DEF SetServers, serverVars
  <2>2. CASE pc = "openV2"
    <3>1. journal.promo
      BY <2>2 DEF FenceInv, V1Stays, Opening, FinishSteps
    <3>2. QED
      BY <1>1, <2>1, <2>2, <3>1 DEF Unrouted
  <2>3. CASE pc \in {"shutV2", "holdV2"}
    BY <1>1, <1>3, <2>1, <2>3 DEF SetServers, Do, Unrouted
  <2>4. CASE pc \notin {"openV2", "shutV2", "holdV2"}
    BY <1>1, <1>3, <2>1, <2>4 DEF SetServers, Do, Unrouted
  <2>5. QED
    BY <2>2, <2>3, <2>4
<1>4. CASE SetRoutes
  <2>1. UNCHANGED <<journal, tgt, hg20>> /\ pc # "shutV2"
    BY <1>4 DEF SetRoutes, serverVars, Do
  <2>2. CASE pc = "default20"
    <3>1. journal.promo
      BY <2>2 DEF FenceInv, V1Stays, Opening, FinishSteps
    <3>2. QED
      BY <1>1, <2>1, <2>2, <3>1 DEF Unrouted
  <2>3. CASE pc # "default20"
    BY <1>1, <1>4, <2>1, <2>3 DEF SetRoutes, Do, Unrouted
  <2>4. QED
    BY <2>2, <2>3
<1>5. QED
  BY <1>2, <1>3, <1>4 DEF Controller, Verify, DrainSource, ReadFinal, Save, SetFlags,
       SetReplica,
                          Refused, PastDeadline, Raise, proxyVars

LEMMA UnroutedStep ==
  ASSUME HistoryInv, [HandoffNext]_handoffVars
  PROVE  Unrouted'
<1> USE DEF HistoryInv, JournalInv
<1>1. ASSUME UNCHANGED <<tgt, hg20, rule, default, own, tx>>, journal'.promo <=> journal.promo,
             pc' = "addRule" => pc = "addRule"
      PROVE  Unrouted'
  BY <1>1 DEF Unrouted
<1>2. CASE Environment
  <2>1. CASE Apply \/ ReplicaBreaks \/ ForeignWrite
    BY <1>1, <2>1 DEF Apply, ReplicaBreaks, ForeignWrite, controlVars, serverVars,
         proxyVars,
                      historyVars
  <2>2. QED
    BY <1>2, <2>1, UnroutedTransaction DEF Environment
<1>3. CASE Operator
  BY <1>1, <1>3, OperatorMoves DEF proxyVars, historyVars
<1>4. CASE Controller
  BY <1>4, UnroutedController
<1>5. CASE Interrupted \/ Kill
  <2>1. pc' # "addRule"
    BY <1>5, AbruptMoves DEF Handler
  <2>2. QED
    BY <1>1, <1>5, <2>1, AbruptMoves DEF proxyVars, historyVars
<1>6. CASE DeadlinePasses \/ UNCHANGED handoffVars
  BY <1>1, <1>6 DEF DeadlinePasses, handoffVars, controlVars, serverVars, proxyVars,
       historyVars
<1>7. QED
  BY <1>2, <1>3, <1>4, <1>5, <1>6 DEF HandoffNext

\* What a commit adds to a history.
LEMMA Appended ==
  ASSUME NEW h \in Seq(Txns), NEW t \in Txns, NEW u \in Txns
  PROVE  (\E i \in 1..Len(Append(h, t)) : Append(h, t)[i] = u)
           <=> u = t \/ \E i \in 1..Len(h) : h[i] = u
<1>1. Len(Append(h, t)) = Len(h) + 1 /\ Len(h) \in Nat
  OBVIOUS
<1>2. Append(h, t)[Len(h) + 1] = t /\ \A i \in 1..Len(h) : Append(h, t)[i] = h[i]
  OBVIOUS
<1>3. \A i \in 1..(Len(h) + 1) : i = Len(h) + 1 \/ i \in 1..Len(h)
  BY <1>1
<1>4. Len(h) + 1 \in 1..(Len(h) + 1) /\ \A i \in 1..Len(h) : i \in 1..(Len(h) + 1)
  BY <1>1
<1>5. QED
  BY <1>1, <1>2, <1>3, <1>4

LEMMA CommitV1Adds ==
  ASSUME HandoffTypeOK, NEW t \in Txns, CommitV1(t)
  PROVE  /\ \A u \in Txns : InLog(u)' <=> u = t \/ InLog(u)
         /\ \A u \in Txns : InOwn(u)' <=> InOwn(u)
BY SMTT(30), Appended DEF HandoffTypeOK, CommitV1, InLog, InOwn

LEMMA CommitV2Adds ==
  ASSUME HandoffTypeOK, NEW t \in Txns, CommitV2(t)
  PROVE  /\ \A u \in Txns : InOwn(u)' <=> u = t \/ InOwn(u)
         /\ \A u \in Txns : InLog(u)' <=> InLog(u)
BY Appended DEF HandoffTypeOK, CommitV2, InLog, InOwn

\* Every other step leaves the history alone.
LEMMA HistoryKept ==
  ASSUME HistoryInv, [HandoffNext]_handoffVars,
         ~\E t \in Txns : CommitV1(t) \/ CommitV2(t)
  PROVE  UNCHANGED <<log, own, saw>>
<1>1. CASE Environment
  BY <1>1 DEF Environment, Transaction, Arrive, GetConnection, Fail, Apply, ReplicaBreaks,
              ForeignWrite, historyVars
<1>2. CASE Operator
  BY <1>2, OperatorMoves DEF HistoryInv, historyVars
<1>3. CASE Controller
  BY <1>3, ControllerKeeps DEF historyVars
<1>4. CASE Interrupted \/ Kill
  BY <1>4, AbruptMoves DEF HistoryInv, JournalInv, historyVars
<1>5. CASE DeadlinePasses \/ UNCHANGED handoffVars
  BY <1>5 DEF DeadlinePasses, handoffVars, historyVars
<1>6. QED
  BY <1>1, <1>2, <1>3, <1>4, <1>5 DEF HandoffNext

\* A transaction that committed does nothing more.
LEMMA CommittedStays ==
  ASSUME HistoryInv, [HandoffNext]_handoffVars, NEW u \in Txns, tx[u] = "committed"
  PROVE  tx'[u] = "committed"
<1>0. tx \in [Txns -> {"idle", "wait10", "wait20", "in10", "in20", "committed", "failed"}]
  BY DEF HistoryInv, JournalInv, FenceInv, HandoffTypeOK
<1>1. CASE UNCHANGED tx
  BY <1>1
<1>2. ASSUME NEW t \in Txns, Transaction(t) PROVE tx'[u] = "committed"
  BY <1>0, <1>2 DEF Transaction, Arrive, GetConnection, CommitV1, CommitV2, Fail
<1>3. CASE Environment
  BY <1>1, <1>2, <1>3 DEF Environment, Apply, ReplicaBreaks, ForeignWrite
<1>4. CASE Operator \/ Controller \/ Interrupted \/ Kill
  BY <1>1, <1>4, OperatorMoves, ControllerKeeps, AbruptMoves DEF HistoryInv, JournalInv
<1>5. CASE DeadlinePasses \/ UNCHANGED handoffVars
  BY <1>1, <1>5 DEF DeadlinePasses, handoffVars
<1>6. QED
  BY <1>3, <1>4, <1>5 DEF HandoffNext

LEMMA RecordedStep ==
  ASSUME HistoryInv, [HandoffNext]_handoffVars
  PROVE  Recorded'
<1>1. HandoffTypeOK
  BY DEF HistoryInv, JournalInv, FenceInv
<1>2. ASSUME NEW t \in Txns, CommitV1(t) \/ CommitV2(t) PROVE Recorded'
  <2>1. tx'[t] = "committed"
    BY <1>1, <1>2 DEF CommitV1, CommitV2, HandoffTypeOK
  <2>2. \A u \in Txns : (InLog(u) \/ InOwn(u))' => u = t \/ InLog(u) \/ InOwn(u)
    BY <1>1, <1>2, CommitV1Adds, CommitV2Adds
  <2>3. QED
    BY <2>1, <2>2, CommittedStays DEF HistoryInv, Recorded
<1>3. CASE ~\E t \in Txns : CommitV1(t) \/ CommitV2(t)
  <2>1. \A u \in Txns : (InLog(u) \/ InOwn(u))' => InLog(u) \/ InOwn(u)
    BY <1>3, HistoryKept DEF InLog, InOwn
  <2>2. QED
    BY <2>1, CommittedStays DEF HistoryInv, Recorded
<1>4. QED
  BY <1>2, <1>3

LEMMA HistoryStep == HistoryInv /\ [HandoffNext]_handoffVars => HistoryInv'
BY JournalStep, CaughtStep, UnroutedStep, RecordedStep DEF HistoryInv

LEMMA HistoryStart == HandoffInit => HistoryInv
<1> SUFFICES ASSUME HandoffInit PROVE HistoryInv
  OBVIOUS
<1>1. JournalInv
  BY JournalStart
<1>2. CaughtUp /\ Unrouted
  BY DEF HandoffInit, CaughtUp, Unrouted, Caught, Opening, Promoting, FinishSteps
<1>3. Recorded
  BY DEF HandoffInit, Recorded, InLog, InOwn
<1>4. QED
  BY <1>1, <1>2, <1>3 DEF HistoryInv

Home == IF journal.promo /\ tgt = "open" THEN "V2" ELSE "V1"
Place == [t \in Txns |-> IF InLog(t) THEN "V1" ELSE IF InOwn(t) THEN "V2" ELSE "none"]

\* What the target has, and what committed at all.
LEMMA AllCommitted ==
  ASSUME HandoffTypeOK
  PROVE  /\ {log[i] : i \in 1..Len(log)} = {t \in Txns : InLog(t)}
         /\ {own[i] : i \in 1..Len(own)} = {t \in Txns : InOwn(t)}
<1>1. ASSUME NEW h \in Seq(Txns)
      PROVE  {h[i] : i \in 1..Len(h)} = {t \in Txns : \E i \in 1..Len(h) : h[i] = t}
  <2>1. \A i \in 1..Len(h) : h[i] \in Txns
    BY <1>1
  <2>2. QED
    BY <2>1
<1>2. QED
  BY <1>1 DEF HandoffTypeOK, InLog, InOwn

LEMMA CommittedPlaces ==
  {t \in Txns : Place[t] # "none"} = {t \in Txns : InLog(t)} \union {t \in Txns : InOwn(t)}
<1>1. \A t \in Txns : Place[t] # "none" <=> InLog(t) \/ InOwn(t)
  BY DEF Place
<1>2. QED
  BY <1>1

\* A commit in V1 finds V1 the only database.
LEMMA CommitV1Refines ==
  ASSUME HistoryInv, NEW t \in Txns, CommitV1(t)
  PROVE  /\ Place[t] = "none" /\ UNCHANGED Home
         /\ Place' = [Place EXCEPT ![t] = Home]
         /\ saw' = [saw EXCEPT ![t] = {u \in Txns : Place[u] # "none"}]
<1>1. HandoffTypeOK /\ FenceInv
  BY DEF HistoryInv, JournalInv, FenceInv
<1>2. src = "open" /\ ~journal.promo
  BY <1>1 DEF CommitV1, FenceInv, V1Stays
<1>3. own = <<>>
  BY <1>2 DEF HistoryInv, Unrouted
<1>4. ~InLog(t) /\ \A u \in Txns : ~InOwn(u)
  BY <1>3 DEF CommitV1, HistoryInv, Recorded, InOwn
<1>5. Home = "V1" /\ UNCHANGED <<journal, tgt>>
  BY <1>2 DEF Home, CommitV1, controlVars, serverVars
<1>6. Place' = [Place EXCEPT ![t] = "V1"]
  <2>1. \A u \in Txns : Place'[u] = IF u = t THEN "V1" ELSE Place[u]
    BY <1>1, CommitV1Adds DEF Place
  <2>2. QED
    BY <2>1 DEF Place
<1>7. {log[i] : i \in 1..Len(log)} = {u \in Txns : Place[u] # "none"}
  BY <1>1, <1>4, AllCommitted, CommittedPlaces
<1>8. QED
  BY <1>4, <1>5, <1>6, <1>7 DEF Place, Home, CommitV1

\* A commit in V2 finds all that V1 committed applied.
LEMMA CommitV2Refines ==
  ASSUME HistoryInv, NEW t \in Txns, CommitV2(t)
  PROVE  /\ Place[t] = "none" /\ UNCHANGED Home
         /\ Place' = [Place EXCEPT ![t] = Home]
         /\ saw' = [saw EXCEPT ![t] = {u \in Txns : Place[u] # "none"}]
<1>1. HandoffTypeOK
  BY DEF HistoryInv, JournalInv, FenceInv
<1>2. journal.promo /\ tgt = "open" /\ applied = Len(log)
  BY DEF CommitV2, HistoryInv, Unrouted, CaughtUp
<1>3. ~InLog(t) /\ ~InOwn(t)
  BY DEF CommitV2, HistoryInv, Recorded
<1>4. Home = "V2" /\ UNCHANGED <<journal, tgt>>
  BY <1>2 DEF Home, CommitV2, controlVars, serverVars
<1>5. Place' = [Place EXCEPT ![t] = "V2"]
  <2>1. \A u \in Txns : Place'[u] = IF u = t THEN "V2" ELSE Place[u]
    BY <1>1, <1>3, CommitV2Adds DEF Place
  <2>2. QED
    BY <2>1 DEF Place
<1>6. Replicated \union {own[i] : i \in 1..Len(own)} = {u \in Txns : Place[u] # "none"}
  BY <1>1, <1>2, AllCommitted, CommittedPlaces DEF Replicated
<1>7. QED
  BY <1>3, <1>4, <1>5, <1>6 DEF Place, Home, CommitV2

\* The application never returns to V1.
LEMMA HomeStays ==
  ASSUME HistoryInv, [HandoffNext]_handoffVars, Home = "V2"
  PROVE  Home' = "V2"
<1> USE DEF HistoryInv, JournalInv
<1>1. journal.promo /\ tgt = "open"
  BY DEF Home
<1>2. CASE Operator
  BY <1>1, <1>2, OperatorMoves DEF Home
<1>3. CASE Controller
  <2>1. journal'.promo
    BY <1>1, <1>3, IntentSaved
  <2>2. CASE SetFlags
    <3>1. pc \notin {"fenceTarget", "refence"}
      BY <1>1, Groups DEF FenceInv, V1Stays
    <3>2. QED
      BY <1>1, <2>1, <2>2, <3>1 DEF SetFlags, Do, Home
  <2>3. CASE UNCHANGED tgt
    BY <1>1, <2>1, <2>3 DEF Home
  <2>4. QED
    BY <1>3, <2>2, <2>3 DEF Controller, Verify, DrainSource, ReadFinal, Save, SetReplica,
                            SetServers, SetRoutes, Refused, PastDeadline, Raise, serverVars
<1>4. CASE Interrupted \/ Kill
  BY <1>1, <1>4, AbruptMoves DEF Home
<1>5. CASE Environment \/ DeadlinePasses \/ UNCHANGED handoffVars
  <2>1. UNCHANGED <<journal, tgt>>
    BY <1>5 DEF Environment, Transaction, Arrive, GetConnection, CommitV1, CommitV2, Fail,
                Apply, ReplicaBreaks, ForeignWrite, DeadlinePasses, handoffVars, controlVars,
                serverVars
  <2>2. QED
    BY <1>1, <2>1 DEF Home
<1>6. QED
  BY <1>2, <1>3, <1>4, <1>5 DEF HandoffNext

LEMMA HandoffRefines ==
  ASSUME HistoryInv, [HandoffNext]_handoffVars
  PROVE  [Abs!Next]_(Abs!vars)
<1> USE DEF Abs!Next, Abs!Commit, Abs!Committed, Abs!Move, Abs!vars, InLog, InOwn
<1>1. CASE \E t \in Txns : CommitV1(t)
  BY <1>1, CommitV1Refines DEF Home, Place
<1>2. CASE \E t \in Txns : CommitV2(t)
  BY <1>2, CommitV2Refines DEF Home, Place
<1>3. CASE ~\E t \in Txns : CommitV1(t) \/ CommitV2(t)
  <2>1. UNCHANGED <<log, own, saw>>
    BY <1>3, HistoryKept
  <2>2. Home = "V2" => Home' = "V2"
    BY HomeStays
  <2>3. UNCHANGED Place
    BY <2>1 DEF Place
  <2>4. QED
    BY <2>1, <2>2, <2>3 DEF Home, Place
<1>4. QED
  BY <1>1, <1>2, <1>3

\* Whatever fails, the application sees one database that moves once: every
\* transaction finds all that committed before it, in V1 as in V2.
THEOREM HistoryRefined == HandoffSpec => OneHistory
<1>1. HandoffInit => Abs!Init
  BY DEF HandoffInit, Abs!Init
<1>2. HistoryInv /\ [HandoffNext]_handoffVars => [Abs!Next]_(Abs!vars)
  BY HandoffRefines
<1>3. QED
  BY <1>1, <1>2, HistoryStart, HistoryStep, PTL DEF HandoffSpec, OneHistory, Abs!Spec
=============================================================================
