------------------------------ MODULE DbHandoff ------------------------------
(***************************************************************************)
(* The handoff of the database from V1 (the source) to V2 (its replica, the *)
(* target) by src/scripts/staging-db-cutover.py, with the application's     *)
(* transactions going through ProxySQL meanwhile.                           *)
(*                                                                          *)
(* One controller runs at a time (flock).  `pc` names the remote command or *)
(* the save() it does next.  Each may succeed, raise without effect or      *)
(* raise after it took effect, and the process may be killed between any    *)
(* two.  A script of several statements is one step per statement with a    *)
(* visible effect (an UPDATE and the LOAD that makes it effective are one). *)
(* Left out: restarts of the databases and of ProxySQL, statements still    *)
(* running on a server when the next command starts, wrong arguments.       *)
(***************************************************************************)
EXTENDS Naturals, Sequences, FiniteSets

CONSTANTS
  Txns,         \* transactions of the application, each tried once
  Autocommit,   \* those of one statement: not an active transaction to ProxySQL
  MaxCommands   \* how many commands the operator starts

ASSUME HandoffAssumption ==
  /\ IsFiniteSet(Txns)
  /\ Autocommit \subseteq Txns
  /\ MaxCommands \in Nat

VARIABLES
  journal,   \* active.json: phase, promotionPossible, targetOwnGtid, finalPosition
  pc, cmd,   \* where the controller stands, and the command it executes
  final,     \* the local variable `final` of cutover()
  timer,     \* Database.deadline: "off", "running" or "late"
  commands,  \* how many commands were started
  src, tgt,  \* flags: "open", "ro" (read_only) or "fenced" (super_read_only)
  log,       \* transactions the source committed, in order
  applied,   \* how many of them the target has applied
  own,       \* transactions of the application the target committed
  foreign,   \* commits another client made in the target
  replica,   \* "running", "stopped" or "broken"
  hg10, hg20,  \* ProxySQL server status of V1 and V2
  rule,      \* whether rule 2050 sends every query to hostgroup 20
  default,   \* default_hostgroup of the application's user
  tx,        \* tx[t]: where transaction t stands
  saw        \* history: saw[t] is what t's database held when t committed

controlVars == <<journal, pc, cmd, final, timer, commands>>
serverVars == <<src, tgt, foreign, replica>>
proxyVars == <<hg10, hg20, rule, default>>
historyVars == <<log, applied, own, saw>>
handoffVars == <<controlVars, serverVars, proxyVars, historyVars, tx>>

-----------------------------------------------------------------------------
(* The program: what follows each step of cutover(), finish() and abort().  *)

Then ==
  [fenceTarget |-> "gate_intent", gate_intent |-> "shutV2", shutV2 |-> "addRule",
   addRule |-> "shutV1", shutV1 |-> "gated", gated |-> "drainProxy1",
   drainProxy1 |-> "drainSource1", drainSource1 |-> "fence_intent",
   fence_intent |-> "fenceSource", fenceSource |-> "drainProxy2",
   drainProxy2 |-> "drainSource2", drainSource2 |-> "readFinal",
   readFinal |-> "source_fenced", source_fenced |-> "posWait",
   posWait |-> "caught_up", caught_up |-> "stopReplica",
   stopReplica |-> "recheck", recheck |-> "replica_stopped",
   replica_stopped |-> "verifyFences", verifyFences |-> "promotion_intent",
   promotion_intent |-> "unfence", unfence |-> "openTarget",
   openTarget |-> "promoted", promoted |-> "verifyWriter",
   verifyWriter |-> "default20", default20 |-> "closeV1", closeV1 |-> "route20",
   route20 |-> "openV2", openV2 |-> "switched", switched |-> "idle",
   refence |-> "checkHistory", checkHistory |-> "holdV2", holdV2 |-> "startReplica",
   startReplica |-> "awaitReplica", awaitReplica |-> "default10",
   default10 |-> "openV1", openV1 |-> "unfenceSource",
   unfenceSource |-> "openSource", openSource |-> "dropRule",
   dropRule |-> "aborted", aborted |-> "idle",
   hold_before_promotion |-> "idle", hold_after_promotion |-> "idle"]

Steps == DOMAIN Then

Promoting == {"promotion_intent", "unfence", "openTarget", "promoted"}
FinishSteps == {"verifyWriter", "default20", "closeV1", "route20", "openV2", "switched"}
AbortSteps == {"refence", "checkHistory", "holdV2", "startReplica", "awaitReplica",
               "default10", "openV1", "unfenceSource", "openSource", "dropRule", "aborted"}
Holds == {"hold_before_promotion", "hold_after_promotion"}
\* The steps that are a save(); every other step is a query.
Saves == {"gate_intent", "gated", "fence_intent", "source_fenced", "caught_up",
          "replica_stopped", "promotion_intent", "promoted", "switched", "aborted"} \union Holds

\* Faulty: an abort that failed is recorded like one that succeeded.
HandlerAborted(s) ==
  IF s \in Holds \union {"aborted"} \/ (s \in FinishSteps /\ cmd = "finish") THEN "idle"
  ELSE IF s \in AbortSteps THEN "aborted"
  ELSE IF s \in Promoting \union FinishSteps THEN "hold_after_promotion"
  ELSE "refence"

\* Where an exception raised by step s leads.
Handler(s) ==
  IF s \in Holds \/ (s \in FinishSteps /\ cmd = "finish") THEN "idle"
  ELSE IF s \in AbortSteps THEN "hold_before_promotion"
  ELSE IF s \in Promoting \union FinishSteps THEN "hold_after_promotion"
  ELSE "refence"

\* Control moves to step s; the deadline runs from the save of gate_intent to
\* the handler of cutover().
Goto(s) ==
  /\ pc' = s
  /\ cmd' = IF s = "idle" THEN "none" ELSE cmd
  /\ timer' = IF s \in AbortSteps \union Holds \union {"idle"} THEN "off"
              ELSE IF pc = "gate_intent" THEN "running" ELSE timer

\* The step s takes effect; its answer may still be lost.
Do(s) ==
  /\ pc = s
  /\ s \in Saves \/ timer # "late"
  /\ Goto(Then[s]) \/ Goto(Handler(s))
  /\ UNCHANGED commands

-----------------------------------------------------------------------------
(* The application, ProxySQL and replication.                               *)

Active(group) == {t \in Txns : tx[t] = (IF group = 10 THEN "in10" ELSE "in20")}
Replicated == {log[i] : i \in 1..applied}
OwnCommits == foreign + Len(own)

\* The first query of t is given the hostgroup it then waits in.
Arrive(t) ==
  /\ tx[t] = "idle"
  /\ tx' = [tx EXCEPT ![t] = IF rule \/ default = 20 THEN "wait20" ELSE "wait10"]
  /\ UNCHANGED <<controlVars, serverVars, proxyVars, historyVars>>

\* A queued query is given a connection only of a server that is ONLINE.
GetConnection(t) ==
  /\ \/ /\ tx[t] = "wait10"
        /\ hg10 = "ONLINE"
        /\ tx' = [tx EXCEPT ![t] = "in10"]
     \/ /\ tx[t] = "wait20"
        /\ hg20 = "ONLINE"
        /\ tx' = [tx EXCEPT ![t] = "in20"]
  /\ UNCHANGED <<controlVars, serverVars, proxyVars, historyVars>>

CommitV1(t) ==
  /\ tx[t] = "in10"
  /\ src = "open"
  /\ tx' = [tx EXCEPT ![t] = "committed"]
  /\ log' = Append(log, t)
  /\ saw' = [saw EXCEPT ![t] = {log[i] : i \in 1..Len(log)}]
  /\ UNCHANGED <<controlVars, serverVars, proxyVars, applied, own>>

CommitV2(t) ==
  /\ tx[t] = "in20"
  /\ tgt = "open"
  /\ tx' = [tx EXCEPT ![t] = "committed"]
  /\ own' = Append(own, t)
  /\ saw' = [saw EXCEPT ![t] = Replicated \union {own[i] : i \in 1..Len(own)}]
  /\ UNCHANGED <<controlVars, serverVars, proxyVars, log, applied>>

\* Refused by a fenced server, rolled back, disconnected or timed out waiting.
Fail(t) ==
  /\ tx[t] \in {"wait10", "wait20", "in10", "in20"}
  /\ tx' = [tx EXCEPT ![t] = "failed"]
  /\ UNCHANGED <<controlVars, serverVars, proxyVars, historyVars>>

Apply ==
  /\ replica = "running"
  /\ applied < Len(log)
  /\ applied' = applied + 1
  /\ UNCHANGED <<controlVars, serverVars, proxyVars, log, own, saw, tx>>

ReplicaBreaks ==
  /\ replica = "running"
  /\ replica' = "broken"
  /\ UNCHANGED <<controlVars, src, tgt, foreign, proxyVars, historyVars, tx>>

\* A client the preflight has not seen writes in the target before the handoff.
ForeignWrite ==
  /\ tgt = "open"
  /\ ~journal.promo
  /\ foreign = 0
  /\ foreign' = 1
  /\ UNCHANGED <<controlVars, src, tgt, replica, proxyVars, historyVars, tx>>

-----------------------------------------------------------------------------
(* Commands of the operator.                                                *)

Journal == [phase : {"none", "prepared"} \union Saves, promo : BOOLEAN,
            own : Nat, final : Nat]

Starts(command, first) ==
  /\ pc = "idle"
  /\ commands < MaxCommands
  /\ commands' = commands + 1
  /\ cmd' = command
  /\ pc' = first
  /\ UNCHANGED <<final, timer, serverVars, proxyVars, historyVars, tx>>

\* check(): V1 is the healthy active writer and nothing is routed elsewhere.
V1Serves == src = "open" /\ hg10 = "ONLINE" /\ ~rule /\ default = 10

\* check() passes, its snapshot is kept and the phase `prepared` is saved.
Cutover ==
  /\ journal.phase \in {"none", "aborted"}
  /\ V1Serves
  /\ replica = "running"
  /\ hg20 # "HARD"
  /\ Active(20) = {}
  /\ journal' = [phase |-> "prepared", promo |-> FALSE, own |-> OwnCommits, final |-> 0]
  /\ Starts("cutover", "fenceTarget")

\* Faulty: abort trusts the operator.
AbortAlways ==
  /\ journal.phase # "none"
  /\ Starts("abort", "refence")
  /\ UNCHANGED journal

Abort ==
  /\ journal.phase # "none"
  /\ ~journal.promo
  /\ Starts("abort", "refence")
  /\ UNCHANGED journal

Finish ==
  /\ journal.promo
  /\ Starts("finish", "verifyWriter")
  /\ UNCHANGED journal

-----------------------------------------------------------------------------
(* The steps of a command.                                                  *)

\* Faulty: caught_up() compares the log files only.
RequirementSameFile(s) ==
  /\ s \in {"drainProxy1", "drainProxy2"} => (Active(10) \union Active(20)) \ Autocommit = {}
  /\ s = "recheck" => Len(log) = final
  /\ s = "verifyFences" => src = "fenced" /\ tgt = "fenced" /\ OwnCommits = journal.own
  /\ s = "verifyWriter" => src = "fenced" /\ tgt = "open" /\ replica = "stopped"
  /\ s = "checkHistory" => OwnCommits = journal.own
  /\ s = "awaitReplica" => replica = "running"

\* Faulty: the target's own transactions are not compared before promotion.
RequirementAnyOwn(s) ==
  /\ s \in {"drainProxy1", "drainProxy2"} => (Active(10) \union Active(20)) \ Autocommit = {}
  /\ s \in {"posWait", "recheck"} => applied >= final
  /\ s = "recheck" => Len(log) = final
  /\ s = "verifyFences" => src = "fenced" /\ tgt = "fenced"
  /\ s = "awaitReplica" => replica = "running"

\* What a step requires of the answers it reads, before or after its effect.
Requirement(s) ==
  /\ s \in {"drainProxy1", "drainProxy2"} => (Active(10) \union Active(20)) \ Autocommit = {}
  /\ s \in {"posWait", "recheck"} => applied >= final
  /\ s = "recheck" => Len(log) = final
  /\ s = "verifyFences" => src = "fenced" /\ tgt = "fenced" /\ OwnCommits = journal.own
  /\ s = "verifyWriter" => /\ src = "fenced" /\ tgt = "open"
                           /\ Len(log) = journal.final
                           /\ replica = "stopped"
                           /\ applied >= journal.final
  /\ s = "checkHistory" => OwnCommits = journal.own
  /\ s = "awaitReplica" => replica = "running"

\* A query that only verifies.
Verify ==
  /\ pc \in {"drainProxy1", "drainProxy2", "posWait", "recheck", "verifyFences",
             "verifyWriter", "checkHistory", "awaitReplica"}
  /\ Requirement(pc)
  /\ Do(pc)
  /\ UNCHANGED <<journal, final, serverVars, proxyVars, historyVars, tx>>

\* Faulty: drain() believes the proxy alone.
DrainProxyOnly ==
  /\ Do("drainSource1") \/ Do("drainSource2")
  /\ UNCHANGED <<journal, final, serverVars, proxyVars, historyVars, tx>>

\* drain() asks the source after the proxy, and both again until both say 0.
DrainSource ==
  /\ \E n \in {1, 2} :
       LET query == IF n = 1 THEN "drainSource1" ELSE "drainSource2"
           again == IF n = 1 THEN "drainProxy1" ELSE "drainProxy2"
       IN IF Active(10) = {} THEN Do(query)
          ELSE pc = query /\ timer # "late" /\ Goto(again) /\ UNCHANGED commands
  /\ UNCHANGED <<journal, final, serverVars, proxyVars, historyVars, tx>>

ReadFinal ==
  /\ Do("readFinal")
  /\ final' = Len(log)
  /\ UNCHANGED <<journal, serverVars, proxyVars, historyVars, tx>>

\* save(): the phase, and what source_fenced and promotion_intent add to it.
Save ==
  /\ pc \in Saves
  /\ Do(pc)
  /\ journal' = [journal EXCEPT !.phase = pc,
                   !.promo = @ \/ pc = "promotion_intent" \/ pc = "hold_after_promotion",
                   !.final = IF pc = "source_fenced" THEN final ELSE @]
  /\ UNCHANGED <<final, serverVars, proxyVars, historyVars, tx>>

\* SET PERSIST super_read_only=ON; ... super_read_only=OFF; ... read_only=OFF.
SetFlags ==
  /\ \/ /\ Do("fenceTarget") \/ Do("refence")
        /\ tgt' = "fenced"
        /\ UNCHANGED src
     \/ /\ Do("fenceSource")
        /\ src' = "fenced"
        /\ UNCHANGED tgt
     \/ /\ Do("unfence")
        /\ tgt' = IF tgt = "fenced" THEN "ro" ELSE tgt
        /\ UNCHANGED src
     \/ /\ Do("openTarget")
        /\ tgt' = "open"
        /\ UNCHANGED src
     \/ /\ Do("unfenceSource")
        /\ src' = IF src = "fenced" THEN "ro" ELSE src
        /\ UNCHANGED tgt
     \/ /\ Do("openSource")
        /\ src' = "open"
        /\ UNCHANGED tgt
  /\ UNCHANGED <<journal, final, foreign, replica, proxyVars, historyVars, tx>>

SetReplica ==
  /\ \/ Do("stopReplica") /\ replica' = "stopped"
     \/ Do("startReplica") /\ replica' \in {"running", "broken"}
  /\ UNCHANGED <<journal, final, src, tgt, foreign, proxyVars, historyVars, tx>>

SetServers ==
  /\ \/ /\ Do("shutV2") \/ Do("holdV2")
        /\ hg20' = "SOFT"
        /\ UNCHANGED hg10
     \/ /\ Do("openV2")
        /\ hg20' = "ONLINE"
        /\ UNCHANGED hg10
     \/ /\ Do("shutV1")
        /\ hg10' = "SOFT"
        /\ UNCHANGED hg20
     \/ /\ Do("closeV1")
        /\ hg10' = "HARD"
        /\ UNCHANGED hg20
     \/ /\ Do("openV1")
        /\ hg10' = "ONLINE"
        /\ UNCHANGED hg20
  /\ UNCHANGED <<journal, final, serverVars, rule, default, historyVars, tx>>

\* route(20) finds the rule addRule inserted; it already names hostgroup 20.
SetRoutes ==
  /\ \/ /\ Do("addRule")
        /\ rule' = TRUE
        /\ UNCHANGED default
     \/ /\ rule
        /\ Do("route20")
        /\ UNCHANGED <<rule, default>>
     \/ /\ Do("dropRule")
        /\ rule' = FALSE
        /\ UNCHANGED default
     \/ /\ Do("default20")
        /\ default' = 20
        /\ UNCHANGED rule
     \/ /\ Do("default10")
        /\ default' = 10
        /\ UNCHANGED rule
  /\ UNCHANGED <<journal, final, serverVars, hg10, hg20, historyVars, tx>>

-----------------------------------------------------------------------------
(* Exceptions, the deadline and kills.                                      *)

Raise(to) ==
  /\ Goto(to)
  /\ UNCHANGED <<journal, final, commands, serverVars, proxyVars, historyVars, tx>>

\* A command fails, times out or is interrupted by SIGTERM.  Before save()
\* has updated the state in memory, cutover() still takes the way back.
Interrupted ==
  /\ pc # "idle"
  /\ \/ Raise(Handler(pc))
     \/ pc = "promotion_intent" /\ Raise("refence")

\* A require() fails.  Only drain() goes on asking.
Refused ==
  /\ pc \in Steps \ {"drainProxy1", "drainProxy2"}
  /\ ~Requirement(pc)
  /\ Raise(Handler(pc))

\* Faulty: drain() does not look at the deadline.
PastDeadlineDrainsOn ==
  /\ timer = "late"
  /\ pc \in Steps \ (Saves \union {"drainProxy1", "drainSource1", "drainProxy2", "drainSource2"})
  /\ Raise(Handler(pc))

PastDeadline ==
  /\ timer = "late"
  /\ pc \in Steps \ Saves
  /\ Raise(Handler(pc))

DeadlinePasses ==
  /\ timer = "running"
  /\ timer' = "late"
  /\ UNCHANGED <<journal, pc, cmd, final, commands, serverVars, proxyVars, historyVars, tx>>

\* SIGKILL: no handler runs, and the lock file is free again.
Kill ==
  /\ pc # "idle"
  /\ Raise("idle")

-----------------------------------------------------------------------------

\* Check accepts a target that is writable and a V2 hostgroup that is online.
HandoffInit ==
  /\ journal = [phase |-> "none", promo |-> FALSE, own |-> 0, final |-> 0]
  /\ pc = "idle" /\ cmd = "none" /\ final = 0 /\ timer = "off" /\ commands = 0
  /\ src = "open" /\ tgt \in {"open", "fenced"}
  /\ log = <<>> /\ applied = 0 /\ own = <<>> /\ foreign = 0 /\ replica = "running"
  /\ hg10 = "ONLINE" /\ hg20 \in {"ONLINE", "SOFT"} /\ rule = FALSE /\ default = 10
  /\ tx = [t \in Txns |-> "idle"]
  /\ saw = [t \in Txns |-> {}]

Transaction(t) ==
  Arrive(t) \/ GetConnection(t) \/ CommitV1(t) \/ CommitV2(t) \/ Fail(t)

Environment == Apply \/ ReplicaBreaks \/ ForeignWrite \/ \E t \in Txns : Transaction(t)

Operator == Cutover \/ Abort \/ Finish

\* The steps a controller takes by itself.
Controller ==
  \/ Verify \/ DrainSource \/ ReadFinal \/ Save
  \/ SetFlags \/ SetReplica \/ SetServers \/ SetRoutes
  \/ Refused \/ PastDeadline

HandoffNext ==
  \/ Environment \/ Operator \/ Controller
  \/ Interrupted \/ DeadlinePasses \/ Kill

HandoffSpec == HandoffInit /\ [][HandoffNext]_handoffVars

\* The controller is one sequential process whose calls are all bounded by a
\* timeout, and its deadline passes.  Nothing else has to happen.
LiveHandoffSpec ==
  HandoffSpec /\ WF_handoffVars(Controller) /\ WF_handoffVars(DeadlinePasses)

-----------------------------------------------------------------------------
(* Properties.                                                              *)

\* Every variable has its type.
HandoffTypeOK ==
  /\ journal \in Journal
  /\ pc \in Steps \union {"idle"}
  /\ cmd \in {"none", "cutover", "abort", "finish"}
  /\ (cmd = "none") = (pc = "idle")
  /\ final \in Nat /\ commands \in 0..MaxCommands
  /\ timer \in {"off", "running", "late"}
  /\ {src, tgt} \subseteq {"open", "ro", "fenced"}
  /\ log \in Seq(Txns) /\ own \in Seq(Txns)
  /\ applied \in 0..Len(log)
  /\ foreign \in 0..1
  /\ replica \in {"running", "stopped", "broken"}
  /\ {hg10, hg20} \subseteq {"ONLINE", "SOFT", "HARD"}
  /\ rule \in BOOLEAN /\ default \in {10, 20}
  /\ tx \in [Txns -> {"idle", "wait10", "wait20", "in10", "in20", "committed", "failed"}]
  /\ saw \in [Txns -> SUBSET Txns]

\* The application sees one database: whatever fails, V2 commits nothing before
\* it holds all V1 committed, and V1 nothing after the target was opened.
Abs == INSTANCE OneDatabase WITH
  home <- IF journal.promo /\ tgt = "open" THEN "V2" ELSE "V1",
  place <- [t \in Txns |-> IF \E i \in 1..Len(log) : log[i] = t THEN "V1"
                           ELSE IF \E i \in 1..Len(own) : own[i] = t THEN "V2" ELSE "none"]
OneHistory == Abs!Spec

\* The intent on disk closes the way back: from then on V1 stays fenced, and
\* before it the target a run has fenced stays fenced.
ForwardOnly ==
  /\ journal.promo => src = "fenced"
  /\ ~journal.promo =>
       (journal.phase \in Saves \ {"hold_before_promotion"} => tgt = "fenced")

\* Commits the run did not expect in the target are never promoted: those there
\* when it becomes the writer are those of the preflight.
PromotedUntouched ==
  [][journal.promo /\ tgt # "open" /\ tgt' = "open" => OwnCommits = journal.own]_handoffVars

\* The fence of V1 cuts no transaction short, although drain() asks the proxy
\* and the source at different times while the routing changes.
FenceSparesTransactions ==
  [][src = "open" /\ src' = "fenced" => Active(10) = {}]_handoffVars

\* Whoever reads the journal while no controller runs can rely on its final
\* phases: after `aborted` V1 serves, after `switched` V2 alone does.
JournalTellsWriter ==
  pc = "idle" =>
    /\ journal.phase \in {"none", "aborted"} => V1Serves
    /\ journal.phase = "switched" =>
         /\ src = "fenced" /\ tgt = "open"
         /\ hg10 = "HARD" /\ hg20 = "ONLINE" /\ rule /\ default = 20

\* A command ends by itself: drain() waits for transactions that never end,
\* but only until the deadline.
CommandEnds == (pc # "idle") ~> (pc = "idle")
=============================================================================
