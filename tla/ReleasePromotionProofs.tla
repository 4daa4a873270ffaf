------------------------ MODULE ReleasePromotionProofs ------------------------
(***************************************************************************)
(* Proofs about ReleasePromotion, for any number of runs, any releases and *)
(* any images.  The types hold whoever is let in; everything else needs    *)
(* Exclusive, that is, the concurrency group of the workflow.              *)
(***************************************************************************)
EXTENDS ReleasePromotion, TLAPS

-----------------------------------------------------------------------------
(* Types. *)

\* A run under way has a release.
Selected == \A r \in Runs : pc[r] \notin {"start", "end"} => sel[r] \in Releases

TypeInv == ReleaseTypeOK /\ Selected

LEMMA TypeInit == Init => TypeInv
<1>1. ASSUME Init PROVE ReleaseTypeOK
  BY <1>1, PromotionAssumption
     DEF Init, ReleaseTypeOK, Where, Commands, Services
<1>2. ASSUME Init PROVE Selected
  BY <1>2 DEF Init, Selected
<1>3. QED
  BY <1>1, <1>2 DEF TypeInv

\* The image a run wants for the service in hand.
LEMMA GoalType ==
  ASSUME TypeInv, NEW r \in Runs, pc[r] \notin {"start", "end"}
  PROVE  Goal(r) \in Images
<1>1. sel[r] \in Releases /\ now[r] \in Services /\ base[r] \in [Services -> Images]
  BY DEF TypeInv, Selected, ReleaseTypeOK
<1>2. QED
  BY <1>1, PromotionAssumption DEF Goal

\* One step of a run that touches only its own bookkeeping and the journal.
LEMMA TypeStart ==
  ASSUME TypeInv, NEW r \in Runs, Start(r) \/ StartRollback(r)
  PROVE  TypeInv'
<1>1. PICK m \in Releases : sel' = [sel EXCEPT ![r] = m]
  BY DEF Start, StartRollback, TypeInv, ReleaseTypeOK
<1>2. pc' = [pc EXCEPT ![r] = "check"]
  BY DEF Start, StartRollback, Goto
<1>3. UNCHANGED <<journalVars, ecsVars, hostVars, old, base, workVars>>
  BY DEF Start, StartRollback
<1>4. QED
  BY <1>1, <1>2, <1>3
     DEF TypeInv, Selected, ReleaseTypeOK, Where, journalVars, ecsVars, hostVars, workVars

LEMMA TypeRun ==
  ASSUME TypeInv, NEW r \in Runs, Advance(r) \/ Die(r)
  PROVE  TypeInv'
<1> USE PromotionAssumption
        DEF TypeInv, Selected, ReleaseTypeOK, Where, Commands, Services, Goto,
            journalVars, ecsVars, hostVars, planVars, workVars
<1>1. CASE Check(r)
  BY <1>1 DEF Check
<1>2. CASE Snapshot(r)
  <2>1. \A s : s \in {x \in Services : running[x] # Manifest[sel[r]][x]} => s \in Services
    OBVIOUS
  <2>2. PICK d \in SUBSET {"frontend"} :
          todo' = [todo EXCEPT ![r] = d \cup
                     {s \in Services : running[s] # Manifest[sel[r]][s]}]
    BY <1>2 DEF Snapshot
  <2>3. d \cup {s \in Services : running[s] # Manifest[sel[r]][s]} \subseteq Services
    BY <2>2
  <2>4. todo' \in [Runs -> SUBSET Services]
    BY <2>2, <2>3
  <2>5. base' \in [Runs -> [Services -> Images]]
    BY <1>2 DEF Snapshot
  <2>6. QED
    BY SMTT(30), <1>2, <2>4, <2>5 DEF Snapshot
<1>3. CASE InspectRunner(r)
  BY <1>3 DEF InspectRunner
<1>4. CASE Refuse(r)
  BY <1>4 DEF Refuse
<1>5. CASE OpenJournal(r)
  BY <1>5 DEF OpenJournal
<1>6. CASE PickNext(r)
  BY <1>6 DEF PickNext
<1>7. CASE PickRestore(r)
  <2>1. PICK s \in todo[r] : now' = [now EXCEPT ![r] = s]
    BY <1>7 DEF PickRestore
  <2>2. s \in Services /\ now' \in [Runs -> Services]
    BY <2>1
  <2>3. QED
    BY <1>7, <2>2 DEF PickRestore
<1>8. CASE PickNone(r)
  BY <1>8 DEF PickNone
<1>9. CASE UpdateService(r)
  BY <1>9, GoalType DEF UpdateService
<1>10. CASE RolledOut(r)
  <2>1. todo' \in [Runs -> SUBSET Services] /\ pc' \in [Runs -> Where]
    <3>1. CASE now[r] = "ai-app"
      BY <1>10, <3>1 DEF RolledOut
    <3>2. CASE now[r] # "ai-app"
      <4>1. todo' = [todo EXCEPT ![r] = todo[r] \ {now[r]}] /\ pc' = [pc EXCEPT ![r] = "pick"]
        BY <1>10, <3>2 DEF RolledOut
      <4>2. todo[r] \ {now[r]} \subseteq Services
        OBVIOUS
      <4>3. QED
        BY <4>1, <4>2
    <3>3. QED
      BY <3>1, <3>2
  <2>2. pc'[r] \in {"send", "pick"} /\ \A q \in Runs : q # r => pc'[q] = pc[q]
    BY <1>10 DEF RolledOut
  <2>3. QED
    BY <1>10, <2>1, <2>2 DEF RolledOut
<1>11. CASE SendCommand(r)
  <2>1. Goal(r) \in Images
    BY <1>11, GoalType DEF SendCommand
  <2>2. inflight' \subseteq Commands
    BY <1>11, <2>1 DEF SendCommand
  <2>3. reply' \in [Runs -> {"none", "success", "failed"}]
    BY <1>11 DEF SendCommand
  <2>4. QED
    BY <1>11, <2>2, <2>3 DEF SendCommand
<1>12. CASE RunnerDeployed(r)
  BY <1>12 DEF RunnerDeployed
<1>13. CASE AttestServices(r)
  BY <1>13 DEF AttestServices
<1>14. CASE AttestRunner(r)
  BY <1>14 DEF AttestRunner
<1>15. CASE RaiseForward(r)
  BY <1>15 DEF RaiseForward
<1>16. CASE UnknownForward(r)
  BY <1>16 DEF UnknownForward
<1>17. CASE RestoreError(r)
  BY <1>17 DEF RestoreError
<1>18. CASE VerifyRestored(r)
  BY ZenonT(60), <1>18 DEF VerifyRestored
<1>19. CASE VerifyRunner(r)
  BY <1>19 DEF VerifyRunner
<1>20. CASE CloseJournal(r)
  BY <1>20 DEF CloseJournal
<1>21. CASE SavePrevious(r)
  <2>1. previous' \in Releases \cup {None}
    BY <1>21 DEF SavePrevious
  <2>2. pc' \in [Runs -> Where] /\ Selected'
    BY <1>21 DEF SavePrevious
  <2>3. QED
    BY <1>21, <2>1, <2>2 DEF SavePrevious
<1>22. CASE SaveLast(r)
  <2>1. sel[r] \in Releases
    BY <1>22 DEF SaveLast
  <2>2. last' \in Releases \cup {None} /\ attested' \in Seq(Releases)
    BY <1>22, <2>1 DEF SaveLast
  <2>3. pc' \in [Runs -> Where] /\ Selected'
    BY <1>22 DEF SaveLast
  <2>4. QED
    BY <1>22, <2>2, <2>3 DEF SaveLast
<1>23. CASE Finish(r)
  BY <1>23 DEF Finish
<1>24. CASE Die(r)
  BY <1>24 DEF Die
<1>25. QED
  BY <1>1, <1>2, <1>3, <1>4, <1>5, <1>6, <1>7, <1>8, <1>9, <1>10, <1>11, <1>12, <1>13,
       <1>14, <1>15, <1>16, <1>17, <1>18, <1>19, <1>20, <1>21, <1>22, <1>23, <1>24 DEF
       Advance

LEMMA TypeWorld ==
  ASSUME TypeInv, Ecs \/ Host
  PROVE  TypeInv'
<1> USE DEF TypeInv, Selected, ReleaseTypeOK, Where, Commands, Services,
            journalVars, ecsVars, hostVars, planVars, workVars
<1>1. ASSUME NEW s \in Services, RolloutCompletes(s) \/ BreakerRollsBack(s) PROVE TypeInv'
  <2>1. target \in [Services -> Images] /\ running \in [Services -> Images]
    OBVIOUS
  <2> HIDE DEF TypeInv, Services
  <2>3. /\ target' = [target EXCEPT ![s] = running[s]] \/ target' = target
        /\ running' = [running EXCEPT ![s] = target[s]] \/ running' = running
    BY <1>1 DEF RolloutCompletes, BreakerRollsBack
  <2>4. target' \in [Services -> Images] /\ running' \in [Services -> Images]
    BY <2>1, <2>3
  <2>5. QED
    BY <1>1, <2>4 DEF RolloutCompletes, BreakerRollsBack, TypeInv
<1>2. ASSUME NEW c \in inflight,
             \/ HostStart(c) \/ HostOverride(c) \/ HostUp(c)
             \/ HostSucceeds(c) \/ HostFails(c) \/ HostDrops(c)
      PROVE  TypeInv'
  <2> USE <1>2
  <2>1. CASE HostStart(c)
    BY <2>1 DEF HostStart
  <2>2. CASE HostOverride(c)
    BY <2>2 DEF HostOverride
  <2>3. CASE HostUp(c)
    BY <2>3 DEF HostUp
  <2>4. CASE HostSucceeds(c)
    BY <2>4 DEF HostSucceeds
  <2>5. CASE HostFails(c)
    BY <2>5 DEF HostFails
  <2>6. CASE HostDrops(c)
    BY <2>6 DEF HostDrops
  <2>7. QED
    BY <2>1, <2>2, <2>3, <2>4, <2>5, <2>6
<1>3. QED
  BY <1>1, <1>2 DEF Ecs, Host

LEMMA TypeStep ==
  ASSUME TypeInv, [Next]_promotionVars
  PROVE  TypeInv'
<1>1. CASE Next
  BY <1>1, TypeStart, TypeRun, TypeWorld DEF Next
<1>2. CASE UNCHANGED promotionVars
  BY <1>2 DEF promotionVars, journalVars, ecsVars, hostVars, planVars, workVars,
              TypeInv, Selected, ReleaseTypeOK, Where, Commands
<1>3. QED
  BY <1>1, <1>2

\* Every variable of the promotion keeps its type, whoever is let in.
THEOREM TypesKept == PromotionSpec => []ReleaseTypeOK
<1>1. TypeInv => ReleaseTypeOK
  BY DEF TypeInv
<1>2. QED
  BY <1>1, TypeInit, TypeStep, PTL DEF PromotionSpec

-----------------------------------------------------------------------------
(* The inductive invariant.  Local(r) is about the run r, and says nothing of a run    *)
(* that is not under way; since one run at a time is let in, a step of r leaves the    *)
(* others' part alone.                                                                 *)

Busy(r) == pc[r] \notin {"start", "end"}
OneRun == \A r, q \in Runs : Busy(r) /\ Busy(q) => r = q

Finalizing == {"previous", "last", "finish"}
Deploying == {"pick", "update", "await", "send", "poll", "attest", "attestRunner",
              "verify", "verifyRunner", "close"} \cup Finalizing

\* The journal is this run's from `open` on, and lets a run in until then.
Claimed(r) ==
  /\ pc[r] \in Deploying => active = [status |-> "deploying", run |-> r]
  /\ pc[r] \in {"snapshot", "inspect", "open"} => Accepting(active.status)

\* A command of the host is the one waited for, or the run will end in recovery_required.
Commanded(r) ==
  pc[r] \in Deploying /\ inflight # {} =>
    \/ pc[r] = "poll" /\ reply[r] = "none" /\ \A c, d \in inflight : c = d /\ c.run = r
    \/ errs[r] /\ pc[r] \in {"verify", "verifyRunner", "close"}
    \/ errs[r] /\ pc[r] = "pick" /\ back[r] /\ todo[r] = {}

\* While restoring, the runner's service comes last.
InHand(r) ==
  pc[r] \in {"update", "await", "send", "poll"} =>
    /\ now[r] \in todo[r]
    /\ back[r] => Turn(now[r], todo[r], TRUE)
    /\ pc[r] \in {"send", "poll"} => now[r] = "ai-app"

\* What the run compares with is what last-success says, until it writes it itself.
Anchored(r) ==
  /\ pc[r] \in {"snapshot", "inspect", "open"} \cup (Deploying \ {"finish"}) => last = old[r]
  /\ pc[r] \in {"inspect", "open"} \cup Deploying => (old[r] # None => base[r] = Manifest[old[r]])
  /\ pc[r] = "finish" => last = sel[r]

AllRun(images) == target = images /\ running = images
RunnerHas(image) == configured = image /\ runner = image

\* What was attested, or found restored, stays so.
Attested(r) ==
  /\ pc[r] \in {"attestRunner"} \cup Finalizing => AllRun(Manifest[sel[r]])
  /\ pc[r] \in Finalizing => RunnerHas(Manifest[sel[r]]["ai-app"])
  /\ pc[r] \in {"verifyRunner", "close"} /\ ~errs[r] => AllRun(base[r])
  /\ pc[r] = "close" /\ ~errs[r] => RunnerHas(base[r]["ai-app"])

\* The last two releases of the history are last-success and previous-success.
HeadIsLast ==
  /\ last = None => attested = <<>>
  /\ last # None => Len(attested) >= 1 /\ Manifest[last] = Manifest[attested[Len(attested)]]
PreviousBefore ==
  previous # None =>
    Len(attested) >= 2 /\ Manifest[previous] = Manifest[attested[Len(attested) - 1]]
Recorded(r) ==
  /\ pc[r] \in Deploying => HeadIsLast
  /\ pc[r] \in Deploying \ {"last"} => PreviousBefore
  /\ pc[r] = "last" => IF old[r] # None /\ Manifest[old[r]] # Manifest[sel[r]]
                        THEN previous = old[r] ELSE PreviousBefore

Local(r) ==
  Claimed(r) /\ Commanded(r) /\ InHand(r) /\ Anchored(r) /\ Attested(r) /\ Recorded(r)

Whole == Accepting(active.status) =>
  /\ inflight = {}
  /\ last # None => AllRun(Manifest[last]) /\ RunnerHas(Manifest[last]["ai-app"])
  /\ HeadIsLast /\ PreviousBefore

Inv == TypeInv /\ OneRun /\ Whole /\ \A r \in Runs : Local(r)

LEMMA InvInit == Init => Inv
<1> SUFFICES ASSUME Init PROVE Inv
  OBVIOUS
<1>1. TypeInv
  BY TypeInit
<1>2. OneRun
  BY DEF Init, OneRun, Busy
<1>3. \A r \in Runs : pc[r] = "start"
  BY DEF Init
<1>4. \A r \in Runs : Local(r)
  BY <1>3 DEF Local, Claimed, Commanded, InHand, Anchored, Attested, Recorded, Deploying,
       Finalizing
<1>5. HeadIsLast /\ PreviousBefore
  BY PromotionAssumption DEF Init, HeadIsLast, PreviousBefore
<1>6. last # None => AllRun(Manifest[last]) /\ RunnerHas(Manifest[last]["ai-app"])
  BY DEF Init, AllRun, RunnerHas
<1>7. Whole
  BY <1>5, <1>6 DEF Init, Whole
<1>8. QED
  BY <1>1, <1>2, <1>4, <1>7 DEF Inv

\* A run that is not under way owes nothing.
LEMMA IdleLocal ==
  ASSUME NEW r \in Runs, pc'[r] \in {"start", "end"}
  PROVE  Local(r)'
BY DEF Local, Claimed, Commanded, InHand, Anchored, Attested, Recorded, Deploying,
     Finalizing

\* The step of the only run there is.
LEMMA Alone ==
  ASSUME Inv, TypeInv', NEW r \in Runs, Busy(r), NEW w \in Where,
         pc' = [pc EXCEPT ![r] = w], Whole', w # "end" => Local(r)'
  PROVE  Inv'
<1>1. pc \in [Runs -> Where]
  BY DEF Inv, TypeInv, ReleaseTypeOK
<1>2. \A q \in Runs : q # r => pc'[q] \in {"start", "end"}
  BY <1>1 DEF Inv, OneRun, Busy
<1>3. \A q \in Runs : q # r => Local(q)'
  BY <1>2, IdleLocal
<1>4. pc'[r] = w
  BY <1>1
<1>5. Local(r)'
  BY <1>4, IdleLocal
<1>6. OneRun'
  BY <1>2 DEF OneRun, Busy
<1>7. QED
  BY <1>3, <1>5, <1>6 DEF Inv

LEMMA RunStep ==
  ASSUME Inv, TypeInv', NEW r \in Runs, Advance(r) \/ Die(r)
  PROVE  Inv'
<1> USE DEF journalVars, ecsVars, hostVars, planVars, workVars, Goto,
            Deploying, Finalizing, Where
<1>a. TypeInv /\ Local(r) /\ Whole /\ pc \in [Runs -> Where]
  BY DEF Inv, TypeInv, ReleaseTypeOK
<1>b. pc[r] \in Deploying => ~Accepting(active.status)
  BY <1>a DEF Local, Claimed, Accepting
<1>1. ASSUME Check(r) PROVE Inv'
  <2>1. Busy(r)
    BY <1>1 DEF Check, Busy
  <2>2. Whole'
    BY <1>1, <1>a, <1>b DEF Check, Whole, HeadIsLast, PreviousBefore, AllRun, RunnerHas
  <2>3. pc' = [pc EXCEPT ![r] = "snapshot"] /\ pc'[r] = ("snapshot") /\ ("snapshot") \in Where
    BY <1>1, <1>a DEF Check
  <2>4. Claimed(r)'
    BY <1>1, <1>a, <2>3 DEF Check, Local, Claimed, TypeInv, ReleaseTypeOK
  <2>5. Commanded(r)'
    BY <1>1, <1>a, <2>3 DEF Check, Local, Commanded, TypeInv, ReleaseTypeOK
  <2>6. InHand(r)'
    BY <1>1, <1>a, <2>3 DEF Check, Local, InHand, Turn, TypeInv, ReleaseTypeOK
  <2>7. Anchored(r)'
    BY <1>1, <1>a, <2>3 DEF Check, Local, Anchored, TypeInv, ReleaseTypeOK
  <2>8. Attested(r)'
    BY <1>1, <1>a, <2>3 DEF Check, Local, Attested, AllRun, RunnerHas, TypeInv,
         ReleaseTypeOK
  <2>9. Recorded(r)'
    BY <1>1, <1>a, <2>3 DEF Check, Local, Recorded, HeadIsLast, PreviousBefore, TypeInv,
         ReleaseTypeOK
  <2>10. Local(r)'
    BY <2>4, <2>5, <2>6, <2>7, <2>8, <2>9 DEF Local
  <2>11. QED
    BY <2>1, <2>2, <2>3, <2>10, Alone
<1>2. ASSUME Snapshot(r) PROVE Inv'
  <2>1. Busy(r)
    BY <1>2 DEF Snapshot, Busy
  <2>2. Whole'
    BY <1>2, <1>a, <1>b DEF Snapshot, Whole, HeadIsLast, PreviousBefore, AllRun, RunnerHas
  <2>3. pc' = [pc EXCEPT ![r] = "inspect"] /\ pc'[r] = ("inspect") /\ ("inspect") \in Where
    BY <1>2, <1>a DEF Snapshot
  <2>4. Claimed(r)'
    BY <1>2, <1>a, <2>3 DEF Snapshot, Local, Claimed, TypeInv, ReleaseTypeOK
  <2>5. Commanded(r)'
    BY <1>2, <1>a, <2>3 DEF Snapshot, Local, Commanded, TypeInv, ReleaseTypeOK
  <2>6. InHand(r)'
    BY <1>2, <1>a, <2>3 DEF Snapshot, Local, InHand, Turn, TypeInv, ReleaseTypeOK
  <2>7. Anchored(r)'
    BY <1>2, <1>a, <2>3 DEF Snapshot, Local, Anchored, TypeInv, ReleaseTypeOK
  <2>8. Attested(r)'
    BY <1>2, <1>a, <2>3 DEF Snapshot, Local, Attested, AllRun, RunnerHas, TypeInv,
         ReleaseTypeOK
  <2>9. Recorded(r)'
    BY <1>2, <1>a, <2>3 DEF Snapshot, Local, Recorded, HeadIsLast, PreviousBefore, TypeInv,
         ReleaseTypeOK
  <2>10. Local(r)'
    BY <2>4, <2>5, <2>6, <2>7, <2>8, <2>9 DEF Local
  <2>11. QED
    BY <2>1, <2>2, <2>3, <2>10, Alone
<1>3. ASSUME InspectRunner(r) PROVE Inv'
  <2>1. Busy(r)
    BY <1>3 DEF InspectRunner, Busy
  <2>2. Whole'
    BY <1>3, <1>a, <1>b DEF InspectRunner, Whole, HeadIsLast, PreviousBefore, AllRun,
         RunnerHas
  <2>3. pc' = [pc EXCEPT ![r] = "open"] /\ pc'[r] = ("open") /\ ("open") \in Where
    BY <1>3, <1>a DEF InspectRunner
  <2>4. Claimed(r)'
    BY <1>3, <1>a, <2>3 DEF InspectRunner, Local, Claimed, TypeInv, ReleaseTypeOK
  <2>5. Commanded(r)'
    BY <1>3, <1>a, <2>3 DEF InspectRunner, Local, Commanded, TypeInv, ReleaseTypeOK
  <2>6. InHand(r)'
    BY <1>3, <1>a, <2>3 DEF InspectRunner, Local, InHand, Turn, TypeInv, ReleaseTypeOK
  <2>7. Anchored(r)'
    BY <1>3, <1>a, <2>3 DEF InspectRunner, Local, Anchored, TypeInv, ReleaseTypeOK
  <2>8. Attested(r)'
    BY <1>3, <1>a, <2>3 DEF InspectRunner, Local, Attested, AllRun, RunnerHas, TypeInv,
         ReleaseTypeOK
  <2>9. Recorded(r)'
    BY <1>3, <1>a, <2>3 DEF InspectRunner, Local, Recorded, HeadIsLast, PreviousBefore,
         TypeInv, ReleaseTypeOK
  <2>10. Local(r)'
    BY <2>4, <2>5, <2>6, <2>7, <2>8, <2>9 DEF Local
  <2>11. QED
    BY <2>1, <2>2, <2>3, <2>10, Alone
<1>4. ASSUME Refuse(r) PROVE Inv'
  <2>1. Busy(r)
    BY <1>4 DEF Refuse, Busy
  <2>2. Whole'
    BY <1>4, <1>a, <1>b DEF Refuse, Whole, HeadIsLast, PreviousBefore, AllRun, RunnerHas
  <2>3. pc' = [pc EXCEPT ![r] = "end"]
    BY <1>4 DEF Refuse
  <2>4. QED
    BY <2>1, <2>2, <2>3, Alone
<1>5. ASSUME OpenJournal(r) PROVE Inv'
  <2>1. Busy(r)
    BY <1>5 DEF OpenJournal, Busy
  <2>2. Whole'
    BY <1>5, <1>a, <1>b DEF OpenJournal, Accepting, Whole, HeadIsLast, PreviousBefore,
         AllRun, RunnerHas
  <2>3. pc' = [pc EXCEPT ![r] = "pick"] /\ pc'[r] = ("pick") /\ ("pick") \in Where
    BY <1>5, <1>a DEF OpenJournal
  <2>4. Claimed(r)'
    BY <1>5, <1>a, <2>3 DEF OpenJournal, Local, Claimed, TypeInv, ReleaseTypeOK
  <2>5. Commanded(r)'
    BY <1>5, <1>a, <2>3 DEF OpenJournal, Local, Claimed, Whole, Commanded, TypeInv,
         ReleaseTypeOK
  <2>6. InHand(r)'
    BY <1>5, <1>a, <2>3 DEF OpenJournal, Local, InHand, Turn, TypeInv, ReleaseTypeOK
  <2>7. Anchored(r)'
    BY <1>5, <1>a, <2>3 DEF OpenJournal, Local, Anchored, TypeInv, ReleaseTypeOK
  <2>8. Attested(r)'
    BY <1>5, <1>a, <2>3 DEF OpenJournal, Local, Attested, AllRun, RunnerHas, TypeInv,
         ReleaseTypeOK
  <2>9. Recorded(r)'
    BY <1>5, <1>a, <2>3 DEF OpenJournal, Local, Claimed, Whole, Recorded, HeadIsLast,
         PreviousBefore, TypeInv, ReleaseTypeOK
  <2>10. Local(r)'
    BY <2>4, <2>5, <2>6, <2>7, <2>8, <2>9 DEF Local
  <2>11. QED
    BY <2>1, <2>2, <2>3, <2>10, Alone
<1>6. ASSUME PickNext(r) PROVE Inv'
  <2>1. Busy(r)
    BY <1>6 DEF PickNext, Busy
  <2>2. Whole'
    BY <1>6, <1>a, <1>b DEF PickNext, Accepting, Whole, HeadIsLast, PreviousBefore, AllRun,
         RunnerHas
  <2>3. pc' = [pc EXCEPT ![r] = "update"] /\ pc'[r] = ("update") /\ ("update") \in Where
    BY <1>6, <1>a DEF PickNext
  <2>4. Claimed(r)'
    BY <1>6, <1>a, <2>3 DEF PickNext, Local, Claimed, TypeInv, ReleaseTypeOK
  <2>5. Commanded(r)'
    BY <1>6, <1>a, <2>3 DEF PickNext, Local, Commanded, TypeInv, ReleaseTypeOK
  <2>6. InHand(r)'
    BY <1>6, <1>a, <2>3 DEF PickNext, Local, InHand, Turn, TypeInv, ReleaseTypeOK
  <2>7. Anchored(r)'
    BY <1>6, <1>a, <2>3 DEF PickNext, Local, Anchored, TypeInv, ReleaseTypeOK
  <2>8. Attested(r)'
    BY <1>6, <1>a, <2>3 DEF PickNext, Local, Attested, AllRun, RunnerHas, TypeInv,
         ReleaseTypeOK
  <2>9. Recorded(r)'
    BY <1>6, <1>a, <2>3 DEF PickNext, Local, Recorded, HeadIsLast, PreviousBefore, TypeInv,
         ReleaseTypeOK
  <2>10. Local(r)'
    BY <2>4, <2>5, <2>6, <2>7, <2>8, <2>9 DEF Local
  <2>11. QED
    BY <2>1, <2>2, <2>3, <2>10, Alone
<1>7. ASSUME PickRestore(r) PROVE Inv'
  <2>1. Busy(r)
    BY <1>7 DEF PickRestore, Busy
  <2>2. Whole'
    BY <1>7, <1>a, <1>b DEF PickRestore, Whole, HeadIsLast, PreviousBefore, AllRun,
         RunnerHas
  <2>3. pc' = [pc EXCEPT ![r] = "update"] /\ pc'[r] = ("update") /\ ("update") \in Where
    BY <1>7, <1>a DEF PickRestore
  <2>4. Claimed(r)'
    BY <1>7, <1>a, <2>3 DEF PickRestore, Local, Claimed, TypeInv, ReleaseTypeOK
  <2>5. Commanded(r)'
    BY <1>7, <1>a, <2>3 DEF PickRestore, Local, Commanded, TypeInv, ReleaseTypeOK
  <2>6. InHand(r)'
    BY <1>7, <1>a, <2>3 DEF PickRestore, Local, InHand, Turn, TypeInv, ReleaseTypeOK
  <2>7. Anchored(r)'
    BY <1>7, <1>a, <2>3 DEF PickRestore, Local, Anchored, TypeInv, ReleaseTypeOK
  <2>8. Attested(r)'
    BY <1>7, <1>a, <2>3 DEF PickRestore, Local, Attested, AllRun, RunnerHas, TypeInv,
         ReleaseTypeOK
  <2>9. Recorded(r)'
    BY <1>7, <1>a, <2>3 DEF PickRestore, Local, Recorded, HeadIsLast, PreviousBefore,
         TypeInv, ReleaseTypeOK
  <2>10. Local(r)'
    BY <2>4, <2>5, <2>6, <2>7, <2>8, <2>9 DEF Local
  <2>11. QED
    BY <2>1, <2>2, <2>3, <2>10, Alone
<1>8. ASSUME PickNone(r) PROVE Inv'
  <2>1. Busy(r)
    BY <1>8 DEF PickNone, Busy
  <2>2. Whole'
    BY <1>8, <1>a, <1>b DEF PickNone, Whole, HeadIsLast, PreviousBefore, AllRun, RunnerHas
  <2>3. pc' = [pc EXCEPT ![r] = IF back[r] THEN "verify" ELSE "attest"] /\ pc'[r] = (IF back[r] THEN "verify" ELSE "attest") /\ (IF back[r] THEN "verify" ELSE "attest") \in Where
    BY <1>8, <1>a DEF PickNone
  <2>4. Claimed(r)'
    BY <1>8, <1>a, <2>3 DEF PickNone, Local, Claimed, TypeInv, ReleaseTypeOK
  <2>5. Commanded(r)'
    BY <1>8, <1>a, <2>3 DEF PickNone, Local, Commanded, TypeInv, ReleaseTypeOK
  <2>6. InHand(r)'
    BY <1>8, <1>a, <2>3 DEF PickNone, Local, InHand, Turn, TypeInv, ReleaseTypeOK
  <2>7. Anchored(r)'
    BY <1>8, <1>a, <2>3 DEF PickNone, Local, Anchored, TypeInv, ReleaseTypeOK
  <2>8. Attested(r)'
    BY <1>8, <1>a, <2>3 DEF PickNone, Local, Attested, AllRun, RunnerHas, TypeInv,
         ReleaseTypeOK
  <2>9. Recorded(r)'
    BY <1>8, <1>a, <2>3 DEF PickNone, Local, Recorded, HeadIsLast, PreviousBefore, TypeInv,
         ReleaseTypeOK
  <2>10. Local(r)'
    BY <2>4, <2>5, <2>6, <2>7, <2>8, <2>9 DEF Local
  <2>11. QED
    BY <2>1, <2>2, <2>3, <2>10, Alone
<1>9. ASSUME UpdateService(r) PROVE Inv'
  <2>1. Busy(r)
    BY <1>9 DEF UpdateService, Busy
  <2>2. Whole'
    BY <1>9, <1>a, <1>b DEF UpdateService, Whole, HeadIsLast, PreviousBefore, AllRun,
         RunnerHas
  <2>3. pc' = [pc EXCEPT ![r] = "await"] /\ pc'[r] = ("await") /\ ("await") \in Where
    BY <1>9, <1>a DEF UpdateService
  <2>4. Claimed(r)'
    BY <1>9, <1>a, <2>3 DEF UpdateService, Local, Claimed, TypeInv, ReleaseTypeOK
  <2>5. Commanded(r)'
    BY <1>9, <1>a, <2>3 DEF UpdateService, Local, Commanded, TypeInv, ReleaseTypeOK
  <2>6. InHand(r)'
    BY <1>9, <1>a, <2>3 DEF UpdateService, Local, InHand, Turn, TypeInv, ReleaseTypeOK
  <2>7. Anchored(r)'
    BY <1>9, <1>a, <2>3 DEF UpdateService, Local, Anchored, TypeInv, ReleaseTypeOK
  <2>8. Attested(r)'
    BY <1>9, <1>a, <2>3 DEF UpdateService, Local, Attested, AllRun, RunnerHas, TypeInv,
         ReleaseTypeOK
  <2>9. Recorded(r)'
    BY <1>9, <1>a, <2>3 DEF UpdateService, Local, Recorded, HeadIsLast, PreviousBefore,
         TypeInv, ReleaseTypeOK
  <2>10. Local(r)'
    BY <2>4, <2>5, <2>6, <2>7, <2>8, <2>9 DEF Local
  <2>11. QED
    BY <2>1, <2>2, <2>3, <2>10, Alone
<1>10. ASSUME RolledOut(r) PROVE Inv'
  <2>1. Busy(r)
    BY <1>10 DEF RolledOut, Busy
  <2>2. Whole'
    BY <1>10, <1>a, <1>b DEF RolledOut, Whole, HeadIsLast, PreviousBefore, AllRun, RunnerHas
  <2>3. pc' = [pc EXCEPT ![r] = pc'[r]] /\ pc'[r] = (pc'[r]) /\ (pc'[r]) \in Where
    BY <1>10, <1>a DEF RolledOut
  <2>4. Claimed(r)'
    BY <1>10, <1>a, <2>3 DEF RolledOut, Local, Claimed, TypeInv, ReleaseTypeOK
  <2>5. Commanded(r)'
    BY <1>10, <1>a, <2>3 DEF RolledOut, Local, Commanded, TypeInv, ReleaseTypeOK
  <2>6. InHand(r)'
    BY <1>10, <1>a, <2>3 DEF RolledOut, Local, InHand, Turn, TypeInv, ReleaseTypeOK
  <2>7. Anchored(r)'
    BY <1>10, <1>a, <2>3 DEF RolledOut, Local, Anchored, TypeInv, ReleaseTypeOK
  <2>8. Attested(r)'
    BY <1>10, <1>a, <2>3 DEF RolledOut, Local, Attested, AllRun, RunnerHas, TypeInv,
         ReleaseTypeOK
  <2>9. Recorded(r)'
    BY <1>10, <1>a, <2>3 DEF RolledOut, Local, Recorded, HeadIsLast, PreviousBefore,
         TypeInv, ReleaseTypeOK
  <2>10. Local(r)'
    BY <2>4, <2>5, <2>6, <2>7, <2>8, <2>9 DEF Local
  <2>11. QED
    BY <2>1, <2>2, <2>3, <2>10, Alone
<1>11. ASSUME SendCommand(r) PROVE Inv'
  <2>1. Busy(r)
    BY <1>11 DEF SendCommand, Busy
  <2>2. Whole'
    BY <1>11, <1>a, <1>b DEF SendCommand, Whole, HeadIsLast, PreviousBefore, AllRun,
         RunnerHas
  <2>3. pc' = [pc EXCEPT ![r] = "poll"] /\ pc'[r] = ("poll") /\ ("poll") \in Where
    BY <1>11, <1>a DEF SendCommand
  <2>4. Claimed(r)'
    BY <1>11, <1>a, <2>3 DEF SendCommand, Local, Claimed, TypeInv, ReleaseTypeOK
  <2>5. Commanded(r)'
    BY <1>11, <1>a, <2>3 DEF SendCommand, Local, Commanded, TypeInv, ReleaseTypeOK
  <2>6. InHand(r)'
    BY <1>11, <1>a, <2>3 DEF SendCommand, Local, InHand, Turn, TypeInv, ReleaseTypeOK
  <2>7. Anchored(r)'
    BY <1>11, <1>a, <2>3 DEF SendCommand, Local, Anchored, TypeInv, ReleaseTypeOK
  <2>8. Attested(r)'
    BY <1>11, <1>a, <2>3 DEF SendCommand, Local, Attested, AllRun, RunnerHas, TypeInv,
         ReleaseTypeOK
  <2>9. Recorded(r)'
    BY <1>11, <1>a, <2>3 DEF SendCommand, Local, Recorded, HeadIsLast, PreviousBefore,
         TypeInv, ReleaseTypeOK
  <2>10. Local(r)'
    BY <2>4, <2>5, <2>6, <2>7, <2>8, <2>9 DEF Local
  <2>11. QED
    BY <2>1, <2>2, <2>3, <2>10, Alone
<1>12. ASSUME RunnerDeployed(r) PROVE Inv'
  <2>1. Busy(r)
    BY <1>12 DEF RunnerDeployed, Busy
  <2>2. Whole'
    BY <1>12, <1>a, <1>b DEF RunnerDeployed, Whole, HeadIsLast, PreviousBefore, AllRun,
         RunnerHas
  <2>3. pc' = [pc EXCEPT ![r] = "pick"] /\ pc'[r] = ("pick") /\ ("pick") \in Where
    BY <1>12, <1>a DEF RunnerDeployed
  <2>4. Claimed(r)'
    BY <1>12, <1>a, <2>3 DEF RunnerDeployed, Local, Claimed, TypeInv, ReleaseTypeOK
  <2>5. Commanded(r)'
    BY <1>12, <1>a, <2>3 DEF RunnerDeployed, Local, Commanded, TypeInv, ReleaseTypeOK
  <2>6. InHand(r)'
    BY <1>12, <1>a, <2>3 DEF RunnerDeployed, Local, InHand, Turn, TypeInv, ReleaseTypeOK
  <2>7. Anchored(r)'
    BY <1>12, <1>a, <2>3 DEF RunnerDeployed, Local, Anchored, TypeInv, ReleaseTypeOK
  <2>8. Attested(r)'
    BY <1>12, <1>a, <2>3 DEF RunnerDeployed, Local, Attested, AllRun, RunnerHas, TypeInv,
         ReleaseTypeOK
  <2>9. Recorded(r)'
    BY <1>12, <1>a, <2>3 DEF RunnerDeployed, Local, Recorded, HeadIsLast, PreviousBefore,
         TypeInv, ReleaseTypeOK
  <2>10. Local(r)'
    BY <2>4, <2>5, <2>6, <2>7, <2>8, <2>9 DEF Local
  <2>11. QED
    BY <2>1, <2>2, <2>3, <2>10, Alone
<1>13. ASSUME AttestServices(r) PROVE Inv'
  <2>1. Busy(r)
    BY <1>13 DEF AttestServices, Busy
  <2>2. Whole'
    BY <1>13, <1>a, <1>b DEF AttestServices, Whole, HeadIsLast, PreviousBefore, AllRun,
         RunnerHas
  <2>3. pc' = [pc EXCEPT ![r] = "attestRunner"] /\ pc'[r] = ("attestRunner") /\ ("attestRunner") \in Where
    BY <1>13, <1>a DEF AttestServices
  <2>4. Claimed(r)'
    BY <1>13, <1>a, <2>3 DEF AttestServices, Local, Claimed, TypeInv, ReleaseTypeOK
  <2>5. Commanded(r)'
    BY <1>13, <1>a, <2>3 DEF AttestServices, Local, Commanded, TypeInv, ReleaseTypeOK
  <2>6. InHand(r)'
    BY <1>13, <1>a, <2>3 DEF AttestServices, Local, InHand, Turn, TypeInv, ReleaseTypeOK
  <2>7. Anchored(r)'
    BY <1>13, <1>a, <2>3 DEF AttestServices, Local, Anchored, TypeInv, ReleaseTypeOK
  <2>8. Attested(r)'
    <3>1. target = Manifest[sel[r]] /\ running = Manifest[sel[r]]
      BY <1>13 DEF AttestServices, Stable
    <3>2. QED
      BY <1>13, <2>3, <3>1 DEF AttestServices, Attested, AllRun
  <2>9. Recorded(r)'
    BY <1>13, <1>a, <2>3 DEF AttestServices, Local, Recorded, HeadIsLast, PreviousBefore,
         TypeInv, ReleaseTypeOK
  <2>10. Local(r)'
    BY <2>4, <2>5, <2>6, <2>7, <2>8, <2>9 DEF Local
  <2>11. QED
    BY <2>1, <2>2, <2>3, <2>10, Alone
<1>14. ASSUME AttestRunner(r) PROVE Inv'
  <2>1. Busy(r)
    BY <1>14 DEF AttestRunner, Busy
  <2>2. Whole'
    BY <1>14, <1>a, <1>b DEF AttestRunner, Whole, HeadIsLast, PreviousBefore, AllRun,
         RunnerHas
  <2>3. pc' = [pc EXCEPT ![r] = "previous"] /\ pc'[r] = ("previous") /\ ("previous") \in Where
    BY <1>14, <1>a DEF AttestRunner
  <2>4. Claimed(r)'
    BY <1>14, <1>a, <2>3 DEF AttestRunner, Local, Claimed, TypeInv, ReleaseTypeOK
  <2>5. Commanded(r)'
    BY <1>14, <1>a, <2>3 DEF AttestRunner, Local, Commanded, TypeInv, ReleaseTypeOK
  <2>6. InHand(r)'
    BY <1>14, <1>a, <2>3 DEF AttestRunner, Local, InHand, Turn, TypeInv, ReleaseTypeOK
  <2>7. Anchored(r)'
    BY <1>14, <1>a, <2>3 DEF AttestRunner, Local, Anchored, TypeInv, ReleaseTypeOK
  <2>8. Attested(r)'
    BY <1>14, <1>a, <2>3 DEF AttestRunner, RunnerIs, Local, Attested, AllRun, RunnerHas,
         TypeInv, ReleaseTypeOK
  <2>9. Recorded(r)'
    BY <1>14, <1>a, <2>3 DEF AttestRunner, Local, Recorded, HeadIsLast, PreviousBefore,
         TypeInv, ReleaseTypeOK
  <2>10. Local(r)'
    BY <2>4, <2>5, <2>6, <2>7, <2>8, <2>9 DEF Local
  <2>11. QED
    BY <2>1, <2>2, <2>3, <2>10, Alone
<1>15. ASSUME RaiseForward(r) PROVE Inv'
  <2>1. Busy(r)
    BY <1>15 DEF RaiseForward, Busy
  <2>2. Whole'
    BY <1>15, <1>a, <1>b DEF RaiseForward, Whole, HeadIsLast, PreviousBefore, AllRun,
         RunnerHas
  <2>3. pc' = [pc EXCEPT ![r] = "pick"] /\ pc'[r] = ("pick") /\ ("pick") \in Where
    BY <1>15, <1>a DEF RaiseForward
  <2>4. Claimed(r)'
    BY <1>15, <1>a, <2>3 DEF RaiseForward, Local, Claimed, TypeInv, ReleaseTypeOK
  <2>5. Commanded(r)'
    BY <1>15, <1>a, <2>3 DEF RaiseForward, Local, Commanded, TypeInv, ReleaseTypeOK
  <2>6. InHand(r)'
    BY <1>15, <1>a, <2>3 DEF RaiseForward, Local, InHand, Turn, TypeInv, ReleaseTypeOK
  <2>7. Anchored(r)'
    BY <1>15, <1>a, <2>3 DEF RaiseForward, Local, Anchored, TypeInv, ReleaseTypeOK
  <2>8. Attested(r)'
    BY <1>15, <1>a, <2>3 DEF RaiseForward, Local, Attested, AllRun, RunnerHas, TypeInv,
         ReleaseTypeOK
  <2>9. Recorded(r)'
    BY <1>15, <1>a, <2>3 DEF RaiseForward, Local, Recorded, HeadIsLast, PreviousBefore,
         TypeInv, ReleaseTypeOK
  <2>10. Local(r)'
    BY <2>4, <2>5, <2>6, <2>7, <2>8, <2>9 DEF Local
  <2>11. QED
    BY <2>1, <2>2, <2>3, <2>10, Alone
<1>16. ASSUME UnknownForward(r) PROVE Inv'
  <2>1. Busy(r)
    BY <1>16 DEF UnknownForward, Busy
  <2>2. Whole'
    BY <1>16, <1>a, <1>b DEF UnknownForward, Whole, HeadIsLast, PreviousBefore, AllRun,
         RunnerHas
  <2>3. pc' = [pc EXCEPT ![r] = "close"] /\ pc'[r] = ("close") /\ ("close") \in Where
    BY <1>16, <1>a DEF UnknownForward
  <2>4. Claimed(r)'
    BY <1>16, <1>a, <2>3 DEF UnknownForward, Local, Claimed, TypeInv, ReleaseTypeOK
  <2>5. Commanded(r)'
    BY <1>16, <1>a, <2>3 DEF UnknownForward, Local, Commanded, TypeInv, ReleaseTypeOK
  <2>6. InHand(r)'
    BY <1>16, <1>a, <2>3 DEF UnknownForward, Local, InHand, Turn, TypeInv, ReleaseTypeOK
  <2>7. Anchored(r)'
    BY <1>16, <1>a, <2>3 DEF UnknownForward, Local, Anchored, TypeInv, ReleaseTypeOK
  <2>8. Attested(r)'
    BY <1>16, <1>a, <2>3 DEF UnknownForward, Local, Attested, AllRun, RunnerHas, TypeInv,
         ReleaseTypeOK
  <2>9. Recorded(r)'
    BY <1>16, <1>a, <2>3 DEF UnknownForward, Local, Recorded, HeadIsLast, PreviousBefore,
         TypeInv, ReleaseTypeOK
  <2>10. Local(r)'
    BY <2>4, <2>5, <2>6, <2>7, <2>8, <2>9 DEF Local
  <2>11. QED
    BY <2>1, <2>2, <2>3, <2>10, Alone
<1>17. ASSUME RestoreError(r) PROVE Inv'
  <2>1. Busy(r)
    BY <1>17 DEF RestoreError, Busy
  <2>2. Whole'
    BY <1>17, <1>a, <1>b DEF RestoreError, Whole, HeadIsLast, PreviousBefore, AllRun,
         RunnerHas
  <2>3. pc' = [pc EXCEPT ![r] = "pick"] /\ pc'[r] = ("pick") /\ ("pick") \in Where
    BY <1>17, <1>a DEF RestoreError
  <2>4. Claimed(r)'
    BY <1>17, <1>a, <2>3 DEF RestoreError, Local, Claimed, TypeInv, ReleaseTypeOK
  <2>5. Commanded(r)'
    <3>1. ASSUME inflight # {} PROVE todo'[r] = {}
      <4>1. pc[r] = "poll" /\ back[r]
        BY <1>17, <1>a, <3>1 DEF RestoreError, Local, Commanded
      <4>2. now[r] = "ai-app" /\ Turn(now[r], todo[r], TRUE) /\ todo[r] \subseteq Services
        BY <1>a, <4>1 DEF Local, InHand, TypeInv, ReleaseTypeOK
      <4>3. \A s \in todo[r] : s = "ai-app"
        <5>1. Rank["ai-app"] = 1 /\ \A s \in Services : Rank[s] <= 1 => s = "ai-app"
          BY DEF Rank, Services
        <5>2. \A s \in todo[r] : Rank[s] <= Rank["ai-app"]
          BY <4>2 DEF Turn
        <5>3. QED
          BY <4>2, <5>1, <5>2
      <4>4. todo'[r] = todo[r] \ {now[r]}
        BY <1>17, <1>a DEF RestoreError, TypeInv, ReleaseTypeOK
      <4>5. QED
        BY <4>2, <4>3, <4>4
    <3>2. errs'[r] /\ back'[r] /\ inflight' = inflight
      BY <1>17, <1>a DEF RestoreError, TypeInv, ReleaseTypeOK
    <3>3. QED
      BY <2>3, <3>1, <3>2 DEF Commanded
  <2>6. InHand(r)'
    BY <1>17, <1>a, <2>3 DEF RestoreError, Local, InHand, Turn, TypeInv, ReleaseTypeOK
  <2>7. Anchored(r)'
    BY <1>17, <1>a, <2>3 DEF RestoreError, Local, Anchored, TypeInv, ReleaseTypeOK
  <2>8. Attested(r)'
    BY <1>17, <1>a, <2>3 DEF RestoreError, Local, Attested, AllRun, RunnerHas, TypeInv,
         ReleaseTypeOK
  <2>9. Recorded(r)'
    BY <1>17, <1>a, <2>3 DEF RestoreError, Local, Recorded, HeadIsLast, PreviousBefore,
         TypeInv, ReleaseTypeOK
  <2>10. Local(r)'
    BY <2>4, <2>5, <2>6, <2>7, <2>8, <2>9 DEF Local
  <2>11. QED
    BY <2>1, <2>2, <2>3, <2>10, Alone
<1>18. ASSUME VerifyRestored(r) PROVE Inv'
  <2>1. Busy(r)
    BY <1>18 DEF VerifyRestored, Busy
  <2>2. Whole'
    BY <1>18, <1>a, <1>b DEF VerifyRestored, Whole, HeadIsLast, PreviousBefore, AllRun,
         RunnerHas
  <2>3. pc' = [pc EXCEPT ![r] = pc'[r]] /\ pc'[r] = (pc'[r]) /\ (pc'[r]) \in Where
    BY <1>18, <1>a DEF VerifyRestored
  <2>4. Claimed(r)'
    BY <1>18, <1>a, <2>3 DEF VerifyRestored, Local, Claimed, TypeInv, ReleaseTypeOK
  <2>5. Commanded(r)'
    BY <1>18, <1>a, <2>3 DEF VerifyRestored, Local, Commanded, TypeInv, ReleaseTypeOK
  <2>6. InHand(r)'
    BY <1>18, <1>a, <2>3 DEF VerifyRestored, Local, InHand, Turn, TypeInv, ReleaseTypeOK
  <2>7. Anchored(r)'
    BY <1>18, <1>a, <2>3 DEF VerifyRestored, Local, Anchored, TypeInv, ReleaseTypeOK
  <2>8. Attested(r)'
    <3>1. pc'[r] = "close" => errs'[r]
      BY <1>18, <1>a DEF VerifyRestored, TypeInv, ReleaseTypeOK
    <3>2. pc'[r] = "verifyRunner" /\ ~errs'[r] => AllRun(base[r])
      BY <1>18, <1>a DEF VerifyRestored, Stable, AllRun, TypeInv, ReleaseTypeOK
    <3>3. pc'[r] \in {"close", "verifyRunner"} /\ UNCHANGED <<target, running, base>>
      BY <1>18, <1>a DEF VerifyRestored, TypeInv, ReleaseTypeOK
    <3>4. QED
      BY <3>1, <3>2, <3>3 DEF Attested, AllRun
  <2>9. Recorded(r)'
    BY <1>18, <1>a, <2>3 DEF VerifyRestored, Local, Recorded, HeadIsLast, PreviousBefore,
         TypeInv, ReleaseTypeOK
  <2>10. Local(r)'
    BY <2>4, <2>5, <2>6, <2>7, <2>8, <2>9 DEF Local
  <2>11. QED
    BY <2>1, <2>2, <2>3, <2>10, Alone
<1>19. ASSUME VerifyRunner(r) PROVE Inv'
  <2>1. Busy(r)
    BY <1>19 DEF VerifyRunner, Busy
  <2>2. Whole'
    BY <1>19, <1>a, <1>b DEF VerifyRunner, Whole, HeadIsLast, PreviousBefore, AllRun,
         RunnerHas
  <2>3. pc' = [pc EXCEPT ![r] = "close"] /\ pc'[r] = ("close") /\ ("close") \in Where
    BY <1>19, <1>a DEF VerifyRunner
  <2>4. Claimed(r)'
    BY <1>19, <1>a, <2>3 DEF VerifyRunner, Local, Claimed, TypeInv, ReleaseTypeOK
  <2>5. Commanded(r)'
    BY <1>19, <1>a, <2>3 DEF VerifyRunner, Local, Commanded, TypeInv, ReleaseTypeOK
  <2>6. InHand(r)'
    BY <1>19, <1>a, <2>3 DEF VerifyRunner, Local, InHand, Turn, TypeInv, ReleaseTypeOK
  <2>7. Anchored(r)'
    BY <1>19, <1>a, <2>3 DEF VerifyRunner, Local, Anchored, TypeInv, ReleaseTypeOK
  <2>8. Attested(r)'
    BY <1>19, <1>a, <2>3 DEF VerifyRunner, RunnerIs, Local, Attested, AllRun, RunnerHas,
         TypeInv, ReleaseTypeOK
  <2>9. Recorded(r)'
    BY <1>19, <1>a, <2>3 DEF VerifyRunner, Local, Recorded, HeadIsLast, PreviousBefore,
         TypeInv, ReleaseTypeOK
  <2>10. Local(r)'
    BY <2>4, <2>5, <2>6, <2>7, <2>8, <2>9 DEF Local
  <2>11. QED
    BY <2>1, <2>2, <2>3, <2>10, Alone
<1>20. ASSUME CloseJournal(r) PROVE Inv'
  <2>1. Busy(r)
    BY <1>20 DEF CloseJournal, Busy
  <2>2. Whole'
    <3>1. CASE errs[r]
      BY <1>20, <3>1 DEF CloseJournal, Whole, Accepting
    <3>2. CASE ~errs[r]
      <4>1. inflight = {} /\ HeadIsLast /\ PreviousBefore
        BY <1>20, <1>a, <3>2 DEF CloseJournal, Local, Commanded, Recorded
      <4>2. AllRun(base[r]) /\ RunnerHas(base[r]["ai-app"])
        BY <1>20, <1>a, <3>2 DEF CloseJournal, Local, Attested
      <4>3. last # None => base[r] = Manifest[last]
        BY <1>20, <1>a DEF CloseJournal, Local, Anchored
      <4>4. QED
        BY <1>20, <4>1, <4>2, <4>3
           DEF CloseJournal, Whole, AllRun, RunnerHas, HeadIsLast, PreviousBefore
    <3>3. QED
      BY <3>1, <3>2
  <2>3. pc' = [pc EXCEPT ![r] = "end"]
    BY <1>20 DEF CloseJournal
  <2>4. QED
    BY <2>1, <2>2, <2>3, Alone
<1>21. ASSUME SavePrevious(r) PROVE Inv'
  <2>1. Busy(r)
    BY <1>21 DEF SavePrevious, Busy
  <2>2. Whole'
    BY <1>21, <1>a, <1>b DEF SavePrevious, Whole, HeadIsLast, PreviousBefore, AllRun,
         RunnerHas
  <2>3. pc' = [pc EXCEPT ![r] = "last"] /\ pc'[r] = ("last") /\ ("last") \in Where
    BY <1>21, <1>a DEF SavePrevious
  <2>4. Claimed(r)'
    BY <1>21, <1>a, <2>3 DEF SavePrevious, Local, Claimed, TypeInv, ReleaseTypeOK
  <2>5. Commanded(r)'
    BY <1>21, <1>a, <2>3 DEF SavePrevious, Local, Commanded, TypeInv, ReleaseTypeOK
  <2>6. InHand(r)'
    BY <1>21, <1>a, <2>3 DEF SavePrevious, Local, InHand, Turn, TypeInv, ReleaseTypeOK
  <2>7. Anchored(r)'
    BY <1>21, <1>a, <2>3 DEF SavePrevious, Local, Anchored, TypeInv, ReleaseTypeOK
  <2>8. Attested(r)'
    BY <1>21, <1>a, <2>3 DEF SavePrevious, Local, Attested, AllRun, RunnerHas, TypeInv,
         ReleaseTypeOK
  <2>9. Recorded(r)'
    BY <1>21, <1>a, <2>3 DEF SavePrevious, Local, Recorded, HeadIsLast, PreviousBefore,
         TypeInv, ReleaseTypeOK
  <2>10. Local(r)'
    BY <2>4, <2>5, <2>6, <2>7, <2>8, <2>9 DEF Local
  <2>11. QED
    BY <2>1, <2>2, <2>3, <2>10, Alone
<1>22. ASSUME SaveLast(r) PROVE Inv'
  <2>1. Busy(r)
    BY <1>22 DEF SaveLast, Busy
  <2>2. Whole'
    BY <1>22, <1>a, <1>b DEF SaveLast, Whole, HeadIsLast, PreviousBefore, AllRun, RunnerHas
  <2>3. pc' = [pc EXCEPT ![r] = "finish"] /\ pc'[r] = ("finish") /\ ("finish") \in Where
    BY <1>22, <1>a DEF SaveLast
  <2>4. Claimed(r)'
    BY <1>22, <1>a, <2>3 DEF SaveLast, Local, Claimed, TypeInv, ReleaseTypeOK
  <2>5. Commanded(r)'
    BY <1>22, <1>a, <2>3 DEF SaveLast, Local, Commanded, TypeInv, ReleaseTypeOK
  <2>6. InHand(r)'
    BY <1>22, <1>a, <2>3 DEF SaveLast, Local, InHand, Turn, TypeInv, ReleaseTypeOK
  <2>7. Anchored(r)'
    BY <1>22, <1>a, <2>3 DEF SaveLast, Local, Anchored, TypeInv, ReleaseTypeOK
  <2>8. Attested(r)'
    BY <1>22, <1>a, <2>3 DEF SaveLast, Local, Attested, AllRun, RunnerHas, TypeInv,
         ReleaseTypeOK
  <2>9. Recorded(r)'
    <3>1. /\ sel[r] \in Releases /\ last = old[r] /\ attested \in Seq(Releases)
          /\ None \notin Releases /\ previous' = previous /\ last' = sel[r] /\ HeadIsLast
          /\ IF last # None /\ Manifest[last] # Manifest[sel[r]]
             THEN previous = last ELSE PreviousBefore
      BY <1>22, <1>a, PromotionAssumption
         DEF SaveLast, Local, Anchored, Recorded, TypeInv, Selected, ReleaseTypeOK
    <3>2. CASE last # None /\ Manifest[last] = Manifest[sel[r]]
      <4>1. attested' = attested
        BY <1>22, <3>2 DEF SaveLast
      <4>2. QED
        BY <2>3, <3>1, <3>2, <4>1 DEF Recorded, HeadIsLast, PreviousBefore
    <3>3. CASE ~(last # None /\ Manifest[last] = Manifest[sel[r]])
      <4>1. attested' = Append(attested, sel[r])
        BY <1>22, <3>3 DEF SaveLast
      <4>2. Len(attested') = Len(attested) + 1 /\ attested'[Len(attested')] = sel[r]
        BY <3>1, <4>1
      <4>3. Len(attested) >= 1 => attested'[Len(attested') - 1] = attested[Len(attested)]
        BY <3>1, <4>1
      <4>4. HeadIsLast'
        BY <3>1, <4>2 DEF HeadIsLast
      <4>5. PreviousBefore'
        <5>1. CASE last = None
          BY <3>1, <5>1 DEF HeadIsLast, PreviousBefore
        <5>2. CASE last # None
          BY <3>1, <3>3, <4>2, <4>3, <5>2 DEF HeadIsLast, PreviousBefore
        <5>3. QED
          BY <5>1, <5>2
      <4>6. QED
        BY <2>3, <4>4, <4>5 DEF Recorded
    <3>4. QED
      BY <3>2, <3>3
  <2>10. Local(r)'
    BY <2>4, <2>5, <2>6, <2>7, <2>8, <2>9 DEF Local
  <2>11. QED
    BY <2>1, <2>2, <2>3, <2>10, Alone
<1>23. ASSUME Finish(r) PROVE Inv'
  <2>1. Busy(r)
    BY <1>23 DEF Finish, Busy
  <2>2. Whole'
    <3>1. inflight = {} /\ HeadIsLast /\ PreviousBefore
      BY <1>23, <1>a DEF Finish, Local, Commanded, Recorded
    <3>2. last = sel[r] /\ AllRun(Manifest[sel[r]]) /\ RunnerHas(Manifest[sel[r]]["ai-app"])
      BY <1>23, <1>a DEF Finish, Local, Anchored, Attested
    <3>3. QED
      BY <1>23, <3>1, <3>2 DEF Finish, Whole, AllRun, RunnerHas, HeadIsLast, PreviousBefore
  <2>3. pc' = [pc EXCEPT ![r] = "end"]
    BY <1>23 DEF Finish
  <2>4. QED
    BY <2>1, <2>2, <2>3, Alone
<1>24. ASSUME Die(r) PROVE Inv'
  <2>1. Busy(r)
    BY <1>24 DEF Die, Busy
  <2>2. Whole'
    BY <1>24, <1>a, <1>b DEF Die, Whole, HeadIsLast, PreviousBefore, AllRun, RunnerHas
  <2>3. pc' = [pc EXCEPT ![r] = "end"]
    BY <1>24 DEF Die
  <2>4. QED
    BY <2>1, <2>2, <2>3, Alone
<1>25. QED
  BY <1>1, <1>2, <1>3, <1>4, <1>5, <1>6, <1>7, <1>8, <1>9, <1>10, <1>11, <1>12, <1>13,
       <1>14, <1>15, <1>16, <1>17, <1>18, <1>19, <1>20, <1>21, <1>22, <1>23, <1>24 DEF
       Advance

\* Nobody is under way when a run is let in.
LEMMA StartStep ==
  ASSUME Exclusive, Inv, TypeInv', NEW r \in Runs, Start(r) \/ StartRollback(r)
  PROVE  Inv'
<1>1. pc' = [pc EXCEPT ![r] = "check"] /\ \A q \in Runs : pc[q] \in {"start", "end"}
  BY DEF Start, StartRollback, Goto
<1>2. pc \in [Runs -> Where]
  BY DEF Inv, TypeInv, ReleaseTypeOK
<1>3. UNCHANGED <<active, last, previous, attested, target, running, configured, runner, inflight>>
  BY DEF Start, StartRollback, journalVars, ecsVars, hostVars
<1>4. \A q \in Runs : q # r => Local(q)'
  BY <1>1, <1>2, IdleLocal
<1>5. pc'[r] = "check"
  BY <1>1, <1>2
<1>6. Local(r)'
  BY <1>5 DEF Local, Claimed, Commanded, InHand, Anchored, Attested, Recorded, Deploying,
       Finalizing
<1>7. OneRun'
  BY <1>1, <1>2 DEF OneRun, Busy
<1>8. Whole'
  BY <1>3 DEF Inv, Whole, HeadIsLast, PreviousBefore, AllRun, RunnerHas
<1>9. QED
  BY <1>4, <1>6, <1>7, <1>8 DEF Inv

\* What ECS and the host do while no run moves: Local and Whole speak of them in
\* Commanded, Attested and Whole only.
LEMMA WorldStep ==
  ASSUME Inv, TypeInv', Ecs \/ Host,
         Whole', \A r \in Runs : Commanded(r)' /\ Attested(r)'
  PROVE  Inv'
<1>1. UNCHANGED <<active, last, previous, attested, planVars, workVars, pc>>
  BY DEF Ecs, Host, RolloutCompletes, BreakerRollsBack, HostStart, HostOverride, HostUp,
         HostSucceeds, HostFails, HostDrops, journalVars
<1>2. OneRun'
  BY <1>1 DEF Inv, OneRun, Busy
<1>3. ASSUME NEW r \in Runs PROVE Claimed(r)'
  BY <1>1 DEF Inv, Local, Claimed
<1>4. ASSUME NEW r \in Runs PROVE InHand(r)'
  BY <1>1 DEF Inv, Local, InHand, workVars
<1>5. ASSUME NEW r \in Runs PROVE Anchored(r)'
  BY <1>1 DEF Inv, Local, Anchored, planVars
<1>6. ASSUME NEW r \in Runs PROVE Recorded(r)'
  BY <1>1 DEF Inv, Local, Recorded, HeadIsLast, PreviousBefore, planVars
<1>7. QED
  BY <1>2, <1>3, <1>4, <1>5, <1>6 DEF Inv, Local

\* ECS has nothing left to do wherever something was attested.
LEMMA EcsStep ==
  ASSUME Inv, TypeInv', Ecs
  PROVE  Inv'
<1>1. PICK s \in Services : RolloutCompletes(s) \/ BreakerRollsBack(s)
  BY DEF Ecs
<1>2. running # target
  BY <1>1 DEF RolloutCompletes, BreakerRollsBack
<1>3. UNCHANGED <<journalVars, hostVars, planVars, workVars, pc>>
  BY <1>1 DEF RolloutCompletes, BreakerRollsBack
<1>4. Whole'
  BY <1>2, <1>3 DEF Inv, Whole, AllRun, RunnerHas, HeadIsLast, PreviousBefore, journalVars,
       hostVars
<1>5. ASSUME NEW r \in Runs PROVE Commanded(r)'
  BY <1>3 DEF Inv, Local, Commanded, hostVars, workVars
<1>6. ASSUME NEW r \in Runs PROVE Attested(r)'
  <2>1. pc[r] \notin {"attestRunner"} \cup Finalizing /\ ~(pc[r] \in {"verifyRunner", "close"} /\ ~errs[r])
    BY <1>2 DEF Inv, Local, Attested, AllRun
  <2>2. pc'[r] = pc[r] /\ errs'[r] = errs[r]
    BY <1>3 DEF workVars
  <2>3. QED
    BY <2>1, <2>2 DEF Attested
<1>7. QED
  BY <1>4, <1>5, <1>6, WorldStep

\* The host acts on a command, and there is one only while a run waits for it or
\* is on its way to recovery_required.
LEMMA HostStep ==
  ASSUME Inv, TypeInv', Host
  PROVE  Inv'
<1>1. PICK c \in inflight : \/ HostStart(c) \/ HostOverride(c) \/ HostUp(c)
                           \/ HostSucceeds(c) \/ HostFails(c) \/ HostDrops(c)
  BY DEF Host
<1>2. UNCHANGED <<journalVars, ecsVars, planVars, workVars, pc>>
  BY <1>1 DEF HostStart, HostOverride, HostUp, HostSucceeds, HostFails, HostDrops
<1>3. ~Accepting(active.status)
  BY <1>1 DEF Inv, Whole
<1>4. Whole'
  BY <1>2, <1>3 DEF Whole, journalVars
<1>5. ASSUME NEW r \in Runs, pc[r] \in Deploying
      PROVE  \/ pc[r] = "poll"
             \/ errs[r] /\ pc[r] \in {"verify", "verifyRunner", "close"}
             \/ errs[r] /\ pc[r] = "pick"
  BY <1>1, <1>5 DEF Inv, Local, Commanded
<1>6. ASSUME NEW r \in Runs PROVE Attested(r)'
  <2>1. pc'[r] = pc[r] /\ errs'[r] = errs[r] /\ UNCHANGED <<target, running, sel, base>>
    BY <1>2 DEF ecsVars, planVars, workVars
  <2>2. pc[r] \notin {"attestRunner"} \cup Finalizing /\ ~(pc[r] = "close" /\ ~errs[r])
    BY <1>5 DEF Deploying, Finalizing
  <2>3. QED
    BY <2>1, <2>2 DEF Inv, Local, Attested, AllRun
<1>7. ASSUME NEW r \in Runs PROVE Commanded(r)'
  <2>1. pc'[r] = pc[r] /\ errs'[r] = errs[r] /\ back'[r] = back[r] /\ todo'[r] = todo[r]
    BY <1>2 DEF workVars
  <2>2. CASE ~(pc[r] \in Deploying)
    BY <2>1, <2>2 DEF Commanded
  <2>3. CASE pc[r] \in Deploying /\ ~(pc[r] = "poll" /\ reply[r] = "none")
    BY <1>1, <2>1, <2>3 DEF Inv, Local, Commanded
  <2>4. CASE pc[r] = "poll" /\ reply[r] = "none"
    <3>1. CASE errs[r] /\ pc[r] # "poll"
      BY <2>4, <3>1
    <3>2. \A d \in inflight : d = c /\ d.run = r
      BY <1>1, <2>4 DEF Inv, Local, Commanded, Deploying
    <3>3. CASE HostSucceeds(c) \/ HostFails(c) \/ HostDrops(c)
      <4>1. inflight' = {}
        BY <3>2, <3>3 DEF HostSucceeds, HostFails, HostDrops
      <4>2. QED
        BY <4>1 DEF Commanded
    <3>4. CASE HostStart(c) \/ HostOverride(c) \/ HostUp(c)
      <4>1. PICK d : inflight' = (inflight \ {c}) \cup {d} /\ d.run = c.run /\ reply' = reply
        <5>1. c \in Commands
          BY <1>1 DEF Inv, TypeInv, ReleaseTypeOK
        <5>2. \A w : [c EXCEPT !.at = w].run = c.run
          BY <5>1 DEF Commands
        <5>3. QED
          BY <3>4, <5>2 DEF HostStart, HostOverride, HostUp
      <4>2. \A e \in inflight' : e = d /\ e.run = r
        BY <1>1, <3>2, <4>1
      <4>3. QED
        BY <2>1, <2>4, <4>1, <4>2 DEF Commanded
    <3>5. QED
      BY <1>1, <3>3, <3>4
  <2>5. QED
    BY <2>2, <2>3, <2>4
<1>8. QED
  BY <1>4, <1>6, <1>7, WorldStep

LEMMA InvStep ==
  ASSUME Exclusive, Inv, [Next]_promotionVars
  PROVE  Inv'
<1>1. TypeInv'
  BY TypeStep DEF Inv
<1>2. CASE Next
  <2>1. ASSUME NEW r \in Runs, Start(r) \/ StartRollback(r) \/ Advance(r) \/ Die(r) PROVE Inv'
    BY <1>1, <2>1, StartStep, RunStep
  <2>2. CASE Ecs
    BY <1>1, <2>2, EcsStep
  <2>3. CASE Host
    BY <1>1, <2>3, HostStep
  <2>4. QED
    BY <1>2, <2>1, <2>2, <2>3 DEF Next
<1>3. CASE UNCHANGED promotionVars
  <2>1. UNCHANGED <<active, last, previous, attested, target, running, configured, runner,
                    inflight, reply, pc, back, sel, old, base, todo, now, errs>>
    BY <1>3 DEF promotionVars, journalVars, ecsVars, hostVars, planVars, workVars
  <2>2. ASSUME NEW r \in Runs PROVE Local(r)'
    BY <2>1 DEF Inv, Local, Claimed, Commanded, InHand, Anchored, Attested, Recorded,
                AllRun, RunnerHas, HeadIsLast, PreviousBefore
  <2>3. Whole' /\ OneRun'
    BY <2>1 DEF Inv, Whole, OneRun, Busy, AllRun, RunnerHas, HeadIsLast, PreviousBefore
  <2>4. QED
    BY <1>1, <2>2, <2>3 DEF Inv
<1>4. QED
  BY <1>2, <1>3

LEMMA Invariance == ASSUME Exclusive PROVE PromotionSpec => []Inv
<1>1. Inv /\ [Next]_promotionVars => Inv'
  BY InvStep
<1>2. QED
  BY <1>1, InvInit, PTL DEF PromotionSpec

-----------------------------------------------------------------------------
(* AcceptingMeansWhole: whenever the journal lets another run in, production and the   *)
(* runner have the images of last-success, and nothing can change them any more.       *)
THEOREM PromotionIsWhole == ASSUME Exclusive PROVE PromotionSpec => []AcceptingMeansWhole
<1>1. Inv => AcceptingMeansWhole
  BY DEF Inv, Whole, AcceptingMeansWhole, AllRun, RunnerHas
<1>2. QED
  BY <1>1, Invariance, PTL

(* NoCompetingMutation: no run is about to change a service or the runner while a      *)
(* command that somebody stopped waiting for may still act.                            *)
THEOREM MutationsDoNotCompete == ASSUME Exclusive PROVE PromotionSpec => []NoCompetingMutation
<1>1. Inv => NoCompetingMutation
  BY DEF Inv, Local, Commanded, NoCompetingMutation, Deploying
<1>2. QED
  BY <1>1, Invariance, PTL

(* RollbackGoesOneBack: what `rollback` would select is what production ran before.    *)
THEOREM RollbackTarget == ASSUME Exclusive PROVE PromotionSpec => []RollbackGoesOneBack
<1>1. ASSUME Inv PROVE RollbackGoesOneBack
  <2>1. SUFFICES ASSUME Accepting(active.status), previous # None
                 PROVE  /\ Len(attested) >= 2
                        /\ Manifest[previous] = Manifest[attested[Len(attested) - 1]]
                        /\ Manifest[last] = Manifest[attested[Len(attested)]]
    BY DEF RollbackGoesOneBack
  <2>2. HeadIsLast /\ PreviousBefore
    BY <1>1, <2>1 DEF Inv, Whole
  <2>3. Len(attested) >= 2 /\ Manifest[previous] = Manifest[attested[Len(attested) - 1]]
    BY <2>1, <2>2 DEF PreviousBefore
  <2>4. last # None
    BY <2>2, <2>3 DEF HeadIsLast
  <2>5. QED
    BY <2>2, <2>3, <2>4 DEF HeadIsLast
<1>2. QED
  BY <1>1, Invariance, PTL

(* UnfinishedJournalBlocks: a run changes production only under its own journal.       *)
THEOREM JournalBlocks == ASSUME Exclusive PROVE PromotionSpec => []UnfinishedJournalBlocks
<1>1. Inv => UnfinishedJournalBlocks
  BY DEF Inv, Local, Claimed, UnfinishedJournalBlocks, Deploying
<1>2. QED
  BY <1>1, Invariance, PTL
=============================================================================
