-------------------------- MODULE ReleasePromotion --------------------------
(***************************************************************************)
(* Promotion of a release to production, and its rollback, by              *)
(* src/scripts/deploy-v2-production-release.py: three ECS services and the *)
(* AI runner on a shared host must all run the images of one manifest, and *)
(* three parameters (active, last-success, previous-success) say which.    *)
(*                                                                         *)
(* `pc[r]` is the call run r makes next.  A call that raises after it took *)
(* effect is the step with the effect followed by Raise, Unknown or Die.   *)
(* ECS and the runner's host work on their own: a rollout ends or is rolled*)
(* back, and an SSM command can start, act and end long after the run that *)
(* sent it stopped waiting.  Images stand for task definitions too: the    *)
(* settings a revision carries do not change here.                         *)
(***************************************************************************)
EXTENDS Naturals, Sequences

CONSTANTS
  Runs,       \* executions of the script, each at most once
  Releases,   \* attested manifests
  Images,
  Manifest,   \* Manifest[m][s]: the image of service s in release m
  None,
  Exclusive   \* whether one run at a time is let in (the workflow's concurrency group)

Services == {"ai-app", "backend", "frontend"}

ASSUME PromotionAssumption ==
  /\ Manifest \in [Releases -> [Services -> Images]]
  /\ None \notin Releases
  /\ None \notin Runs
  /\ Exclusive \in BOOLEAN

VARIABLES
  active, last, previous,   \* the three parameters
  target, running,          \* image a service is set to, and the one of its tasks
  configured, runner,       \* image in the runner's Compose override, and of its container
  inflight,                 \* SSM deploy commands that may still act
  reply,                    \* how the command of a run ended, once SSM says so
  pc, back,                 \* next call of a run, and whether it is restoring
  sel, old, base,           \* its selected release, `last`, and before["images"]
  todo, tried, now,         \* services left, attempted, and in hand
  errs,                     \* whether recoveryErrors is not empty
  attested                  \* history: what last-success held, repetitions left out

journalVars == <<active, last, previous, attested>>
ecsVars == <<target, running>>
hostVars == <<configured, runner, inflight, reply>>
planVars == <<sel, old, base>>
workVars == <<back, todo, tried, now, errs>>
promotionVars == <<journalVars, ecsVars, hostVars, planVars, workVars, pc>>

Rank == [s \in Services |-> IF s = "ai-app" THEN 1 ELSE IF s = "backend" THEN 2 ELSE 3]

(* The service of S that comes first in ORDER, or last when restoring. *)
Turn(s, S, reversed) ==
  /\ s \in S
  /\ \A t \in S : IF reversed THEN Rank[t] <= Rank[s] ELSE Rank[s] <= Rank[t]

Accepting(status) == status \in {"none", "healthy", "restored_previous"}
Stable == running = target
HostFree == \A c \in inflight : c.at = "queued"
RunnerIs(image) == HostFree /\ configured = runner /\ runner = image
Goal(r) == IF back[r] THEN base[r][now[r]] ELSE Manifest[sel[r]][now[r]]
Goto(r, where) == pc' = [pc EXCEPT ![r] = where]

Init ==
  /\ active = [status |-> "none", run |-> None]
  /\ last \in Releases \cup {None}
  /\ previous = None
  /\ target \in [Services -> Images]
  /\ last # None => target = Manifest[last]
  /\ running = target
  /\ runner = target["ai-app"]
  /\ configured = runner
  /\ inflight = {}
  /\ reply = [r \in Runs |-> "none"]
  /\ pc = [r \in Runs |-> "start"]
  /\ back = [r \in Runs |-> FALSE]
  /\ sel = [r \in Runs |-> None]
  /\ old = [r \in Runs |-> None]
  /\ base = [r \in Runs |-> running]
  /\ todo = [r \in Runs |-> {}]
  /\ tried = [r \in Runs |-> {}]
  /\ now = [r \in Runs |-> "ai-app"]
  /\ errs = [r \in Runs |-> FALSE]
  /\ attested = IF last = None THEN <<>> ELSE <<last>>

-----------------------------------------------------------------------------
(* Before the first write. *)

\* Faulty: nothing keeps a second run out while the first is under way.
StartUnchecked(r) ==
  /\ pc[r] = "start"
  /\ \E m \in Releases : sel' = [sel EXCEPT ![r] = m]
  /\ Goto(r, "check")
  /\ UNCHANGED <<journalVars, ecsVars, hostVars, old, base, workVars>>

(* `deploy` takes an attested manifest, `rollback` the one in previous-success. *)
Start(r) ==
  /\ pc[r] = "start"
  /\ Exclusive => \A q \in Runs : pc[q] \in {"start", "end"}
  /\ \E m \in Releases : sel' = [sel EXCEPT ![r] = m]
  /\ Goto(r, "check")
  /\ UNCHANGED <<journalVars, ecsVars, hostVars, old, base, workVars>>

StartRollback(r) ==
  /\ pc[r] = "start"
  /\ Exclusive => \A q \in Runs : pc[q] \in {"start", "end"}
  /\ previous # None
  /\ sel' = [sel EXCEPT ![r] = previous]
  /\ Goto(r, "check")
  /\ UNCHANGED <<journalVars, ecsVars, hostVars, old, base, workVars>>

Check(r) ==
  /\ pc[r] = "check"
  /\ Accepting(active.status)
  /\ old' = [old EXCEPT ![r] = last]
  /\ Goto(r, "snapshot")
  /\ UNCHANGED <<journalVars, ecsVars, hostVars, sel, base, workVars>>

Snapshot(r) ==
  /\ pc[r] = "snapshot"
  /\ Stable
  /\ running = Manifest[IF old[r] # None THEN old[r] ELSE sel[r]]
  /\ base' = [base EXCEPT ![r] = running]
  /\ \E redeploy \in SUBSET {"frontend"} :
       todo' = [todo EXCEPT ![r] = redeploy \cup
                  {s \in Services : running[s] # Manifest[sel[r]][s]}]
  /\ Goto(r, "inspect")
  /\ UNCHANGED <<journalVars, ecsVars, hostVars, sel, old, back, tried, now, errs>>

InspectRunner(r) ==
  /\ pc[r] = "inspect"
  /\ RunnerIs(base[r]["ai-app"])
  /\ Goto(r, "open")
  /\ UNCHANGED <<journalVars, ecsVars, hostVars, planVars, workVars>>

(* A check fails, a read fails, or the run was asked for a plan only. *)
Refuse(r) ==
  /\ pc[r] \in {"check", "snapshot", "inspect"}
  /\ Goto(r, "end")
  /\ UNCHANGED <<journalVars, ecsVars, hostVars, planVars, workVars>>

-----------------------------------------------------------------------------
(* The deployment, forward or back. *)

(* put_state outside the try: if it raises, the run ends where it stands. *)
OpenJournal(r) ==
  /\ pc[r] = "open"
  /\ active' = [status |-> "deploying", run |-> r]
  /\ Goto(r, "pick")
  /\ UNCHANGED <<last, previous, attested, ecsVars, hostVars, planVars, workVars>>

(* Journal the phase and register the revision; then the service counts as attempted. *)
PickNext(r) ==
  /\ pc[r] = "pick"
  /\ ~back[r]
  /\ \E s \in todo[r] :
       /\ Turn(s, todo[r], FALSE)
       /\ now' = [now EXCEPT ![r] = s]
       /\ tried' = [tried EXCEPT ![r] = @ \cup {s}]
  /\ active' = [status |-> "deploying", run |-> r]
  /\ Goto(r, "update")
  /\ UNCHANGED <<last, previous, attested, ecsVars, hostVars, planVars, back, todo, errs>>

PickRestore(r) ==
  /\ pc[r] = "pick"
  /\ back[r]
  /\ \E s \in todo[r] :
       /\ Turn(s, todo[r], TRUE)
       /\ now' = [now EXCEPT ![r] = s]
  /\ Goto(r, "update")
  /\ UNCHANGED <<journalVars, ecsVars, hostVars, planVars, back, todo, tried, errs>>

PickNone(r) ==
  /\ pc[r] = "pick"
  /\ todo[r] = {}
  /\ Goto(r, IF back[r] THEN "verify" ELSE "attest")
  /\ UNCHANGED <<journalVars, ecsVars, hostVars, planVars, workVars>>

UpdateService(r) ==
  /\ pc[r] = "update"
  /\ target' = [target EXCEPT ![now[r]] = Goal(r)]
  /\ Goto(r, "await")
  /\ UNCHANGED <<journalVars, running, hostVars, planVars, workVars>>

(* The polls of update() see the revision stable and its targets healthy. *)
RolledOut(r) ==
  /\ pc[r] = "await"
  /\ target[now[r]] = Goal(r)
  /\ running[now[r]] = Goal(r)
  /\ IF now[r] = "ai-app"
     THEN /\ Goto(r, "send")
          /\ UNCHANGED todo
     ELSE /\ Goto(r, "pick")
          /\ todo' = [todo EXCEPT ![r] = @ \ {now[r]}]
  /\ UNCHANGED <<journalVars, ecsVars, hostVars, planVars, back, tried, now, errs>>

SendCommand(r) ==
  /\ pc[r] = "send"
  /\ inflight' = inflight \cup {[run |-> r, image |-> Goal(r), at |-> "queued"]}
  /\ reply' = [reply EXCEPT ![r] = "none"]
  /\ Goto(r, "poll")
  /\ UNCHANGED <<journalVars, ecsVars, configured, runner, planVars, workVars>>

RunnerDeployed(r) ==
  /\ pc[r] = "poll"
  /\ reply[r] = "success"
  /\ Goto(r, "pick")
  /\ todo' = [todo EXCEPT ![r] = @ \ {now[r]}]
  /\ UNCHANGED <<journalVars, ecsVars, hostVars, planVars, back, tried, now, errs>>

AttestServices(r) ==
  /\ pc[r] = "attest"
  /\ Stable
  /\ running = Manifest[sel[r]]
  /\ Goto(r, "attestRunner")
  /\ UNCHANGED <<journalVars, ecsVars, hostVars, planVars, workVars>>

AttestRunner(r) ==
  /\ pc[r] = "attestRunner"
  /\ RunnerIs(Manifest[sel[r]]["ai-app"])
  /\ Goto(r, "previous")
  /\ UNCHANGED <<journalVars, ecsVars, hostVars, planVars, workVars>>

-----------------------------------------------------------------------------
(* Exceptions. *)

(* A failure whose outcome is known: restore what was attempted, newest first. *)
RaiseForward(r) ==
  /\ ~back[r]
  /\ \/ pc[r] \in {"pick", "update", "await", "send", "attest", "attestRunner"}
     \/ pc[r] = "poll" /\ reply[r] = "failed"
  /\ back' = [back EXCEPT ![r] = TRUE]
  /\ todo' = [todo EXCEPT ![r] = tried[r]]
  /\ Goto(r, "pick")
  /\ UNCHANGED <<journalVars, ecsVars, hostVars, planVars, tried, now, errs>>

\* Faulty: an unknown outcome is handled like any other failure.
UnknownRecovers(r) ==
  /\ ~back[r]
  /\ pc[r] \in {"send", "poll", "attestRunner"}
  /\ back' = [back EXCEPT ![r] = TRUE]
  /\ todo' = [todo EXCEPT ![r] = tried[r]]
  /\ Goto(r, "pick")
  /\ UNCHANGED <<journalVars, ecsVars, hostVars, planVars, tried, now, errs>>

(* The SSM command was perhaps sent, or perhaps still runs: no recovery. *)
UnknownForward(r) ==
  /\ ~back[r]
  /\ pc[r] \in {"send", "poll", "attestRunner"}
  /\ errs' = [errs EXCEPT ![r] = TRUE]
  /\ Goto(r, "close")
  /\ UNCHANGED <<journalVars, ecsVars, hostVars, planVars, back, todo, tried, now>>

\* Faulty: nothing bounds the polls for a restored revision.
RestoreWaitsOn(r) ==
  /\ back[r]
  /\ pc[r] \in {"update", "send", "poll"}
  /\ errs' = [errs EXCEPT ![r] = TRUE]
  /\ todo' = [todo EXCEPT ![r] = @ \ {now[r]}]
  /\ Goto(r, "pick")
  /\ UNCHANGED <<journalVars, ecsVars, hostVars, planVars, back, tried, now>>

(* An error while restoring is collected, and the next service is restored. *)
RestoreError(r) ==
  /\ back[r]
  /\ pc[r] \in {"update", "await", "send", "poll"}
  /\ errs' = [errs EXCEPT ![r] = TRUE]
  /\ todo' = [todo EXCEPT ![r] = @ \ {now[r]}]
  /\ Goto(r, "pick")
  /\ UNCHANGED <<journalVars, ecsVars, hostVars, planVars, back, tried, now>>

VerifyRestored(r) ==
  /\ pc[r] = "verify"
  /\ \/ /\ Stable
        /\ Goto(r, "verifyRunner")
        /\ errs' = [errs EXCEPT ![r] = @ \/ running # base[r]]
     \/ /\ Goto(r, "close")
        /\ errs' = [errs EXCEPT ![r] = TRUE]
  /\ UNCHANGED <<journalVars, ecsVars, hostVars, planVars, back, todo, tried, now>>

VerifyRunner(r) ==
  /\ pc[r] = "verifyRunner"
  /\ \/ /\ RunnerIs(base[r]["ai-app"])
        /\ UNCHANGED errs
     \/ errs' = [errs EXCEPT ![r] = TRUE]
  /\ Goto(r, "close")
  /\ UNCHANGED <<journalVars, ecsVars, hostVars, planVars, back, todo, tried, now>>

\* Faulty: the collected errors are not looked at.
CloseRestored(r) ==
  /\ pc[r] = "close"
  /\ active' = [status |-> "restored_previous", run |-> r]
  /\ Goto(r, "end")
  /\ UNCHANGED <<last, previous, attested, ecsVars, hostVars, planVars, workVars>>

CloseJournal(r) ==
  /\ pc[r] = "close"
  /\ active' = [status |-> IF errs[r] THEN "recovery_required" ELSE "restored_previous",
                run |-> r]
  /\ Goto(r, "end")
  /\ UNCHANGED <<last, previous, attested, ecsVars, hostVars, planVars, workVars>>

-----------------------------------------------------------------------------
(* Three separate writes record a success. *)

\* Faulty: a repeated release is saved as its own predecessor.
SavePreviousAlways(r) ==
  /\ pc[r] = "previous"
  /\ previous' = old[r]
  /\ Goto(r, "last")
  /\ UNCHANGED <<active, last, attested, ecsVars, hostVars, planVars, workVars>>

SavePrevious(r) ==
  /\ pc[r] = "previous"
  /\ IF old[r] # None /\ Manifest[old[r]] # Manifest[sel[r]]
     THEN previous' = old[r]
     ELSE UNCHANGED previous
  /\ Goto(r, "last")
  /\ UNCHANGED <<active, last, attested, ecsVars, hostVars, planVars, workVars>>

SaveLast(r) ==
  /\ pc[r] = "last"
  /\ last' = sel[r]
  /\ attested' = IF last # None /\ Manifest[last] = Manifest[sel[r]]
                 THEN attested ELSE Append(attested, sel[r])
  /\ Goto(r, "finish")
  /\ UNCHANGED <<active, previous, ecsVars, hostVars, planVars, workVars>>

Finish(r) ==
  /\ pc[r] = "finish"
  /\ active' = [status |-> "healthy", run |-> r]
  /\ Goto(r, "end")
  /\ UNCHANGED <<last, previous, attested, ecsVars, hostVars, planVars, workVars>>

(* The process is killed, or raises where nothing recovers. *)
Die(r) ==
  /\ pc[r] \notin {"start", "end"}
  /\ Goto(r, "end")
  /\ UNCHANGED <<journalVars, ecsVars, hostVars, planVars, workVars>>

-----------------------------------------------------------------------------
(* ECS: a rollout ends, or its circuit breaker rolls it back. *)

RolloutCompletes(s) ==
  /\ running[s] # target[s]
  /\ running' = [running EXCEPT ![s] = target[s]]
  /\ UNCHANGED <<journalVars, target, hostVars, planVars, workVars, pc>>

BreakerRollsBack(s) ==
  /\ running[s] # target[s]
  /\ target' = [target EXCEPT ![s] = running[s]]
  /\ UNCHANGED <<journalVars, running, hostVars, planVars, workVars, pc>>

(* The host runs one command at a time: its lock is not waited for. *)
HostStart(c) ==
  /\ c.at = "queued"
  /\ HostFree
  /\ inflight' = (inflight \ {c}) \cup {[c EXCEPT !.at = "running"]}
  /\ UNCHANGED <<journalVars, ecsVars, configured, runner, reply, planVars, workVars, pc>>

HostOverride(c) ==
  /\ c.at = "running"
  /\ configured' = c.image
  /\ inflight' = (inflight \ {c}) \cup {[c EXCEPT !.at = "written"]}
  /\ UNCHANGED <<journalVars, ecsVars, runner, reply, planVars, workVars, pc>>

HostUp(c) ==
  /\ c.at = "written"
  /\ runner' = c.image
  /\ inflight' = (inflight \ {c}) \cup {[c EXCEPT !.at = "up"]}
  /\ UNCHANGED <<journalVars, ecsVars, configured, reply, planVars, workVars, pc>>

HostSucceeds(c) ==
  /\ c.at = "up"
  /\ inflight' = inflight \ {c}
  /\ reply' = [reply EXCEPT ![c.run] = "success"]
  /\ UNCHANGED <<journalVars, ecsVars, configured, runner, planVars, workVars, pc>>

(* The script exits with an error, or finds the lock taken. *)
HostFails(c) ==
  /\ c.at = "queued" => ~HostFree
  /\ inflight' = inflight \ {c}
  /\ reply' = [reply EXCEPT ![c.run] = "failed"]
  /\ UNCHANGED <<journalVars, ecsVars, configured, runner, planVars, workVars, pc>>

(* The command is dropped before it starts: delivery timed out, or was cancelled. *)
HostDrops(c) ==
  /\ c.at = "queued"
  /\ inflight' = inflight \ {c}
  /\ UNCHANGED <<journalVars, ecsVars, configured, runner, reply, planVars, workVars, pc>>

-----------------------------------------------------------------------------
Advance(r) ==
  \/ Check(r) \/ Snapshot(r) \/ InspectRunner(r) \/ Refuse(r) \/ OpenJournal(r)
  \/ PickNext(r) \/ PickRestore(r) \/ PickNone(r) \/ UpdateService(r) \/ RolledOut(r)
  \/ SendCommand(r) \/ RunnerDeployed(r) \/ AttestServices(r) \/ AttestRunner(r)
  \/ RaiseForward(r) \/ UnknownForward(r) \/ RestoreError(r)
  \/ VerifyRestored(r) \/ VerifyRunner(r) \/ CloseJournal(r)
  \/ SavePrevious(r) \/ SaveLast(r) \/ Finish(r)

Ecs == \E s \in Services : RolloutCompletes(s) \/ BreakerRollsBack(s)

Host ==
  \E c \in inflight : \/ HostStart(c) \/ HostOverride(c) \/ HostUp(c)
                      \/ HostSucceeds(c) \/ HostFails(c) \/ HostDrops(c)

Next ==
  \/ \E r \in Runs : Start(r) \/ StartRollback(r) \/ Advance(r) \/ Die(r)
  \/ Ecs
  \/ Host

PromotionSpec == Init /\ [][Next]_promotionVars

(* Every poll of the script is bounded, so a run that is not killed goes on. *)
LivePromotionSpec == PromotionSpec /\ \A r \in Runs : WF_promotionVars(Advance(r))

-----------------------------------------------------------------------------
Where == {"start", "check", "snapshot", "inspect", "open", "pick", "update", "await",
          "send", "poll", "attest", "attestRunner", "verify", "verifyRunner", "close",
          "previous", "last", "finish", "end"}
Commands == [run : Runs, image : Images, at : {"queued", "running", "written", "up"}]

(* Every variable has its type. *)
ReleaseTypeOK ==
  /\ active \in [status : {"none", "deploying", "recovery_required",
                           "restored_previous", "healthy"}, run : Runs \cup {None}]
  /\ last \in Releases \cup {None}
  /\ previous \in Releases \cup {None}
  /\ attested \in Seq(Releases)
  /\ target \in [Services -> Images]
  /\ running \in [Services -> Images]
  /\ configured \in Images
  /\ runner \in Images
  /\ inflight \subseteq Commands
  /\ reply \in [Runs -> {"none", "success", "failed"}]
  /\ pc \in [Runs -> Where]
  /\ back \in [Runs -> BOOLEAN]
  /\ sel \in [Runs -> Releases \cup {None}]
  /\ old \in [Runs -> Releases \cup {None}]
  /\ base \in [Runs -> [Services -> Images]]
  /\ todo \in [Runs -> SUBSET Services]
  /\ tried \in [Runs -> SUBSET Services]
  /\ now \in [Runs -> Services]
  /\ errs \in [Runs -> BOOLEAN]

(* Whatever fails or is killed, and whenever: as long as the journal lets another  *)
(* run in, the three services and the runner all have the images of last-success, *)
(* nothing is rolling out and no command can still change the runner.             *)
AcceptingMeansWhole ==
  Accepting(active.status) /\ last # None =>
    /\ target = Manifest[last]
    /\ running = Manifest[last]
    /\ configured = Manifest[last]["ai-app"]
    /\ runner = Manifest[last]["ai-app"]
    /\ inflight = {}

(* "inspect command before any competing recovery": no run is about to change a   *)
(* service or the runner while a runner command, its own or of a run that stopped  *)
(* waiting for it, may still act.                                                 *)
NoCompetingMutation ==
  \A r \in Runs : pc[r] \in {"update", "send"} => inflight = {}

(* When the journal lets a run in, the images a rollback would select are those    *)
(* in production just before these, although the two are written separately.      *)
RollbackGoesOneBack ==
  Accepting(active.status) /\ previous # None =>
    /\ Len(attested) >= 2
    /\ Manifest[previous] = Manifest[attested[Len(attested) - 1]]
    /\ Manifest[last] = Manifest[attested[Len(attested)]]

(* A run changes production only while the journal says it is this run that does,  *)
(* whatever a run killed before it left: test_unfinished_journal_blocks_all_new_    *)
(* mutations.  With Exclusive, runs come one at a time: the journal alone would not *)
(* keep two apart that overlap.                                                     *)
UnfinishedJournalBlocks ==
  \A r \in Runs : pc[r] \in {"update", "send"} => active = [status |-> "deploying", run |-> r]

(* A run that starts and is not killed ends: a rollout, a command or a failed     *)
(* recovery cannot keep it, or the workflow's queue behind it, waiting for ever.  *)
EveryRunEnds == \A r \in Runs : pc[r] # "start" ~> pc[r] = "end"
=============================================================================
