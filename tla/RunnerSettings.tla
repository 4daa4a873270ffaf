--------------------------- MODULE RunnerSettings ---------------------------
(***************************************************************************)
(* The update of the VLM endpoint (src/scripts/update-v2-runpod.py): one   *)
(* parameter, the AI API whose tasks read it when they start, and the job  *)
(* runner on a shared host, changed there by SSM commands that execute     *)
(* src/scripts/ai_runner_runtime.py.                                       *)
(*                                                                         *)
(* The workflow lets in one update at a time, but nothing in it waits for  *)
(* the commands of the one before: a command outlives the update that sent *)
(* it.  Somebody else may also write the parameter (ForeignPut).  `pc` is  *)
(* the call the update makes next; a call that raises after it took effect *)
(* is its step followed by a failure.  A signal raises out of whatever call *)
(* is under way; only where that is no failure of this call it is a step   *)
(* of its own (Interrupted).  Of report["status"] only what a healthy or a  *)
(* restored_previous one claims is kept (settled).  Left out: a reboot of  *)
(* the host, and changes of the runner's image.                            *)
(***************************************************************************)
EXTENDS Naturals

CONSTANTS
  Urls,         \* endpoints
  NoUrl,        \* a runner that never had one
  MaxOps,       \* how many updates are started
  MaxForeign    \* how often somebody else writes the parameter

ASSUME SettingsAssumption ==
  /\ NoUrl \notin Urls
  /\ MaxOps \in Nat
  /\ MaxForeign \in Nat

Ops == 1..MaxOps

VARIABLES
  param,               \* VLM_BASE_URL: its value and version
  foreign,             \* writes of somebody else
  target, running,     \* revision of the AI API: the service's, and its tasks'
  rollout,             \* "done", "wanted", "started" or "failed"
  fresh, apiUrl,       \* endpoint read by the tasks that start, and by those that serve
  file, container,     \* endpoint in the runner's env file, and in its container
  backup,              \* backup[o]: the file of operation o under /run
  inflight,            \* SSM commands that may still act
  reply,               \* how the command waited for ended, once SSM says so
  op, pc,              \* the update and its next call
  new, old, prev,      \* its endpoint, the parameter and the revision it found
  version, restored,   \* versions it wrote: the new value's and the old one's; 0 if none
  touched,             \* runnerAttempted
  signalled,           \* history: a signal ended the update's wait for sync-vlm
  settled              \* history: what the last update that settled left behind

paramVars == <<param, foreign>>
apiVars == <<target, running, rollout, fresh, apiUrl>>
hostVars == <<file, container, backup, inflight>>
planVars == <<op, new, old>>
workVars == <<prev, version, restored, touched, signalled>>
settingsVars == <<paramVars, apiVars, hostVars, reply, pc, planVars, workVars, settled>>

NoBackup == [state |-> "none", api |-> NoUrl, version |-> 0, old |-> NoUrl, new |-> NoUrl]
Stable == rollout = "done" /\ target = running
HostFree == \A c \in inflight : c.at = "queued"
Own == {c \in inflight : c.op = op}

Init ==
  /\ \E u \in Urls : /\ param = [url |-> u, version |-> 1]
                     /\ apiUrl = u
                     /\ fresh = u
  /\ foreign = 0
  /\ target = 0 /\ running = 0 /\ rollout = "done"
  /\ file \in {apiUrl, NoUrl}
  /\ container = file
  /\ backup = [o \in Ops |-> NoBackup]
  /\ inflight = {} /\ reply = "none"
  /\ op = 0 /\ pc = "idle"
  /\ new = param.url /\ old = param /\ prev = 0 /\ signalled = FALSE
  /\ version = 0 /\ restored = 0 /\ touched = FALSE
  /\ settled = [version |-> 1, url |-> param.url, runner |-> file, known |-> TRUE]

-----------------------------------------------------------------------------
(* Preflight: nothing is written but the backup's metadata on the host. *)

Start ==
  /\ pc = "idle" /\ op < MaxOps
  /\ op' = op + 1
  /\ new' \in Urls
  /\ pc' = "read"
  /\ UNCHANGED <<paramVars, apiVars, hostVars, reply, old, workVars, settled>>

\* The process ends, and what it knew is gone.
Quit ==
  /\ pc' = "idle" /\ reply' = "none"
  /\ prev' = 0 /\ version' = 0 /\ restored' = 0
  /\ touched' = FALSE /\ signalled' = FALSE
  /\ UNCHANGED planVars

Read ==
  /\ pc = "read" /\ Stable
  /\ prev' = running /\ old' = param
  /\ pc' = "inspect"
  /\ UNCHANGED <<paramVars, apiVars, hostVars, reply, op, new, version, restored,
                 touched, signalled, settled>>

Send(act, v) ==
  /\ inflight' = inflight \cup {[op |-> op, act |-> act, version |-> v,
                                 at |-> "queued", url |-> NoUrl]}
  /\ reply' = "none"
  /\ UNCHANGED <<paramVars, apiVars, file, container, backup, planVars, settled>>

Inspect ==
  /\ pc = "inspect"
  /\ Send("inspect", old.version)
  /\ pc' = "inspected"
  /\ UNCHANGED workVars

(* The endpoint answers, the candidate is registered, and nothing has moved since. *)
Recheck ==
  /\ pc = "inspected" /\ reply = "success"
  /\ Stable /\ running = prev
  /\ param.version = old.version
  /\ pc' = "put"
  /\ UNCHANGED <<paramVars, apiVars, hostVars, reply, planVars, workVars, settled>>

Refuse ==
  /\ pc \in {"read", "inspect", "inspected"}
  /\ Quit
  /\ UNCHANGED <<paramVars, apiVars, hostVars, settled>>

-----------------------------------------------------------------------------
(* The update. *)

PutParameter(u) == param' = [url |-> u, version |-> param.version + 1]

(* The answer may be lost: then the version written stays unknown. *)
PutNew ==
  /\ pc = "put"
  /\ PutParameter(new)
  /\ \/ pc' = "update" /\ version' = param'.version
     \/ pc' = "recover" /\ UNCHANGED version
  /\ UNCHANGED <<foreign, apiVars, hostVars, reply, planVars, prev, restored, touched,
                 signalled, settled>>

UpdateService(revision) ==
  /\ target' = revision /\ rollout' = "wanted"
  /\ UNCHANGED <<running, fresh, apiUrl>>

UpdateApi ==
  /\ pc = "update"
  /\ UpdateService(op)
  /\ pc' = "await"
  /\ UNCHANGED <<paramVars, hostVars, reply, planVars, workVars, settled>>

(* wait_api() returns and the endpoint answers once more. *)
ApiReady ==
  /\ pc = "await" /\ Stable /\ running = op
  /\ pc' = "sync" /\ touched' = TRUE
  /\ UNCHANGED <<paramVars, apiVars, hostVars, reply, planVars, prev, version, restored,
                 signalled, settled>>

Sync ==
  /\ pc = "sync"
  /\ Send("sync", version)
  /\ pc' = "synced"
  /\ UNCHANGED workVars

(* sync-vlm succeeded: the update has settled, whatever becomes of the clean-up. *)
Finalize ==
  /\ pc = "synced" /\ reply = "success"
  /\ inflight' = inflight \cup {[op |-> op, act |-> "finalize", version |-> version,
                                 at |-> "queued", url |-> NoUrl]}
  /\ Quit
  /\ settled' = [version |-> version, url |-> new, runner |-> new, known |-> TRUE]
  /\ UNCHANGED <<paramVars, apiVars, file, container, backup>>

-----------------------------------------------------------------------------
(* Failures. *)

(* A failure whose outcome is known: recover. *)
Fail ==
  /\ pc \in {"put", "update", "await", "sync"} \/ (pc = "synced" /\ reply = "failed")
  /\ pc' = "recover"
  /\ UNCHANGED <<paramVars, apiVars, hostVars, reply, planVars, workVars, settled>>

\* Faulty: RunnerStateUnknown is handled like any other failure.
UnknownRecovers ==
  /\ pc \in {"sync", "synced"}
  /\ pc' = "recover"
  /\ UNCHANGED <<paramVars, apiVars, hostVars, reply, planVars, workVars, settled>>

(* RunnerStateUnknown: the command was perhaps sent, or perhaps still runs. *)
Unknown ==
  /\ pc \in {"sync", "synced"}
  /\ Quit
  /\ UNCHANGED <<paramVars, apiVars, hostVars, settled>>

(* interrupted() raises a plain RuntimeError out of the sleep between two polls of *)
(* sync-vlm: it is taken for a failure of known outcome.                            *)
Interrupted ==
  /\ pc = "synced"
  /\ pc' = "recover" /\ signalled' = TRUE
  /\ UNCHANGED <<paramVars, apiVars, hostVars, reply, planVars, prev, version, restored,
                 touched, settled>>

(* Only what this update wrote itself is taken back. *)
CheckRecovery ==
  /\ pc = "recover"
  /\ version # 0
  /\ target \in {prev, op}
  /\ param = [url |-> new, version |-> version]
  /\ pc' = "restoreParam"
  /\ UNCHANGED <<paramVars, apiVars, hostVars, reply, planVars, workVars, settled>>

RestoreParam ==
  /\ pc = "restoreParam"
  /\ PutParameter(old.url)
  /\ restored' = param'.version
  /\ pc' = "restoreApi"
  /\ UNCHANGED <<foreign, apiVars, hostVars, reply, planVars, prev, version, touched,
                 signalled, settled>>

\* Faulty: without force, ECS starts no task for a revision that runs already.
RestoreApiUnforced ==
  /\ pc = "restoreApi"
  /\ target' = prev /\ rollout' = IF target = prev THEN rollout ELSE "wanted"
  /\ pc' = "restoreAwait"
  /\ UNCHANGED <<paramVars, running, fresh, apiUrl, hostVars, reply, planVars, workVars,
                 settled>>

(* update(previous, force=True): even tasks of that revision start anew. *)
RestoreApi ==
  /\ pc = "restoreApi"
  /\ UpdateService(prev)
  /\ pc' = "restoreAwait"
  /\ UNCHANGED <<paramVars, hostVars, reply, planVars, workVars, settled>>

RestoredApi ==
  /\ pc = "restoreAwait" /\ Stable /\ running = prev
  /\ IF touched
     THEN pc' = "restoreRunner" /\ UNCHANGED <<reply, planVars, workVars, settled>>
     ELSE /\ Quit
          /\ settled' = [version |-> restored, url |-> old.url, runner |-> NoUrl, known |-> FALSE]
  /\ UNCHANGED <<paramVars, apiVars, hostVars>>

RestoreRunner ==
  /\ pc = "restoreRunner"
  /\ Send("restore", restored)
  /\ pc' = "restoredRunner"
  /\ UNCHANGED workVars

RestoredRunner ==
  /\ pc = "restoredRunner" /\ reply = "success"
  /\ Quit
  /\ settled' = [version |-> restored, url |-> old.url, runner |-> backup[op].old, known |-> TRUE]
  /\ UNCHANGED <<paramVars, apiVars, hostVars>>

\* Faulty: nothing bounds the polls for the restored revision.
RecoveryWaitsOn ==
  /\ pc \in {"recover", "restoreParam", "restoreApi", "restoreRunner", "restoredRunner"}
  /\ Quit
  /\ UNCHANGED <<paramVars, apiVars, hostVars, settled>>

RecoveryFails ==
  /\ pc \in {"recover", "restoreParam", "restoreApi", "restoreAwait",
             "restoreRunner", "restoredRunner"}
  /\ Quit
  /\ UNCHANGED <<paramVars, apiVars, hostVars, settled>>

(* The process is killed. *)
Die ==
  /\ pc # "idle"
  /\ Quit
  /\ UNCHANGED <<paramVars, apiVars, hostVars, settled>>

-----------------------------------------------------------------------------
(* ECS: a rollout starts tasks, which read the parameter, and completes or is   *)
(* rolled back; a task may be replaced at any time.                             *)

RolloutStarts ==
  /\ rollout = "wanted"
  /\ fresh' = param.url /\ rollout' = "started"
  /\ UNCHANGED <<paramVars, target, running, apiUrl, hostVars, reply, pc, planVars,
                 workVars, settled>>

RolloutCompletes ==
  /\ rollout = "started"
  /\ running' = target /\ apiUrl' = fresh /\ rollout' = "done"
  /\ UNCHANGED <<paramVars, target, fresh, hostVars, reply, pc, planVars, workVars, settled>>

(* A failed rollout of the revision that ran already is seen by the polls: ECS  *)
(* lists it longer than they are apart.                                         *)
BreakerRollsBack ==
  /\ rollout \in {"wanted", "started"}
  /\ target' = running
  /\ rollout' = IF target = running THEN "failed" ELSE "done"
  /\ UNCHANGED <<paramVars, running, fresh, apiUrl, hostVars, reply, pc, planVars,
                 workVars, settled>>

FailureForgotten ==
  /\ rollout = "failed" /\ pc # "restoreAwait"
  /\ rollout' = "done"
  /\ UNCHANGED <<paramVars, target, running, fresh, apiUrl, hostVars, reply, pc,
                 planVars, workVars, settled>>

TaskReplaced ==
  /\ apiUrl # param.url
  /\ apiUrl' = param.url
  /\ UNCHANGED <<paramVars, target, running, rollout, fresh, hostVars, reply, pc,
                 planVars, workVars, settled>>

ForeignPut ==
  /\ foreign < MaxForeign
  /\ foreign' = foreign + 1
  /\ \E u \in Urls : PutParameter(u)
  /\ UNCHANGED <<apiVars, hostVars, reply, pc, planVars, workVars, settled>>

-----------------------------------------------------------------------------
(* The runner's host: one command at a time, the lock is not waited for. *)

hostKeeps == <<paramVars, apiVars, pc, planVars, workVars, settled>>
Becomes(c, d) == inflight' = (inflight \ {c}) \cup {d} /\ UNCHANGED reply

\* The update polls this command, and none that it sent before.
Awaited(c) ==
  /\ c.op = op
  /\ \/ pc = "inspected" /\ c.act = "inspect"
     \/ pc = "synced" /\ c.act = "sync"
     \/ pc = "restoredRunner" /\ c.act = "restore"

Ends(c, result) ==
  /\ inflight' = inflight \ {c}
  /\ reply' = IF Awaited(c) THEN result ELSE reply

(* inspect-settings *)
HostInspects(c) ==
  /\ c.at = "queued" /\ c.act = "inspect" /\ HostFree
  /\ file = container
  /\ param.version = c.version
  /\ backup[c.op] = NoBackup
  /\ backup' = [backup EXCEPT ![c.op] = [state |-> "prepared", api |-> param.url,
                                         version |-> param.version, old |-> file, new |-> NoUrl]]
  /\ Ends(c, "success")
  /\ UNCHANGED <<file, container, hostKeeps>>

\* Faulty: the file is written before the backup that undoes it.
HostChecksUnsaved(c) ==
  /\ c.at = "queued" /\ c.act = "sync" /\ HostFree
  /\ backup[c.op].state = "prepared"
  /\ file = backup[c.op].old /\ container = file
  /\ c.version > backup[c.op].version /\ param.version = c.version
  /\ Becomes(c, [c EXCEPT !.at = "saved", !.url = param.url])
  /\ UNCHANGED <<file, container, backup, hostKeeps>>

(* sync-vlm: every check, and the endpoint as the parameter has it now *)
HostChecks(c) ==
  /\ c.at = "queued" /\ c.act = "sync" /\ HostFree
  /\ backup[c.op].state = "prepared"
  /\ file = backup[c.op].old /\ container = file
  /\ c.version > backup[c.op].version /\ param.version = c.version
  /\ Becomes(c, [c EXCEPT !.at = "checked", !.url = param.url])
  /\ UNCHANGED <<file, container, backup, hostKeeps>>

HostBacksUp(c) ==
  /\ c.at = "checked" /\ c.act = "sync"
  /\ backup' = [backup EXCEPT ![c.op].state = "updating", ![c.op].new = c.url]
  /\ Becomes(c, [c EXCEPT !.at = "saved"])
  /\ UNCHANGED <<file, container, hostKeeps>>

HostWrites(c) ==
  /\ c.at = "saved"
  /\ file' = c.url
  /\ Becomes(c, [c EXCEPT !.at = "written"])
  /\ UNCHANGED <<container, backup, hostKeeps>>

HostRecreates(c) ==
  /\ c.at = "written"
  /\ container' = file
  /\ Becomes(c, [c EXCEPT !.at = "recreated"])
  /\ UNCHANGED <<file, backup, hostKeeps>>

HostSynced(c) ==
  /\ c.at = "recreated" /\ c.act = "sync"
  /\ Ends(c, "success")
  /\ UNCHANGED <<file, container, backup, hostKeeps>>

(* restore-vlm: nothing to undo if the sync never got as far as its backup *)
HostUnchanged(c) ==
  /\ c.at = "queued" /\ c.act = "restore" /\ HostFree
  /\ param = [url |-> backup[c.op].api, version |-> c.version]
  /\ backup[c.op].state = "prepared"
  /\ file = backup[c.op].old /\ container = file
  /\ backup' = [backup EXCEPT ![c.op].state = "none"]
  /\ Ends(c, "success")
  /\ UNCHANGED <<file, container, hostKeeps>>

HostRestores(c) ==
  /\ c.at = "queued" /\ c.act = "restore" /\ HostFree
  /\ param = [url |-> backup[c.op].api, version |-> c.version]
  /\ backup[c.op].state = "updating"
  /\ {file, container} \subseteq {backup[c.op].old, backup[c.op].new}
  /\ Becomes(c, [c EXCEPT !.at = "saved", !.url = backup[c.op].old])
  /\ UNCHANGED <<file, container, backup, hostKeeps>>

HostRestored(c) ==
  /\ c.at = "recreated" /\ c.act = "restore"
  /\ backup' = [backup EXCEPT ![c.op].state = "none"]
  /\ Ends(c, "success")
  /\ UNCHANGED <<file, container, hostKeeps>>

HostFinalizes(c) ==
  /\ c.at = "queued" /\ c.act = "finalize" /\ HostFree
  /\ backup' = [backup EXCEPT ![c.op] = NoBackup]
  /\ Ends(c, "success")
  /\ UNCHANGED <<file, container, hostKeeps>>

(* A check fails, the lock is taken, or the script dies wherever it stands. *)
HostFails(c) ==
  /\ Ends(c, "failed")
  /\ UNCHANGED <<file, container, backup, hostKeeps>>

-----------------------------------------------------------------------------
Update ==
  \/ Read \/ Inspect \/ Recheck \/ Refuse \/ PutNew \/ UpdateApi \/ ApiReady \/ Sync
  \/ Finalize \/ Fail \/ Unknown \/ Interrupted \/ CheckRecovery \/ RestoreParam \/ RestoreApi
  \/ RestoredApi \/ RestoreRunner \/ RestoredRunner \/ RecoveryFails

Ecs == RolloutStarts \/ RolloutCompletes \/ BreakerRollsBack \/ FailureForgotten \/ TaskReplaced

Host ==
  \E c \in inflight :
    \/ HostInspects(c) \/ HostChecks(c) \/ HostBacksUp(c) \/ HostWrites(c)
    \/ HostRecreates(c) \/ HostSynced(c) \/ HostUnchanged(c) \/ HostRestores(c)
    \/ HostRestored(c) \/ HostFinalizes(c) \/ HostFails(c)

Next == Start \/ Update \/ Die \/ Ecs \/ ForeignPut \/ Host

SettingsSpec == Init /\ [][Next]_settingsVars

(* Every wait of the update is a bounded loop of polls. *)
LiveSettingsSpec == SettingsSpec /\ WF_settingsVars(Update)

-----------------------------------------------------------------------------
AnyUrl == Urls \cup {NoUrl}

(* Every variable has its type. *)
SettingsTypeOK ==
  /\ param \in [url : Urls, version : Nat] /\ old \in [url : Urls, version : Nat]
  /\ foreign \in 0..MaxForeign
  /\ {target, running, prev, op} \subseteq 0..MaxOps
  /\ rollout \in {"done", "wanted", "started", "failed"}
  /\ {fresh, apiUrl, new} \subseteq Urls
  /\ {file, container} \subseteq AnyUrl
  /\ backup \in [Ops -> [state : {"none", "prepared", "updating"}, api : AnyUrl,
                         version : Nat, old : AnyUrl, new : AnyUrl]]
  /\ inflight \subseteq
       [op : Ops, act : {"inspect", "sync", "restore", "finalize"}, version : Nat,
        at : {"queued", "checked", "saved", "written", "recreated"}, url : AnyUrl]
  /\ reply \in {"none", "success", "failed"}
  /\ pc \in {"idle", "read", "inspect", "inspected", "put", "update", "await", "sync",
             "synced", "recover", "restoreParam", "restoreApi", "restoreAwait",
             "restoreRunner", "restoredRunner"}
  /\ {version, restored} \subseteq Nat
  /\ {touched, signalled} \subseteq BOOLEAN
  /\ settled \in [version : Nat, url : Urls, runner : AnyUrl, known : BOOLEAN]

(* An update that reported healthy, or restored_previous, told the truth, and it   *)
(* stays true until the parameter is written again: the API's tasks, the revision  *)
(* and the runner's file and container all follow, and no command of an earlier    *)
(* update that is still under way can move the runner.                             *)
SettledAgrees ==
  param.version = settled.version =>
    /\ param.url = settled.url
    /\ apiUrl = settled.url
    /\ Stable
    /\ settled.known => file = settled.runner /\ container = settled.runner

(* "Do not issue a competing restore while an SSM command may still run": unless a  *)
(* signal ended its wait for sync-vlm, the update takes nothing back, neither the    *)
(* parameter nor the API nor the runner, while its own sync-vlm may still act.       *)
TakingBack == {"restoreParam", "restoreApi", "restoreAwait", "restoreRunner", "restoredRunner"}
NoCompetingRestore ==
  pc \in TakingBack /\ ~signalled => \A c \in Own : c.act # "sync"

(* The docstring as it stands, with no regard to signals: it does not hold.          *)
NeverCompetes == pc \in TakingBack => \A c \in Own : c.act # "sync"

(* Whenever the runner's file and its container disagree, the backup that undoes   *)
(* the half-made change is on the host already.                                    *)
MismatchHasBackup ==
  file # container =>
    \E o \in Ops : /\ backup[o].state = "updating"
                   /\ {file, container} \subseteq {backup[o].old, backup[o].new}

(* An update that is not killed ends: no rollout or command keeps it waiting.      *)
UpdateEnds == pc # "idle" ~> pc = "idle"
=============================================================================
