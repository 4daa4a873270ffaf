--------------------------- MODULE HostDeployment ---------------------------
(***************************************************************************)
(* The deployment of V1 to its two hosts: the workflow's controller        *)
(* (src/scripts/run-cloud-deployment.sh), the script it runs on a host     *)
(* (deploy-release.sh, rollback-release.sh), and the timer that powers the *)
(* worker's host off (configure-worker-idle-shutdown.sh,                   *)
(* worker-idle-shutdown.sh).                                               *)
(*                                                                         *)
(* The controller waits 900 seconds for a script; the script goes on, as   *)
(* `late`, when nobody waits any more.  Nothing locks the hosts.  Whether  *)
(* there are jobs is left open: ten minutes without one may pass whenever  *)
(* they can.  EC2, SSM and Docker are external.                            *)
(***************************************************************************)
EXTENDS Naturals

CONSTANTS Releases, None, First,
          MaxRuns,         \* deployments; the workflow lets in one at a time
          LateRuns         \* the last run whose scripts go on when nobody waits any more

ASSUME DeploymentAssumption ==
  First \in Releases /\ None \notin Releases /\ MaxRuns \in Nat /\ LateRuns \in Nat

Hosts == {"app", "worker"}
Slots == Hosts \cup {"late"}   \* one script nobody waits for, on any host

VARIABLES
  containers,              \* the release whose containers run, None if of several
  nginx,                   \* the release whose configuration the app's nginx serves
  current, previous, temp, \* /opt/yeodam/state/{scope}, temp being previous.tmp
  script,                  \* on each slot, a deploy-release.sh; that of a host is awaited
  power,                   \* of the worker's host: "running", or "stopped" and on its way there
  timer, service,          \* of the idle shutdown; the service is "none" or powers "off"
  ctl,                     \* run-cloud-deployment.sh
  runs,
  base,                    \* history: `current` when the run began
  clean                    \* history: no script outlived its wait or died while recording

recordVars == <<current, previous, temp>>
hostVars == <<containers, nginx, script, clean>>
workerVars == <<power, timer, service>>
runVars == <<ctl, runs, base>>
deployVars == <<recordVars, hostVars, workerVars, runVars>>

NoScript == [pc |-> "none", host |-> "app", rel |-> None, of |-> "release",
             saved |-> None, new |-> FALSE]
NoRun == [pc |-> "idle", sent |-> FALSE, commit |-> None, stopped |-> FALSE,
          paused |-> FALSE, tries |-> 1, ok |-> FALSE, recovered |-> {}]

Init ==
  /\ containers = [h \in Hosts |-> First] /\ nginx = First
  /\ current = [h \in Hosts |-> First]
  /\ previous = [h \in Hosts |-> None] /\ temp = [h \in Hosts |-> None]
  /\ script = [s \in Slots |-> NoScript]
  /\ power \in {"running", "stopped"}
  /\ timer = "active" /\ service = "none"
  /\ ctl = NoRun /\ runs = 0 /\ base = current
  /\ clean = TRUE

-----------------------------------------------------------------------------
(* deploy-release.sh on a slot.                                              *)

Ended == {"none", "done", "failed"}
Alive(s) == script[s].pc \notin Ended
At(s, step) == script[s].pc = step
Host(s) == script[s].host
Goto(s, step) == script' = [script EXCEPT ![s].pc = step]
Exits(s, result) ==
  script' = [script EXCEPT ![s] = IF s = "late" THEN NoScript ELSE [@ EXCEPT !.pc = result]]
Target(s) ==
  CASE script[s].of = "current" -> current[Host(s)]
    [] script[s].of = "previous" -> previous[Host(s)]
    [] OTHER -> script[s].rel

(* rollback-release.sh finds its target; then settings, login and pull.      *)
Begin(s) ==
  /\ At(s, "begin")
  /\ IF Target(s) = None THEN Exits(s, "failed")
     ELSE script' = [script EXCEPT ![s].rel = Target(s), ![s].pc = "up"]
  /\ UNCHANGED <<containers, nginx, clean, recordVars, workerVars, runVars>>

(* Containers of the same release are left as they are.                      *)
Up(s) ==
  /\ At(s, "up")
  /\ containers' = [containers EXCEPT ![Host(s)] = script[s].rel]
  /\ script' = [script EXCEPT ![s].pc = "health",
                              ![s].new = containers[Host(s)] # script[s].rel]
  /\ UNCHANGED <<nginx, clean, recordVars, workerVars, runVars>>

UpBreaks(s) ==
  /\ At(s, "up")
  /\ containers' = [containers EXCEPT ![Host(s)] = None]
  /\ Exits(s, "failed")
  /\ UNCHANGED <<nginx, clean, recordVars, workerVars, runVars>>

Healthy(s) ==
  /\ At(s, "health") /\ containers[Host(s)] = script[s].rel
  /\ Goto(s, IF Host(s) = "app" THEN "nginx" ELSE "timer")
  /\ UNCHANGED <<containers, nginx, clean, recordVars, workerVars, runVars>>

ApplyNginx(s) ==
  /\ At(s, "nginx")
  /\ nginx' = script[s].rel
  /\ script' = [script EXCEPT ![s].saved = nginx, ![s].pc = "check"]
  /\ UNCHANGED <<containers, clean, recordVars, workerVars, runVars>>

Check(s) ==
  /\ At(s, "check")
  /\ Goto(s, "previous")
  /\ UNCHANGED <<containers, nginx, clean, recordVars, workerVars, runVars>>

(* configure-worker-idle-shutdown.sh                                         *)
ArmTimer(s) ==
  /\ At(s, "timer")
  /\ timer' = "active"
  /\ Goto(s, "previous")
  /\ UNCHANGED <<containers, nginx, clean, recordVars, power, service, runVars>>

(* record_release_state(): previous.tmp, current, previous.                  *)
NotePrevious(s) ==
  /\ At(s, "previous")
  /\ temp' = IF current[Host(s)] # None
                /\ (script[s].of = "previous" \/ current[Host(s)] # script[s].rel)
             THEN [temp EXCEPT ![Host(s)] = current[Host(s)]] ELSE temp
  /\ Goto(s, "current")
  /\ UNCHANGED <<containers, nginx, clean, current, previous, workerVars, runVars>>

NoteCurrent(s) ==
  /\ At(s, "current")
  /\ current' = [current EXCEPT ![Host(s)] = script[s].rel]
  /\ Goto(s, "install")
  /\ UNCHANGED <<containers, nginx, clean, previous, temp, workerVars, runVars>>

InstallPrevious(s) ==
  /\ At(s, "install")
  /\ IF temp[Host(s)] = None THEN UNCHANGED <<previous, temp>>
     ELSE /\ previous' = [previous EXCEPT ![Host(s)] = temp[Host(s)]]
          /\ temp' = [temp EXCEPT ![Host(s)] = None]
  /\ Goto(s, "prune")
  /\ UNCHANGED <<containers, nginx, clean, current, workerVars, runVars>>

(* Old images are pruned; that it fails is only a warning.                   *)
Finish(s) ==
  /\ At(s, "prune")
  /\ Exits(s, "done")
  /\ UNCHANGED <<containers, nginx, clean, recordVars, workerVars, runVars>>

(* A command of the script fails: its trap restores nginx.                   *)
Fail(s) ==
  /\ script[s].pc \in {"begin", "up", "health", "nginx", "check", "timer"}
  /\ nginx' = IF At(s, "check") THEN script[s].saved ELSE nginx
  /\ timer' \in IF At(s, "timer") THEN {timer, "active"} ELSE {timer}
  /\ Exits(s, "failed")
  /\ UNCHANGED <<containers, clean, recordVars, power, service, runVars>>

Recording == {"current", "install", "prune"}

(* It is killed, by SSM after an hour or by hand: no trap.                   *)
Killed(s) ==
  /\ Alive(s)
  /\ Exits(s, "failed")
  /\ clean' = (clean /\ script[s].pc \notin Recording)
  /\ UNCHANGED <<containers, nginx, recordVars, workerVars, runVars>>

Script(s) ==
  \/ Begin(s) \/ Up(s) \/ UpBreaks(s) \/ Healthy(s) \/ ApplyNginx(s) \/ Check(s) \/ ArmTimer(s)
  \/ NotePrevious(s) \/ NoteCurrent(s) \/ InstallPrevious(s) \/ Finish(s) \/ Fail(s) \/ Killed(s)

-----------------------------------------------------------------------------
(* The worker's host.                                                        *)

(* The backend starts the host for a job: containers and timer start by      *)
(* themselves.                                                               *)
Boots == power' = "running" /\ timer' = "active" /\ service' = "none"

BackendStarts ==
  /\ power = "stopped" /\ Boots
  /\ UNCHANGED <<recordVars, hostVars, runVars>>

(* Both checks find ten minutes without a job.  A script that replaced the    *)
(* containers ends before they are that old.                                 *)
TimerFires ==
  /\ power = "running" /\ timer = "active" /\ service = "none"
  /\ \A s \in Slots : Host(s) = "worker" /\ Alive(s) => ~script[s].new
  /\ service' = "off"
  /\ UNCHANGED <<recordVars, hostVars, power, timer, runVars>>

(* Scripts on a host that goes down end with it.                             *)
CutScripts ==
  /\ script' = [s \in Slots |->
       IF Host(s) # "worker" \/ ~Alive(s) THEN script[s]
       ELSE IF s = "late" THEN NoScript ELSE [script[s] EXCEPT !.pc = "failed"]]
  /\ clean' = (clean /\ \A s \in Slots : Host(s) = "worker" => script[s].pc \notin Recording)

PowersOff ==
  /\ power = "running" /\ service = "off"
  /\ power' = "stopped" /\ service' = "none"
  /\ CutScripts
  /\ UNCHANGED <<recordVars, containers, nginx, timer, runVars>>

Worker == BackendStarts \/ TimerFires \/ PowersOff

-----------------------------------------------------------------------------
(* run-cloud-deployment.sh                                                   *)

CtlAt(step) == ctl.pc = step
CtlGoto(step) == ctl' = [ctl EXCEPT !.pc = step, !.sent = FALSE]

(* The operator starts the workflow again when no script is left.            *)
StartRun(c) ==
  /\ CtlAt("idle") /\ runs < MaxRuns /\ ~Alive("late")
  /\ ctl' = [NoRun EXCEPT !.pc = "ready", !.commit = c, !.stopped = power # "running"]
  /\ runs' = runs + 1 /\ base' = current /\ clean' = TRUE
  /\ UNCHANGED <<recordVars, containers, nginx, script, workerVars>>

(* ensure_worker_ready(), before the pause and before the worker's files.    *)
Ready ==
  /\ CtlAt("ready") \/ CtlAt("ready again")
  /\ \/ power = "running" /\ UNCHANGED workerVars
     \/ power = "stopped" /\ Boots
  /\ CtlGoto(IF CtlAt("ready") THEN "pause" ELSE "stage worker")
  /\ UNCHANGED <<recordVars, hostVars, runs, base>>

(* A power off that systemd has begun is not taken back.                     *)
Pause ==
  /\ CtlAt("pause") /\ power = "running"
  /\ timer' = "inactive"
  /\ service' = IF service = "off" THEN "off" ELSE "none"
  /\ ctl' = [ctl EXCEPT !.pc = "stage app", !.paused = TRUE]
  /\ UNCHANGED <<recordVars, hostVars, power, runs, base>>

PauseFails ==
  /\ CtlAt("pause")
  /\ timer' \in IF power = "running" THEN {timer, "inactive"} ELSE {timer}
  /\ IF power # "running" /\ ctl.tries < 3
     THEN ctl' = [ctl EXCEPT !.pc = "ready", !.tries = @ + 1]
     ELSE CtlGoto("exit")
  /\ UNCHANGED <<recordVars, hostVars, power, service, runs, base>>

Stage ==
  /\ CtlAt("stage app") \/ (CtlAt("stage worker") /\ power = "running")
  /\ CtlGoto(IF CtlAt("stage app") THEN "ready again" ELSE "deploy app")
  /\ UNCHANGED <<recordVars, hostVars, workerVars, runs, base>>

Stops ==
  /\ ctl.pc \in {"ready", "ready again", "stage app", "stage worker"}
  /\ CtlGoto("exit")
  /\ UNCHANGED <<recordVars, hostVars, workerVars, runs, base>>

(* deploy_scope() and recover_scope(): a host, and what rollback-release.sh  *)
(* is to go back to.                                                         *)
\* Faulty: the app is told to roll back to what its record names as current.
CommandsWithoutUndo ==
  [p \in {"deploy app", "return app", "deploy worker", "return worker", "undo app"} |->
     CASE p = "deploy app" -> <<"app", "release">>
       [] p \in {"return app", "undo app"} -> <<"app", "current">>
       [] p = "deploy worker" -> <<"worker", "release">>
       [] p = "return worker" -> <<"worker", "current">>]
Commands ==
  [p \in {"deploy app", "return app", "deploy worker", "return worker", "undo app"} |->
     CASE p = "deploy app" -> <<"app", "release">>
       [] p = "return app" -> <<"app", "current">>
       [] p = "deploy worker" -> <<"worker", "release">>
       [] p = "return worker" -> <<"worker", "current">>
       [] p = "undo app" -> <<"app", "previous">>]
Sent == Commands[ctl.pc][1]

\* Faulty: the worker is deployed whatever became of the app.
AfterUnchecked(p, ok) ==
  CASE p = "deploy app" -> "deploy worker"
    [] p = "deploy worker" -> IF ok THEN "exit" ELSE "return worker"
    [] p = "return worker" -> "undo app"
    [] OTHER -> "exit"
After(p, ok) ==
  CASE p = "deploy app" -> IF ok THEN "deploy worker" ELSE "return app"
    [] p = "deploy worker" -> IF ok THEN "exit" ELSE "return worker"
    [] p = "return worker" -> "undo app"
    [] OTHER -> "exit"

Answered(ok) ==
  ctl' = [ctl EXCEPT !.pc = After(@, ok), !.sent = FALSE,
                     !.ok = ok /\ CtlAt("deploy worker"),
                     !.recovered = IF ok /\ Commands[ctl.pc][2] # "release"
                                   THEN @ \cup {Commands[ctl.pc]} ELSE @]

Send ==
  /\ ctl.pc \in DOMAIN Commands /\ ~ctl.sent
  /\ Sent = "worker" => power = "running"
  /\ script' = [script EXCEPT ![Sent] =
       [NoScript EXCEPT !.pc = "begin", !.host = Sent, !.rel = ctl.commit, !.of = Commands[ctl.pc][2]]]
  /\ ctl' = [ctl EXCEPT !.sent = TRUE]
  /\ UNCHANGED <<recordVars, containers, nginx, clean, workerVars, runs, base>>

SendFails ==
  /\ ctl.pc \in DOMAIN Commands /\ ~ctl.sent
  /\ Answered(FALSE)
  /\ UNCHANGED <<recordVars, hostVars, workerVars, runs, base>>

(* A power off is over long before a script is.                              *)
Answer ==
  /\ ctl.pc \in DOMAIN Commands /\ ctl.sent /\ ~Alive(Sent) /\ service # "off"
  /\ Answered(At(Sent, "done"))
  /\ script' = [script EXCEPT ![Sent] = NoScript]
  /\ UNCHANGED <<recordVars, containers, nginx, clean, workerVars, runs, base>>

(* Whoever waited is gone; a script that was late before has ended by now.   *)
Abandon(h) ==
  /\ script' = [script EXCEPT !["late"] = IF Alive(h) /\ runs <= LateRuns THEN script[h] ELSE @,
                              ![h] = NoScript]
  /\ clean' = (clean /\ ~Alive(h))

TimesOut ==
  /\ ctl.pc \in DOMAIN Commands /\ ctl.sent /\ Alive(Sent)
  /\ Abandon(Sent)
  /\ Answered(FALSE)
  /\ UNCHANGED <<recordVars, containers, nginx, workerVars, runs, base>>

(* restore_worker_state(), the trap.                                         *)
ResumeTimer ==
  /\ CtlAt("exit")
  /\ timer' \in IF ctl.paused /\ power = "running" THEN {"active", timer} ELSE {timer}
  /\ CtlGoto("stop")
  /\ UNCHANGED <<recordVars, hostVars, power, service, runs, base>>

StopWorker ==
  /\ CtlAt("stop")
  /\ \/ /\ ctl.stopped
        /\ power' = "stopped" /\ service' = "none"
        /\ CutScripts
        /\ UNCHANGED <<containers, nginx, timer>>
     \/ UNCHANGED <<hostVars, workerVars>>   \* not stopped before, or the call fails
  /\ ctl' = NoRun
  /\ UNCHANGED <<recordVars, runs, base>>

(* The job is cancelled: bash may still run its trap.                        *)
Cancelled ==
  /\ ~CtlAt("idle")
  /\ IF ctl.sent THEN Abandon(Sent) ELSE UNCHANGED <<script, clean>>
  /\ \/ ctl' = NoRun
     \/ ~(CtlAt("exit") \/ CtlAt("stop")) /\ ctl' = [ctl EXCEPT !.pc = "exit", !.sent = FALSE]
  /\ UNCHANGED <<recordVars, containers, nginx, workerVars, runs, base>>

Controller ==
  \/ Ready \/ Pause \/ PauseFails \/ Stage \/ Stops \/ Send \/ SendFails \/ Answer \/ TimesOut
  \/ ResumeTimer \/ StopWorker

Next ==
  \/ \E c \in Releases : StartRun(c)
  \/ Controller \/ Cancelled \/ Worker
  \/ \E s \in Slots : Script(s)

DeploySpec == Init /\ [][Next]_deployVars

-----------------------------------------------------------------------------
(* Every variable has its type. *)
DeployTypeOK ==
  /\ containers \in [Hosts -> Releases \cup {None}] /\ nginx \in Releases
  /\ current \in [Hosts -> Releases]
  /\ previous \in [Hosts -> Releases \cup {None}] /\ temp \in [Hosts -> Releases \cup {None}]
  /\ script \in [Slots -> [pc : Ended \cup Recording \cup
                                  {"begin", "up", "health", "nginx", "check", "timer", "previous"},
                           host : Hosts, rel : Releases \cup {None}, of : {"release", "current", "previous"},
                           saved : Releases \cup {None}, new : BOOLEAN]]
  /\ power \in {"running", "stopped"}
  /\ timer \in {"active", "inactive"} /\ service \in {"none", "off"}
  /\ ctl \in [pc : {"idle", "ready", "pause", "stage app", "ready again", "stage worker", "exit",
                    "stop"} \cup DOMAIN Commands,
              sent : BOOLEAN, commit : Releases \cup {None}, stopped : BOOLEAN,
              paused : BOOLEAN, tries : 1..3, ok : BOOLEAN,
              recovered : SUBSET (Hosts \X {"current", "previous"})]
  /\ runs \in 0..MaxRuns /\ base \in [Hosts -> Releases]
  /\ clean \in BOOLEAN

Serves(h, r) == containers[h] = r /\ current[h] = r /\ (h = "app" => nginx = r)

(* A deployment that failed, and whose recovery the hosts reported as done, leaves   *)
(* them on what they ran before, whichever step failed.  Only if `clean`: a script   *)
(* that outlived its wait goes on beside the recovery, and one that died while       *)
(* recording leaves half its records.  Not so either when the app already ran the    *)
(* commit: then `previous` is one release older.                                     *)
RecoveryRestores ==
  CtlAt("exit") /\ clean =>
    \A c \in ctl.recovered :
      (c = <<"app", "previous">> /\ ctl.commit = base["app"]) \/ Serves(c[1], base[c[1]])

(* A deployment that succeeded, `clean` as above, has both hosts on its commit, and  *)
(* the app can go back.                                                              *)
SuccessIsWhole ==
  CtlAt("exit") /\ ctl.ok /\ clean =>
    /\ \A h \in Hosts : Serves(h, ctl.commit)
    /\ ctl.commit # base["app"] => previous["app"] = base["app"]

(* "Prevents that the idle shutdown and an SSM deployment command run at the same    *)
(* time": the worker is not powered off by its timer under the script of a run.      *)
IdleSparesDeployment ==
  [][service = "off" /\ power' = "stopped" => ~Alive("worker")]_deployVars
=============================================================================
