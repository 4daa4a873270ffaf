------------------------ MODULE HostDeploymentProofs ------------------------
(***************************************************************************)
(* Theorems about HostDeployment, for any releases, any number of          *)
(* deployments and any script that is late.  The invariant speaks of a run *)
(* none of whose scripts was left alone or died while recording: it says,  *)
(* step by step of the script on a host and of the controller, what the    *)
(* containers, nginx and the two records are.                              *)
(***************************************************************************)
EXTENDS HostDeployment, TLAPS

Noted == {"install", "prune", "done"}              \* `current` is written
Serving == {"previous", "current"} \cup Noted
Seen == {"nginx", "check", "timer"} \cup Serving   \* the containers were verified
Fixed == {"up", "health"} \cup Seen                \* what to deploy is known

(* The release a script puts on its host is one, as is the one it would put  *)
(* back into nginx.                                                          *)
RelInv ==
  \A s \in Slots :
    /\ script[s].pc \in Fixed => script[s].rel \in Releases
    /\ script[s].pc = "check" => script[s].saved \in Releases

(* Only what was sent is waited for, and a script on a host is that.         *)
Waiting == ctl.sent => ctl.pc \in DOMAIN Commands

Owned ==
  \A h \in Hosts : script[h].pc # "none" =>
    /\ ctl.sent /\ ctl.pc \in DOMAIN Commands
    /\ Commands[ctl.pc] = <<h, script[h].of>> /\ script[h].host = h

(* What a script may put on host h: the commit, what ran before, or for the  *)
(* app what its record of the previous release says.                         *)
Wanted(h, r) ==
  /\ script[h].of = "release" => r = ctl.commit
  /\ script[h].of = "current" => r = base[h]
  /\ script[h].of = "previous" /\ ctl.commit # base[h] => r = base[h]

OnHost(h) ==
  /\ script[h].pc # "none" /\ script[h].of = "release" => script[h].rel = ctl.commit
  /\ script[h].pc \in Fixed => Wanted(h, script[h].rel)
  /\ script[h].pc \in Seen => containers[h] = script[h].rel
  /\ script[h].pc \in {"nginx", "check"} => h = "app"
  /\ script[h].pc = "timer" => h = "worker"
  /\ script[h].pc \in {"check"} \cup Serving /\ h = "app" => nginx = script[h].rel
  /\ script[h].pc \in Noted => current[h] = script[h].rel
  /\ script[h].of = "release" /\ ctl.commit # base[h] =>
       /\ script[h].pc \in {"current", "install"} => temp[h] = base[h]
       /\ script[h].pc \in {"prune", "done"} => previous[h] = base[h]

Preparing == {"ready", "pause", "stage app", "ready again", "stage worker"}
Ending == {"exit", "stop"}

(* `current` is what it was, until the script of a deployment notes another. *)
Unchanged(h, command) ==
  current[h] = base[h] \/ (ctl.pc = command /\ script[h].pc \in Noted)

PreviousKept == ctl.commit # base["app"] => previous["app"] = base["app"]

Stages ==
  /\ ctl.pc \in Preparing \cup {"deploy app", "return app"} => Unchanged("app", "deploy app")
  /\ ctl.pc \in Preparing \cup {"deploy app", "deploy worker", "return worker"} =>
       Unchanged("worker", "deploy worker")
  /\ ctl.pc \in {"deploy worker", "return worker"} => Serves("app", ctl.commit)
  /\ ctl.pc \in {"deploy worker", "return worker", "undo app"} /\ script["app"].pc \in {"none", "begin"} =>
       PreviousKept

Outcomes ==
  /\ ctl.ok => /\ ctl.pc \in Ending /\ PreviousKept
               /\ Serves("app", ctl.commit) /\ Serves("worker", ctl.commit)
  /\ <<"worker", "current">> \in ctl.recovered =>
       ctl.pc \in {"undo app"} \cup Ending /\ Serves("worker", base["worker"])
  /\ <<"app", "current">> \in ctl.recovered => ctl.pc \in Ending /\ Serves("app", base["app"])
  /\ <<"app", "previous">> \in ctl.recovered =>
       ctl.pc \in Ending /\ (ctl.commit # base["app"] => Serves("app", base["app"]))
  /\ <<"worker", "previous">> \notin ctl.recovered

RunInv ==
  clean /\ ctl.pc # "idle" =>
    /\ ~Alive("late")
    /\ \A h \in Hosts : OnHost(h)
    /\ Stages /\ Outcomes

HostInv == DeployTypeOK /\ RelInv /\ Waiting /\ Owned /\ RunInv
-----------------------------------------------------------------------------
(* The commands of the controller, and what a script looks like.             *)
LEMMA CommandValues ==
  /\ DOMAIN Commands = {"deploy app", "return app", "deploy worker", "return worker", "undo app"}
  /\ Commands["deploy app"] = <<"app", "release">> /\ Commands["return app"] = <<"app", "current">>
  /\ Commands["deploy worker"] = <<"worker", "release">>
  /\ Commands["return worker"] = <<"worker", "current">>
  /\ Commands["undo app"] = <<"app", "previous">>
BY DEF Commands

LEMMA PartsOfPair == ASSUME NEW q, NEW a, NEW b, q = <<a, b>> PROVE q[1] = a /\ q[2] = b
OBVIOUS

LEMMA CommandTargets ==
  ASSUME NEW p, p \in DOMAIN Commands
  PROVE  Commands[p][2] = IF p \in {"deploy app", "deploy worker"} THEN "release"
                          ELSE IF p = "undo app" THEN "previous" ELSE "current"
<1>1. CASE p = "deploy app"
  <2>1. Commands[p] = <<"app", "release">>
    BY <1>1, CommandValues
  <2>2. Commands[p][2] = "release"
    BY <2>1
  <2>3. QED
    BY <1>1, <2>2
<1>2. CASE p = "return app"
  <2>1. Commands[p] = <<"app", "current">>
    BY <1>2, CommandValues
  <2>2. Commands[p][2] = "current"
    BY <2>1
  <2>3. QED
    BY <1>2, <2>2
<1>3. CASE p = "deploy worker"
  <2>1. Commands[p] = <<"worker", "release">>
    BY <1>3, CommandValues
  <2>2. Commands[p][2] = "release"
    BY <2>1
  <2>3. QED
    BY <1>3, <2>2
<1>4. CASE p = "return worker"
  <2>1. Commands[p] = <<"worker", "current">>
    BY <1>4, CommandValues
  <2>2. Commands[p][2] = "current"
    BY <2>1
  <2>3. QED
    BY <1>4, <2>2
<1>5. CASE p = "undo app"
  <2>1. Commands[p] = <<"app", "previous">>
    BY <1>5, CommandValues
  <2>2. Commands[p][2] = "previous"
    BY <2>1
  <2>3. QED
    BY <1>5, <2>2
<1>6. QED
  BY <1>1, <1>2, <1>3, <1>4, <1>5, CommandValues

LEMMA CommandTypes ==
  ASSUME NEW p \in DOMAIN Commands
  PROVE  /\ Commands[p][1] \in Hosts
         /\ Commands[p][2] \in {"release", "current", "previous"}
         /\ Commands[p] = <<Commands[p][1], Commands[p][2]>>
<1>1. CASE p = "deploy app"
  <2>1. Commands[p] = <<"app", "release">>
    BY <1>1, CommandValues
  <2>2. QED
    BY <2>1 DEF Hosts
<1>2. CASE p = "return app"
  <2>1. Commands[p] = <<"app", "current">>
    BY <1>2, CommandValues
  <2>2. QED
    BY <2>1 DEF Hosts
<1>3. CASE p = "deploy worker"
  <2>1. Commands[p] = <<"worker", "release">>
    BY <1>3, CommandValues
  <2>2. QED
    BY <2>1 DEF Hosts
<1>4. CASE p = "return worker"
  <2>1. Commands[p] = <<"worker", "current">>
    BY <1>4, CommandValues
  <2>2. QED
    BY <2>1 DEF Hosts
<1>5. CASE p = "undo app"
  <2>1. Commands[p] = <<"app", "previous">>
    BY <1>5, CommandValues
  <2>2. QED
    BY <2>1 DEF Hosts
<1>6. QED
  BY <1>1, <1>2, <1>3, <1>4, <1>5, CommandValues

ScriptSteps == Ended \cup Recording \cup
  {"begin", "up", "health", "nginx", "check", "timer", "previous"}
ScriptType ==
  [pc : ScriptSteps, host : Hosts, rel : Releases \cup {None}, of : {"release", "current", "previous"},
   saved : Releases \cup {None}, new : BOOLEAN]
ControlSteps == {"idle"} \cup Preparing \cup Ending \cup DOMAIN Commands
ControlType ==
  [pc : ControlSteps, sent : BOOLEAN, commit : Releases \cup {None}, stopped : BOOLEAN,
   paused : BOOLEAN, tries : 1..3, ok : BOOLEAN,
   recovered : SUBSET (Hosts \X {"current", "previous"})]

TypeParts ==
  /\ containers \in [Hosts -> Releases \cup {None}] /\ nginx \in Releases
  /\ current \in [Hosts -> Releases]
  /\ previous \in [Hosts -> Releases \cup {None}] /\ temp \in [Hosts -> Releases \cup {None}]
  /\ script \in [Slots -> ScriptType]
  /\ power \in {"running", "stopped"}
  /\ timer \in {"active", "inactive"} /\ service \in {"none", "off"}
  /\ ctl \in ControlType
  /\ runs \in 0..MaxRuns /\ base \in [Hosts -> Releases]
  /\ clean \in BOOLEAN

LEMMA SameType == DeployTypeOK <=> TypeParts
BY DEF DeployTypeOK, TypeParts, ScriptType, ScriptSteps, ControlType, ControlSteps,
     Preparing, Ending

LEMMA Nothing == NoScript \in ScriptType /\ NoRun \in ControlType
<1>1. NoScript \in ScriptType
  BY DEF NoScript, ScriptType, ScriptSteps, Ended, Hosts
<1>2. NoRun \in ControlType
  BY DEF NoRun, ControlType, ControlSteps
<1>3. QED
  BY <1>1, <1>2

LEMMA TypeInit == ASSUME Init PROVE TypeParts /\ RelInv
BY Nothing, DeploymentAssumption DEF Init, TypeParts, RelInv, Hosts, Slots, NoScript, Fixed,
     Seen, Serving, Noted

LEMMA ScriptKeepsTypes ==
  ASSUME TypeParts, RelInv, NEW s \in Slots, Script(s)
  PROVE  TypeParts' /\ RelInv'
<1> USE DeploymentAssumption DEF TypeParts, RelInv, At, Host, Goto, Exits, ScriptType, ScriptSteps, Ended, Recording,
            Hosts, Slots, NoScript, Fixed, Seen, Serving, Noted, recordVars, workerVars, runVars
<1>1. CASE Begin(s)
  <2>1. Target(s) \in Releases \cup {None}
    <3>1. script[s] \in ScriptType /\ Host(s) \in Hosts
      OBVIOUS
    <3>2. script[s].rel \in Releases \cup {None} /\ current[Host(s)] \in Releases /\ previous[Host(s)] \in Releases \cup {None}
      BY <3>1
    <3>3. QED
      BY <3>2 DEF Target
  <2>2. PICK x \in ScriptType :
          /\ script' = [script EXCEPT ![s] = x]
          /\ x.pc \in Fixed => x.rel \in Releases
          /\ x.pc # "check"
    <3>1. CASE Target(s) = None
      <4> DEFINE x == IF s = "late" THEN NoScript ELSE [script[s] EXCEPT !.pc = "failed"]
      <4>1. script' = [script EXCEPT ![s] = x]
        BY <1>1, <3>1 DEF Begin
      <4>2. x \in ScriptType /\ x.pc \notin Fixed
        BY Nothing
      <4>3. QED
        BY <4>1, <4>2
    <3>2. CASE Target(s) # None
      <4> DEFINE x == [script[s] EXCEPT !.rel = Target(s), !.pc = "up"]
      <4>1. script' = [script EXCEPT ![s] = x]
        BY <1>1, <3>2 DEF Begin
      <4>2. script[s] \in ScriptType
        OBVIOUS
      <4>3. x \in ScriptType /\ x.pc = "up" /\ x.rel \in Releases
        BY <2>1, <3>2, <4>2
      <4>4. QED
        BY <4>1, <4>3
    <3>3. QED
      BY <3>1, <3>2
  <2>3. UNCHANGED <<containers, nginx, clean, recordVars, workerVars, runVars>>
    BY <1>1 DEF Begin
  <2>4. QED
    BY <2>2, <2>3
<1>2. CASE Up(s)
  BY <1>2 DEF Up
<1>3. CASE UpBreaks(s)
  BY <1>3 DEF UpBreaks
<1>4. CASE Healthy(s)
  BY <1>4 DEF Healthy
<1>5. CASE ApplyNginx(s)
  BY <1>5 DEF ApplyNginx
<1>6. CASE Check(s)
  BY <1>6 DEF Check
<1>7. CASE ArmTimer(s)
  BY <1>7 DEF ArmTimer
<1>8. CASE NotePrevious(s)
  BY <1>8 DEF NotePrevious
<1>9. CASE NoteCurrent(s)
  BY <1>9 DEF NoteCurrent
<1>10. CASE InstallPrevious(s)
  BY <1>10 DEF InstallPrevious
<1>11. CASE Finish(s)
  BY <1>11 DEF Finish
<1>12. CASE Fail(s)
  BY <1>12 DEF Fail
<1>13. CASE Killed(s)
  BY <1>13 DEF Killed, Alive
<1>14. QED
  BY <1>1, <1>2, <1>3, <1>4, <1>5, <1>6, <1>7, <1>8, <1>9, <1>10, <1>11, <1>12, <1>13 DEF
       Script

LEMMA AnsweredType ==
  ASSUME TypeParts, NEW ok \in BOOLEAN, ctl.pc \in DOMAIN Commands, Answered(ok)
  PROVE  ctl' \in ControlType
<1>1. After(ctl.pc, ok) \in ControlSteps
  BY CommandValues DEF After, ControlSteps, Ending
<1>2. Commands[ctl.pc][2] # "release" => Commands[ctl.pc] \in Hosts \X {"current", "previous"}
  BY CommandTypes
<1>3. (ok /\ CtlAt("deploy worker")) \in BOOLEAN
  OBVIOUS
<1>4. QED
  BY <1>1, <1>2, <1>3 DEF Answered, TypeParts, ControlType

(* A command that is sent starts a script, one that is given up may leave it *)
(* alive on its own.                                                         *)
LEMMA SentIsHost == ctl.pc \in DOMAIN Commands => Sent \in Hosts
BY CommandTypes DEF Sent

LEMMA AbandonTypes ==
  ASSUME TypeParts, RelInv, NEW h \in Hosts, Abandon(h)
  PROVE  script' \in [Slots -> ScriptType] /\ RelInv' /\ clean' \in BOOLEAN
BY Nothing DEF Abandon, TypeParts, RelInv, Slots, Hosts, NoScript, Fixed, Seen, Serving,
     Noted, Alive, Ended

LEMMA CutTypes ==
  ASSUME TypeParts, RelInv, CutScripts
  PROVE  script' \in [Slots -> ScriptType] /\ RelInv' /\ clean' \in BOOLEAN
<1>1. \A s \in Slots :
        /\ script'[s] \in ScriptType
        /\ script'[s].pc \in Fixed => script'[s] = script[s]
        /\ script'[s].pc = "check" => script'[s] = script[s]
  <2> TAKE s \in Slots
  <2>1. script[s] \in ScriptType
    BY DEF TypeParts
  <2>2. [script[s] EXCEPT !.pc = "failed"] \in ScriptType
    BY <2>1 DEF ScriptType, ScriptSteps, Ended
  <2>3. QED
    BY <2>1, <2>2, Nothing DEF CutScripts, ScriptType, NoScript, Fixed, Seen, Serving, Noted
<1>2. script' = [s \in Slots |-> script'[s]]
  BY DEF CutScripts
<1>3. clean' \in BOOLEAN
  BY DEF CutScripts, TypeParts
<1>4. QED
  BY <1>1, <1>2, <1>3 DEF RelInv

LEMMA OneMore == ASSUME NEW n \in 1..3, n < 3 PROVE n + 1 \in 1..3
OBVIOUS

LEMMA ControllerKeepsTypes ==
  ASSUME TypeParts, RelInv, Waiting, Controller \/ Cancelled
  PROVE  TypeParts' /\ RelInv'
<1> USE DEF TypeParts, RelInv, CtlAt, CtlGoto, ControlType, ControlSteps, Preparing, Ending,
            recordVars, hostVars, workerVars
<1>1. CASE Ready
  BY <1>1 DEF Ready, Boots
<1>2. CASE Pause
  BY <1>2 DEF Pause
<1>3. CASE PauseFails
  <2>1. ctl' \in ControlType
    <3>1. CASE power # "running" /\ ctl.tries < 3
      <4>1. ctl' = [ctl EXCEPT !.pc = "ready", !.tries = ctl.tries + 1]
        BY <1>3, <3>1 DEF PauseFails
      <4>2. ctl.tries \in 1..3
        OBVIOUS
      <4>3. ctl.tries + 1 \in 1..3
        BY <3>1, <4>2, OneMore
      <4>4. QED
        BY <4>1, <4>3
    <3>2. CASE ~(power # "running" /\ ctl.tries < 3)
      <4>1. ctl' = [ctl EXCEPT !.pc = "exit", !.sent = FALSE]
        BY <1>3, <3>2 DEF PauseFails
      <4>2. QED
        BY <4>1
    <3>3. QED
      BY <3>1, <3>2
  <2>2. QED
    BY <1>3, <2>1 DEF PauseFails
<1>4. CASE Stage
  BY <1>4, CommandValues DEF Stage
<1>5. CASE Stops
  BY <1>5 DEF Stops
<1>6. CASE Send
  <2> DEFINE x == [NoScript EXCEPT !.pc = "begin", !.host = Sent, !.rel = ctl.commit,
                                   !.of = Commands[ctl.pc][2]]
  <2>1. x \in ScriptType /\ x.pc = "begin"
    <3>1. Sent \in Hosts /\ Commands[ctl.pc][2] \in {"release", "current", "previous"}
      BY <1>6, CommandTypes, SentIsHost DEF Send
    <3>2. QED
      BY <3>1 DEF NoScript, ScriptType, ScriptSteps
  <2>2. script' = [script EXCEPT ![Sent] = x] /\ Sent \in Slots
    BY <1>6, SentIsHost DEF Send, Slots
  <2>3. ctl' \in ControlType
    BY <1>6 DEF Send
  <2>4. UNCHANGED <<recordVars, containers, nginx, clean, workerVars, runs, base>>
    BY <1>6 DEF Send
  <2>5. QED
    BY <2>1, <2>2, <2>3, <2>4 DEF Fixed, Seen, Serving, Noted
<1>7. CASE SendFails
  <2>1. ctl' \in ControlType
    BY <1>7, AnsweredType DEF SendFails
  <2>2. QED
    BY <1>7, <2>1 DEF SendFails
<1>8. CASE Answer
  <2>1. ctl' \in ControlType
    BY <1>8, AnsweredType DEF Answer, At
  <2>2. script' \in [Slots -> ScriptType] /\ \A s \in Slots : script'[s] \in {script[s], NoScript}
    BY <1>8, Nothing DEF Answer
  <2>3. QED
    BY <1>8, <2>1, <2>2 DEF Answer, NoScript, Fixed, Seen, Serving, Noted
<1>9. CASE TimesOut
  <2>1. ctl' \in ControlType
    BY <1>9, AnsweredType DEF TimesOut
  <2>2. script' \in [Slots -> ScriptType] /\ RelInv' /\ clean' \in BOOLEAN
    BY <1>9, AbandonTypes, SentIsHost DEF TimesOut
  <2>3. QED
    BY <1>9, <2>1, <2>2 DEF TimesOut
<1>10. CASE ResumeTimer
  BY <1>10 DEF ResumeTimer
<1>11. CASE StopWorker
  <2>1. script' \in [Slots -> ScriptType] /\ RelInv' /\ clean' \in BOOLEAN
    BY <1>11, CutTypes DEF StopWorker
  <2>2. ctl' \in ControlType
    BY <1>11, Nothing DEF StopWorker
  <2>3. UNCHANGED <<containers, nginx, timer, recordVars, runs, base>>
    BY <1>11 DEF StopWorker
  <2>4. power' \in {"running", "stopped"} /\ service' \in {"none", "off"}
    BY <1>11 DEF StopWorker
  <2>5. QED
    BY <2>1, <2>2, <2>3, <2>4
<1>12. CASE Cancelled
  <2>1. script' \in [Slots -> ScriptType] /\ RelInv' /\ clean' \in BOOLEAN
    <3>1. CASE ctl.sent
      BY <1>12, <3>1, AbandonTypes, SentIsHost DEF Cancelled, Waiting
    <3>2. CASE ~ctl.sent
      BY <1>12, <3>2 DEF Cancelled
    <3>3. QED
      BY <3>1, <3>2
  <2>2. ctl' \in ControlType
    BY <1>12, Nothing DEF Cancelled
  <2>3. QED
    BY <1>12, <2>1, <2>2 DEF Cancelled
<1>13. QED
  BY <1>1, <1>2, <1>3, <1>4, <1>5, <1>6, <1>7, <1>8, <1>9, <1>10, <1>11, <1>12 DEF
       Controller

LEMMA TypeStep ==
  ASSUME TypeParts, RelInv, Waiting, [Next]_deployVars
  PROVE  TypeParts' /\ RelInv'
<1>1. CASE \E c \in Releases : StartRun(c)
  <2>1. PICK c \in Releases : StartRun(c)
    BY <1>1
  <2>2. ctl' \in ControlType
    BY <2>1, Nothing DEF StartRun, ControlType, ControlSteps, Preparing
  <2>3. runs' \in 0..MaxRuns
    BY <2>1, DeploymentAssumption DEF StartRun, TypeParts
  <2>4. QED
    BY <2>1, <2>2, <2>3 DEF StartRun, TypeParts, RelInv, recordVars, workerVars
<1>2. CASE Worker
  <2>1. CASE BackendStarts \/ TimerFires
    BY <2>1 DEF BackendStarts, TimerFires, Boots, TypeParts, RelInv, recordVars, hostVars,
         runVars
  <2>2. CASE PowersOff
    BY <2>2, CutTypes DEF PowersOff, TypeParts, recordVars, runVars
  <2>3. QED
    BY <1>2, <2>1, <2>2 DEF Worker
<1>3. CASE UNCHANGED deployVars
  BY <1>3 DEF deployVars, recordVars, hostVars, workerVars, runVars, TypeParts, RelInv
<1>4. QED
  BY <1>1, <1>2, <1>3, ScriptKeepsTypes, ControllerKeepsTypes DEF Next

-----------------------------------------------------------------------------
(* What a step of a script on host h leaves alone.                           *)
LEMMA ScriptFrame ==
  ASSUME TypeParts, NEW h \in Hosts, script[h].host = h, Script(h)
  PROVE  /\ Alive(h) /\ UNCHANGED runVars /\ (clean' => clean)
         /\ \A q \in Slots \ {h} : script'[q] = script[q]
         /\ \A g \in Hosts \ {h} :
              /\ containers'[g] = containers[g] /\ current'[g] = current[g]
              /\ previous'[g] = previous[g] /\ temp'[g] = temp[g]
         /\ script'[h].of = script[h].of /\ script'[h].host = h
         /\ script'[h].pc \notin {"none", "begin"}
         /\ nginx' # nginx => script[h].pc \in {"nginx", "check"}
         /\ current'[h] # current[h] => script'[h].pc \in Noted /\ current'[h] = script[h].rel
                                        /\ script[h].pc \in Fixed
         /\ clean' /\ script[h].pc \in Noted => script'[h].pc \in Noted
<1> USE DEF TypeParts, ScriptType, ScriptSteps, At, Host, Goto, Exits, Alive, Ended, Recording, Hosts, Slots,
            Noted, Fixed, Seen, Serving, recordVars, workerVars, runVars
<1>1. CASE Begin(h)
  <2>1. PICK x : script' = [script EXCEPT ![h] = x] /\ x.of = script[h].of /\ x.host = h
                 /\ x.pc \in {"up", "failed"}
    <3>1. CASE Target(h) = None
      <4> DEFINE x == [script[h] EXCEPT !.pc = "failed"]
      <4>1. script' = [script EXCEPT ![h] = x]
        BY <1>1, <3>1 DEF Begin
      <4>2. x.of = script[h].of /\ x.host = h /\ x.pc = "failed"
        OBVIOUS
      <4> HIDE DEF x
      <4>3. QED
        BY <4>1, <4>2
    <3>2. CASE Target(h) # None
      <4> DEFINE x == [script[h] EXCEPT !.rel = Target(h), !.pc = "up"]
      <4>1. script' = [script EXCEPT ![h] = x]
        BY <1>1, <3>2 DEF Begin
      <4>2. x.of = script[h].of /\ x.host = h /\ x.pc = "up"
        OBVIOUS
      <4> HIDE DEF x
      <4>3. QED
        BY <4>1, <4>2
    <3>3. QED
      BY <3>1, <3>2
  <2>2. UNCHANGED <<containers, nginx, clean, recordVars, workerVars, runVars>> /\ script[h].pc = "begin"
    BY <1>1 DEF Begin
  <2>3. QED
    BY <2>1, <2>2
<1>2. CASE Up(h)
  BY <1>2 DEF Up
<1>3. CASE UpBreaks(h)
  BY <1>3 DEF UpBreaks
<1>4. CASE Healthy(h)
  BY <1>4 DEF Healthy
<1>5. CASE ApplyNginx(h)
  BY <1>5 DEF ApplyNginx
<1>6. CASE Check(h)
  BY <1>6 DEF Check
<1>7. CASE ArmTimer(h)
  BY <1>7 DEF ArmTimer
<1>8. CASE NotePrevious(h)
  BY <1>8 DEF NotePrevious
<1>9. CASE NoteCurrent(h)
  BY <1>9 DEF NoteCurrent
<1>10. CASE InstallPrevious(h)
  BY <1>10 DEF InstallPrevious
<1>11. CASE Finish(h)
  BY <1>11 DEF Finish
<1>12. CASE Fail(h)
  BY <1>12 DEF Fail
<1>13. CASE Killed(h)
  <2>1. clean' => clean /\ script[h].pc \notin {"current", "install", "prune"}
    BY <1>13 DEF Killed
  <2>2. script' = [script EXCEPT ![h] = [script[h] EXCEPT !.pc = "failed"]]
    BY <1>13 DEF Killed
  <2>3. Alive(h) /\ UNCHANGED <<containers, nginx, recordVars, workerVars, runVars>>
    BY <1>13 DEF Killed
  <2>4. QED
    BY <2>1, <2>2, <2>3
<1>14. QED
  BY <1>1, <1>2, <1>3, <1>4, <1>5, <1>6, <1>7, <1>8, <1>9, <1>10, <1>11, <1>12, <1>13 DEF
       Script

(* Commands name hosts: the script on one is the only one.                   *)
LEMMA OneScript ==
  ASSUME Owned, NEW h \in Hosts, NEW g \in Hosts, script[h].pc # "none", g # h
  PROVE  script[g].pc = "none"
<1>1. SUFFICES ASSUME script[g].pc # "none" PROVE FALSE
  OBVIOUS
<1>2. Commands[ctl.pc] = <<h, script[h].of>> /\ Commands[ctl.pc] = <<g, script[g].of>>
  BY <1>1 DEF Owned
<1>3. QED
  BY <1>2

(* Which command it is.                                                      *)
LEMMA WhichCommand ==
  ASSUME NEW h \in Hosts, NEW of, ctl.pc \in DOMAIN Commands, Commands[ctl.pc] = <<h, of>>
  PROVE  \/ h = "app" /\ of = "release" /\ ctl.pc = "deploy app"
         \/ h = "app" /\ of = "current" /\ ctl.pc = "return app"
         \/ h = "app" /\ of = "previous" /\ ctl.pc = "undo app"
         \/ h = "worker" /\ of = "release" /\ ctl.pc = "deploy worker"
         \/ h = "worker" /\ of = "current" /\ ctl.pc = "return worker"
<1>1. CASE ctl.pc = "deploy app"
  <2>1. <<"app", "release">> = <<h, of>>
    BY <1>1, CommandValues
  <2>2. QED
    BY <1>1, <2>1
<1>2. CASE ctl.pc = "return app"
  <2>1. <<"app", "current">> = <<h, of>>
    BY <1>2, CommandValues
  <2>2. QED
    BY <1>2, <2>1
<1>3. CASE ctl.pc = "deploy worker"
  <2>1. <<"worker", "release">> = <<h, of>>
    BY <1>3, CommandValues
  <2>2. QED
    BY <1>3, <2>1
<1>4. CASE ctl.pc = "return worker"
  <2>1. <<"worker", "current">> = <<h, of>>
    BY <1>4, CommandValues
  <2>2. QED
    BY <1>4, <2>1
<1>5. CASE ctl.pc = "undo app"
  <2>1. <<"app", "previous">> = <<h, of>>
    BY <1>5, CommandValues
  <2>2. QED
    BY <1>5, <2>1
<1>6. QED
  BY <1>1, <1>2, <1>3, <1>4, <1>5, CommandValues

(* The command under way when the script of host h is alive.                 *)
LEMMA Commanded ==
  ASSUME Owned, NEW h \in Hosts, script[h].pc # "none"
  PROVE  /\ ctl.pc \in DOMAIN Commands /\ script[h].host = h
         /\ \/ h = "app" /\ script[h].of = "release" /\ ctl.pc = "deploy app"
            \/ h = "app" /\ script[h].of = "current" /\ ctl.pc = "return app"
            \/ h = "app" /\ script[h].of = "previous" /\ ctl.pc = "undo app"
            \/ h = "worker" /\ script[h].of = "release" /\ ctl.pc = "deploy worker"
            \/ h = "worker" /\ script[h].of = "current" /\ ctl.pc = "return worker"
<1>1. ctl.pc \in DOMAIN Commands /\ Commands[ctl.pc] = <<h, script[h].of>> /\ script[h].host = h
  BY DEF Owned
<1>2. QED
  BY <1>1, WhichCommand

(* What a script finds to go back to is what ran before.                     *)
LEMMA TargetIsWanted ==
  ASSUME TypeParts, Owned, NEW h \in Hosts, OnHost(h), Stages, At(h, "begin")
  PROVE  Wanted(h, Target(h))
<1>1. script[h].pc = "begin" /\ script[h].pc # "none" /\ script[h].pc \notin Noted
  BY DEF At, Noted
<1>2. script[h].host = h
  BY <1>1, Commanded
<1>3. CASE script[h].of = "release"
  BY <1>1, <1>3 DEF Target, Wanted, OnHost
<1>4. CASE script[h].of = "current"
  <2>1. Target(h) = current[h]
    BY <1>2, <1>4 DEF Target, Host
  <2>2. current[h] = base[h]
    BY <1>1, <1>4, Commanded DEF Stages, Unchanged
  <2>3. QED
    BY <2>1, <2>2, <1>4 DEF Wanted
<1>5. CASE script[h].of = "previous"
  <2>1. Target(h) = previous[h]
    BY <1>2, <1>5 DEF Target, Host
  <2>2. PreviousKept /\ h = "app"
    BY <1>1, <1>5, Commanded DEF Stages
  <2>3. QED
    BY <2>1, <2>2, <1>5 DEF Wanted, PreviousKept
<1>6. script[h].of \in {"release", "current", "previous"}
  BY DEF TypeParts, ScriptType, Slots
<1>7. QED
  BY <1>3, <1>4, <1>5, <1>6

LEMMA OnlyAlive == ASSUME NEW s \in Slots, Script(s) PROVE Alive(s) /\ script[s].pc # "none"
BY DEF Script, Begin, Up, UpBreaks, Healthy, ApplyNginx, Check, ArmTimer, NotePrevious,
     NoteCurrent,
       InstallPrevious, Finish, Fail, Killed, At, Alive, Ended

LEMMA ScriptKeepsOnHost ==
  ASSUME TypeParts, Owned, NEW h \in Hosts, OnHost(h), Stages, Script(h)
  PROVE  OnHost(h)'
<1>0. h \in Slots /\ Alive(h) /\ script[h].pc # "none"
  BY OnlyAlive DEF Slots
<1>1. UNCHANGED runVars /\ script[h].host = h
  BY <1>0, Commanded, ScriptFrame
<1> USE <1>0, <1>1 DEF TypeParts, OnHost, Wanted, At, Host, Goto, Exits, Alive, Ended, Recording, Hosts, Slots,
            Noted, Fixed, Seen, Serving, recordVars, workerVars, runVars
<1>2. CASE Begin(h)
  <2>1. script[h].pc = "begin" /\ UNCHANGED <<containers, nginx, clean, recordVars, workerVars, runVars>>
    BY <1>2 DEF Begin
  <2>2. Wanted(h, Target(h))
    BY <2>1, TargetIsWanted
  <2>3. script'[h].of = script[h].of /\ script'[h].pc \in {"up", "failed"}
        /\ (script'[h].pc = "up" => script'[h].rel = Target(h))
        /\ (script'[h].pc = "failed" => script'[h].rel = script[h].rel)
    <3>1. CASE Target(h) = None
      <4>1. script' = [script EXCEPT ![h] = [script[h] EXCEPT !.pc = "failed"]]
        BY <1>2, <3>1 DEF Begin
      <4>2. QED
        BY <4>1
    <3>2. CASE Target(h) # None
      <4>1. script' = [script EXCEPT ![h] = [script[h] EXCEPT !.rel = Target(h), !.pc = "up"]]
        BY <1>2, <3>2 DEF Begin
      <4>2. QED
        BY <4>1
    <3>3. QED
      BY <3>1, <3>2
  <2>4. QED
    BY <2>1, <2>2, <2>3
<1>3. CASE Up(h)
  BY <1>3 DEF Up
<1>4. CASE UpBreaks(h)
  BY <1>4 DEF UpBreaks
<1>5. CASE Healthy(h)
  BY <1>5 DEF Healthy
<1>6. CASE ApplyNginx(h)
  BY <1>6 DEF ApplyNginx
<1>7. CASE Check(h)
  BY <1>7 DEF Check
<1>8. CASE ArmTimer(h)
  BY <1>8 DEF ArmTimer
<1>9. CASE NotePrevious(h)
  <2>1. script[h].pc = "previous" /\ script' = [script EXCEPT ![h].pc = "current"]
        /\ UNCHANGED <<containers, nginx, clean, current, previous, workerVars, runVars>>
    BY <1>9 DEF NotePrevious
  <2>2. script[h].of = "release" /\ ctl.commit # base[h] => temp'[h] = base[h]
    <3>1. SUFFICES ASSUME script[h].of = "release", ctl.commit # base[h] PROVE temp'[h] = base[h]
      OBVIOUS
    <3>2. current[h] = base[h]
      BY <2>1, <3>1, Commanded DEF Stages, Unchanged
    <3>3. script[h].rel = ctl.commit /\ current[h] # None
      BY <2>1, <3>1, DeploymentAssumption
    <3>4. temp' = [temp EXCEPT ![h] = current[h]]
      BY <1>9, <3>1, <3>2, <3>3 DEF NotePrevious
    <3>5. QED
      BY <3>2, <3>4
  <2>3. QED
    BY <2>1, <2>2
<1>10. CASE NoteCurrent(h)
  BY <1>10 DEF NoteCurrent
<1>11. CASE InstallPrevious(h)
  <2>1. script[h].pc = "install" /\ script' = [script EXCEPT ![h].pc = "prune"]
        /\ UNCHANGED <<containers, nginx, clean, current, workerVars, runVars>>
    BY <1>11 DEF InstallPrevious
  <2>2. script[h].of = "release" /\ ctl.commit # base[h] => previous'[h] = base[h]
    <3>1. SUFFICES ASSUME script[h].of = "release", ctl.commit # base[h] PROVE previous'[h] = base[h]
      OBVIOUS
    <3>2. temp[h] = base[h] /\ temp[h] # None
      BY <2>1, <3>1, DeploymentAssumption
    <3>3. previous' = [previous EXCEPT ![h] = temp[h]]
      BY <1>11, <3>2 DEF InstallPrevious
    <3>4. QED
      BY <3>2, <3>3
  <2>3. QED
    BY <2>1, <2>2
<1>12. CASE Finish(h)
  BY <1>12 DEF Finish
<1>13. CASE Fail(h)
  BY <1>13 DEF Fail
<1>14. CASE Killed(h)
  BY <1>14 DEF Killed
<1>15. QED
  BY <1>2, <1>3, <1>4, <1>5, <1>6, <1>7, <1>8, <1>9, <1>10, <1>11, <1>12, <1>13, <1>14 DEF
       Script

LEMMA LateFrame ==
  ASSUME Script("late")
  PROVE  UNCHANGED runVars /\ (clean' => clean) /\ \A h \in Hosts : script'[h] = script[h]
<1> USE DEF Goto, Exits, Hosts, Slots, recordVars, workerVars, runVars
<1>1. PICK x : script' = [script EXCEPT !["late"] = x]
  <2>1. (\E x : script' = [script EXCEPT !["late"] = x])
    BY DEF Script, Begin, Up, UpBreaks, Healthy, ApplyNginx, Check, ArmTimer, NotePrevious,
         NoteCurrent,
       InstallPrevious, Finish, Fail, Killed
  <2>2. QED
    BY <2>1
<1>2. UNCHANGED runVars /\ (clean' => clean)
  <2>1. CASE Killed("late")
    BY <2>1 DEF Killed
  <2>2. CASE ~Killed("late")
    BY <2>2 DEF Script, Begin, Up, UpBreaks, Healthy, ApplyNginx, Check, ArmTimer,
         NotePrevious,
       NoteCurrent, InstallPrevious, Finish, Fail
  <2>3. QED
    BY <2>1, <2>2
<1>3. QED
  BY <1>1, <1>2

LEMMA ScriptKeepsRun ==
  ASSUME TypeParts, Waiting, Owned, RunInv, NEW s \in Slots, Script(s)
  PROVE  Waiting' /\ Owned' /\ RunInv'
<1>1. CASE s = "late"
  <2>1. UNCHANGED runVars /\ (clean' => clean) /\ \A h \in Hosts : script'[h] = script[h]
    BY <1>1, LateFrame
  <2>2. Alive("late")
    BY <1>1, OnlyAlive
  <2>3. Waiting' /\ Owned'
    BY <2>1 DEF Waiting, Owned, runVars
  <2>4. RunInv'
    BY <2>1, <2>2 DEF RunInv, runVars
  <2>5. QED
    BY <2>3, <2>4
<1>2. CASE s \in Hosts
  <2> DEFINE h == s
  <2>1. script[h].pc # "none" /\ Alive(h)
    BY OnlyAlive
  <2>2. ctl.pc \in DOMAIN Commands /\ script[h].host = h
    BY <1>2, <2>1, Commanded
  <2>3. /\ UNCHANGED runVars /\ (clean' => clean)
        /\ \A q \in Slots \ {h} : script'[q] = script[q]
        /\ script'[h].of = script[h].of /\ script'[h].host = h
        /\ script'[h].pc \notin {"none", "begin"}
    BY <1>2, <2>2, ScriptFrame
  <2>4. Waiting' /\ Owned'
    BY <1>2, <2>1, <2>3 DEF Waiting, Owned, runVars, Hosts, Slots
  <2>5. ASSUME clean' PROVE ~Alive("late")' /\ (\A g \in Hosts : OnHost(g))' /\ Stages' /\ Outcomes'
    <3>1. clean /\ ctl.pc # "idle" /\ ~Alive("late") /\ (\A g \in Hosts : OnHost(g)) /\ Stages /\ Outcomes
      BY <2>2, <2>3, <2>5, CommandValues DEF RunInv
    <3>2. ~Alive("late")'
      BY <1>2, <2>3, <3>1 DEF Alive, Hosts, Slots
    <3>3. (\A g \in Hosts : OnHost(g))'
      <4>1. OnHost(h)'
        BY <1>2, <3>1, ScriptKeepsOnHost
      <4>2. ASSUME NEW g \in Hosts, g # h PROVE OnHost(g)'
        <5>1. script[g].pc = "none" /\ script'[g] = script[g]
          BY <1>2, <2>1, <2>3, <4>2, OneScript DEF Slots
        <5>2. QED
          BY <5>1 DEF OnHost, Fixed, Seen, Serving, Noted
      <4>3. QED
        BY <4>1, <4>2
    <3>4. Stages'
      <4>1. /\ \A g \in Hosts \ {h} :
                 /\ containers'[g] = containers[g] /\ current'[g] = current[g]
                 /\ previous'[g] = previous[g] /\ script'[g] = script[g]
            /\ ctl' = ctl /\ base' = base
            /\ script[h].pc \in Noted => script'[h].pc \in Noted
        BY <1>2, <2>2, <2>3, <2>5, ScriptFrame DEF runVars, Slots
      <4>2. current'[h] # current[h] =>
              script'[h].pc \in Noted /\ (script[h].of = "current" => current'[h] = base[h])
        BY <1>2, <2>2, <3>1, ScriptFrame DEF OnHost, Wanted
      <4>3. h # "app" => nginx' = nginx
        BY <1>2, <2>2, <3>1, ScriptFrame DEF OnHost
      <4> USE <3>1, <4>1, <4>2, <4>3 DEF Stages, Unchanged, PreviousKept, Serves, Preparing, Hosts
      <4>4. CASE h = "app" /\ script[h].of = "release" /\ ctl.pc = "deploy app"
        BY <4>4
      <4>5. CASE h = "app" /\ script[h].of = "current" /\ ctl.pc = "return app"
        BY <4>5
      <4>6. CASE h = "app" /\ script[h].of = "previous" /\ ctl.pc = "undo app"
        BY <2>3, <4>6
      <4>7. CASE h = "worker" /\ script[h].of = "release" /\ ctl.pc = "deploy worker"
        BY <4>7
      <4>8. CASE h = "worker" /\ script[h].of = "current" /\ ctl.pc = "return worker"
        BY <4>8
      <4>9. QED
        BY <1>2, <2>1, <4>4, <4>5, <4>6, <4>7, <4>8, Commanded
    <3>5. Outcomes'
      BY <1>2, <2>1, <2>2, <2>3, <3>1, Commanded, ScriptFrame DEF Outcomes, Ending, Serves,
           runVars, Hosts
    <3>6. QED
      BY <3>2, <3>3, <3>4, <3>5
  <2>6. QED
    BY <2>4, <2>5 DEF RunInv
<1>3. QED
  BY <1>1, <1>2 DEF Slots

-----------------------------------------------------------------------------
(* Nothing runs on a host that nobody waits for, nor beside what is awaited. *)
LEMMA Quiet == ASSUME Owned, ~ctl.sent PROVE \A h \in Hosts : script[h].pc = "none"
BY DEF Owned

LEMMA OnlyAwaited ==
  ASSUME Owned, NEW h \in Hosts, script[h].pc # "none"
  PROVE  ctl.sent /\ h = Sent
<1>1. ctl.sent /\ Commands[ctl.pc] = <<h, script[h].of>>
  BY DEF Owned
<1>2. QED
  BY <1>1 DEF Sent

LEMMA SameRun ==
  ASSUME Waiting, Owned, RunInv, UNCHANGED <<recordVars, hostVars, runVars>>
  PROVE  Waiting' /\ Owned' /\ RunInv'
<1> USE DEF recordVars, hostVars, runVars
<1>1. Waiting' /\ Owned'
  BY DEF Waiting, Owned
<1>2. (\A h \in Hosts : OnHost(h)) => (\A h \in Hosts : OnHost(h))'
  BY DEF OnHost, Wanted
<1>3. Stages => Stages'
  BY DEF Stages, Unchanged, Serves, PreviousKept
<1>4. Outcomes => Outcomes'
  BY DEF Outcomes, Serves, PreviousKept
<1>5. QED
  BY <1>1, <1>2, <1>3, <1>4 DEF RunInv, Alive

LEMMA StartKeepsRun ==
  ASSUME TypeParts, Waiting, Owned, NEW c \in Releases, StartRun(c)
  PROVE  Waiting' /\ Owned' /\ RunInv'
<1>1. /\ ctl' = [NoRun EXCEPT !.pc = "ready", !.commit = c, !.stopped = power # "running"]
      /\ base' = current /\ ~Alive("late")
      /\ UNCHANGED <<recordVars, containers, nginx, script, workerVars>>
  BY DEF StartRun
<1>2. \A h \in Hosts : script[h].pc = "none"
  <2>1. ~ctl.sent
    BY CommandValues DEF StartRun, CtlAt, Waiting
  <2>2. QED
    BY <2>1, Quiet
<1>3. ctl'.pc = "ready" /\ ctl'.sent = FALSE /\ ctl'.ok = FALSE /\ ctl'.recovered = {}
  BY <1>1 DEF NoRun
<1>4. Waiting' /\ Owned'
  BY <1>1, <1>2, <1>3 DEF Waiting, Owned
<1>5. Stages' /\ Outcomes'
  BY <1>1, <1>3 DEF Stages, Outcomes, Preparing, Ending, Unchanged, recordVars
<1>6. (\A h \in Hosts : OnHost(h))' /\ ~Alive("late")'
  BY <1>1, <1>2 DEF OnHost, Fixed, Seen, Serving, Noted, Alive
<1>7. QED
  BY <1>4, <1>5, <1>6 DEF RunInv

LEMMA WorkerKeepsRun ==
  ASSUME TypeParts, Waiting, Owned, RunInv, Worker
  PROVE  Waiting' /\ Owned' /\ RunInv'
<1>1. CASE BackendStarts \/ TimerFires
  <2>1. UNCHANGED <<recordVars, hostVars, runVars>>
    BY <1>1 DEF BackendStarts, TimerFires
  <2>2. QED
    BY <2>1, SameRun
<1>2. CASE PowersOff
  <2>1. CutScripts /\ UNCHANGED <<recordVars, containers, nginx, timer, runVars>>
    BY <1>2 DEF PowersOff
  <2>2. ASSUME NEW h \in Hosts
        PROVE  \/ script'[h] = script[h]
               \/ Alive(h) /\ script'[h] = [script[h] EXCEPT !.pc = "failed"]
                  /\ (clean' => script[h].pc \notin Recording)
    BY <2>1 DEF CutScripts, Hosts, Slots, Host
  <2>3. ASSUME NEW h \in Hosts
        PROVE  /\ script'[h].of = script[h].of /\ script'[h].host = script[h].host
               /\ script'[h].rel = script[h].rel
               /\ script'[h].pc = script[h].pc \/ (script'[h].pc = "failed" /\ script[h].pc \notin Ended)
               /\ script'[h].pc = "none" <=> script[h].pc = "none"
               /\ clean' /\ script[h].pc \in Noted => script'[h].pc = script[h].pc
    <3>1. script[h] \in ScriptType
      BY DEF TypeParts, Slots
    <3>2. CASE script'[h] = script[h]
      BY <3>2
    <3>3. CASE /\ Alive(h) /\ script'[h] = [script[h] EXCEPT !.pc = "failed"]
               /\ clean' => script[h].pc \notin Recording
      BY <3>1, <3>3 DEF ScriptType, Alive, Ended, Recording, Noted
    <3>4. QED
      BY <2>2, <3>2, <3>3
  <2>4. Waiting' /\ Owned'
    BY <2>1, <2>3 DEF Waiting, Owned, runVars
  <2>5. clean' => clean
    BY <2>1 DEF CutScripts
  <2>6. ASSUME clean', ctl.pc # "idle" PROVE ~Alive("late")' /\ (\A g \in Hosts : OnHost(g))' /\ Stages' /\ Outcomes'
    <3>1. ~Alive("late") /\ (\A g \in Hosts : OnHost(g)) /\ Stages /\ Outcomes
      BY <2>5, <2>6 DEF RunInv
    <3>2. ~Alive("late")'
      BY <2>1, <3>1 DEF CutScripts, Alive, Slots, NoScript, Ended
    <3>3. ASSUME NEW h \in Hosts PROVE OnHost(h)'
      BY <2>1, <2>3, <2>6, <3>1 DEF OnHost, Wanted, recordVars, runVars, Fixed, Seen,
           Serving, Noted, Ended
    <3>4. Stages'
      BY <2>1, <2>3, <2>6, <3>1 DEF Stages, Unchanged, PreviousKept, Serves, recordVars,
           runVars, Hosts
    <3>5. Outcomes'
      BY <2>1, <3>1 DEF Outcomes, PreviousKept, Serves, recordVars, runVars
    <3>6. QED
      BY <3>2, <3>3, <3>4, <3>5
  <2>7. QED
    BY <2>1, <2>4, <2>6 DEF RunInv, runVars
<1>3. QED
  BY <1>1, <1>2 DEF Worker

(* The steps outside of commands: nothing runs on the hosts.                 *)
LEMMA PlainKeepsRun ==
  ASSUME TypeParts, Waiting, Owned, RunInv, Ready \/ Pause \/ PauseFails \/ Stage \/ Stops \/ ResumeTimer
  PROVE  Waiting' /\ Owned' /\ RunInv'
<1>1. /\ UNCHANGED <<recordVars, hostVars, base>>
      /\ \/ ctl.pc \in Preparing /\ ctl'.pc \in Preparing \cup {"deploy app", "exit"}
         \/ ctl.pc = "exit" /\ ctl'.pc = "stop"
      /\ ctl'.sent = FALSE /\ ctl'.commit = ctl.commit /\ ctl'.ok = ctl.ok /\ ctl'.recovered = ctl.recovered
  <2> USE DEF TypeParts, ControlType, CtlAt, CtlGoto, Preparing
  <2>1. CASE Ready
    BY <2>1 DEF Ready
  <2>2. CASE Pause
    <3>1. ctl' = [ctl EXCEPT !.pc = "stage app", !.paused = TRUE] /\ ctl.pc = "pause"
      BY <2>2 DEF Pause
    <3>2. ctl.sent = FALSE
      BY <3>1, CommandValues DEF Waiting
    <3>3. QED
      BY <2>2, <3>1, <3>2 DEF Pause
  <2>3. CASE PauseFails
    <3>1. ctl.pc = "pause" /\ UNCHANGED <<recordVars, hostVars, base>>
      BY <2>3 DEF PauseFails
    <3>2. ctl.sent = FALSE
      BY <3>1, CommandValues DEF Waiting
    <3>3. \/ ctl' = [ctl EXCEPT !.pc = "ready", !.tries = @ + 1]
          \/ ctl' = [ctl EXCEPT !.pc = "exit", !.sent = FALSE]
      BY <2>3 DEF PauseFails
    <3>4. QED
      BY <3>1, <3>2, <3>3
  <2>4. CASE Stage
    BY <2>4 DEF Stage
  <2>5. CASE Stops
    BY <2>5 DEF Stops
  <2>6. CASE ResumeTimer
    BY <2>6 DEF ResumeTimer
  <2>7. QED
    BY <2>1, <2>2, <2>3, <2>4, <2>5, <2>6
<1>2. \A h \in Hosts : script[h].pc = "none"
  <2>1. ctl.pc \notin DOMAIN Commands
    BY <1>1, CommandValues DEF Preparing
  <2>2. ctl.sent = FALSE
    BY <2>1 DEF Waiting, TypeParts, ControlType
  <2>3. QED
    BY <2>2, Quiet
<1>3. Waiting' /\ Owned'
  BY <1>1, <1>2 DEF Waiting, Owned, hostVars
<1>4. ASSUME clean' PROVE ~Alive("late")' /\ (\A g \in Hosts : OnHost(g))' /\ Stages' /\ Outcomes'
  <2>1. ~Alive("late") /\ Stages /\ Outcomes
    BY <1>1, <1>4 DEF RunInv, hostVars, Preparing
  <2>2. ~Alive("late")' /\ (\A g \in Hosts : OnHost(g))'
    BY <1>1, <1>2, <2>1 DEF Alive, hostVars, OnHost, Fixed, Seen, Serving, Noted
  <2>3. Stages'
    BY <1>1, <1>2, <2>1 DEF Stages, Unchanged, Preparing, Noted, recordVars, hostVars, Hosts
  <2>4. Outcomes'
    BY <1>1, <2>1 DEF Outcomes, PreviousKept, Serves, Preparing, Ending, recordVars,
         hostVars
  <2>5. QED
    BY <2>2, <2>3, <2>4
<1>5. QED
  BY <1>3, <1>4 DEF RunInv

LEMMA SendKeepsRun ==
  ASSUME TypeParts, Waiting, Owned, RunInv, Send
  PROVE  Waiting' /\ Owned' /\ RunInv'
<1> DEFINE x == [NoScript EXCEPT !.pc = "begin", !.host = Sent, !.rel = ctl.commit, !.of = Commands[ctl.pc][2]]
<1>1. /\ ctl.pc \in DOMAIN Commands /\ ~ctl.sent
      /\ script' = [script EXCEPT ![Sent] = x] /\ ctl' = [ctl EXCEPT !.sent = TRUE]
      /\ UNCHANGED <<recordVars, containers, nginx, clean, workerVars, runs, base>>
  BY DEF Send
<1>2. \A h \in Hosts : script[h].pc = "none"
  BY <1>1, Quiet
<1>3. Sent \in Hosts /\ Commands[ctl.pc] = <<Sent, Commands[ctl.pc][2]>>
  BY <1>1, CommandTypes DEF Sent
<1>4. x.pc = "begin" /\ x.host = Sent /\ x.rel = ctl.commit /\ x.of = Commands[ctl.pc][2]
  BY DEF NoScript
<1> HIDE DEF x
<1>5. /\ script'[Sent] = x /\ \A q \in Slots \ {Sent} : script'[q] = script[q]
      /\ ctl'.pc = ctl.pc /\ ctl'.sent = TRUE /\ ctl'.commit = ctl.commit /\ ctl'.ok = ctl.ok
      /\ ctl'.recovered = ctl.recovered
  BY <1>1, <1>3 DEF TypeParts, ControlType, Slots
<1>6. Waiting' /\ Owned'
  BY <1>1, <1>2, <1>3, <1>4, <1>5 DEF Waiting, Owned, Slots
<1>7. ASSUME clean', ctl.pc # "idle" PROVE ~Alive("late")' /\ (\A g \in Hosts : OnHost(g))' /\ Stages' /\ Outcomes'
  <2>1. ~Alive("late") /\ Stages /\ Outcomes
    BY <1>1, <1>7 DEF RunInv
  <2>2. ~Alive("late")'
    BY <1>3, <1>5, <2>1 DEF Alive, Slots, Hosts
  <2>3. ASSUME NEW h \in Hosts PROVE OnHost(h)'
    <3>1. CASE h = Sent
      BY <1>4, <1>5, <3>1 DEF OnHost, Fixed, Seen, Serving, Noted
    <3>2. CASE h # Sent
      BY <1>2, <1>5, <3>2 DEF OnHost, Fixed, Seen, Serving, Noted, Slots
    <3>3. QED
      BY <3>1, <3>2
  <2>4. Stages'
    BY <1>1, <1>2, <1>4, <1>5, <2>1 DEF Stages, Unchanged, PreviousKept, Serves, Noted,
         recordVars, Hosts, Slots
  <2>5. Outcomes'
    BY <1>1, <1>5, <2>1 DEF Outcomes, PreviousKept, Serves, recordVars
  <2>6. QED
    BY <2>2, <2>3, <2>4, <2>5
<1>8. QED
  BY <1>5, <1>6, <1>7 DEF RunInv

LEMMA Distinct ==
  /\ <<"worker", "current">> # <<"app", "current">> /\ <<"worker", "current">> # <<"app", "previous">>
  /\ <<"app", "current">> # <<"app", "previous">>
  /\ <<"worker", "previous">> # <<"app", "current">> /\ <<"worker", "previous">> # <<"app", "previous">>
  /\ <<"worker", "previous">> # <<"worker", "current">>
OBVIOUS

(* The answer to a command, whose script has ended.                          *)
LEMMA AnsweredKeepsRun ==
  ASSUME TypeParts, Owned, Stages, Outcomes, \A h \in Hosts : OnHost(h),
         ctl.pc \in DOMAIN Commands, \A h \in Hosts : ~Alive(h),
         NEW ok \in BOOLEAN, ok <=> ctl.sent /\ script[Sent].pc = "done", Answered(ok),
         UNCHANGED <<recordVars, containers, nginx, base>>,
         \A h \in Hosts : script'[h].pc = "none"
  PROVE  Stages' /\ Outcomes'
<1>1. /\ ctl'.pc = After(ctl.pc, ok) /\ ctl'.commit = ctl.commit
      /\ ctl'.ok = (ok /\ ctl.pc = "deploy worker")
      /\ ctl'.recovered = IF ok /\ Commands[ctl.pc][2] # "release"
                          THEN ctl.recovered \cup {Commands[ctl.pc]} ELSE ctl.recovered
  BY DEF Answered, TypeParts, ControlType, CtlAt
<1>2. \A h \in Hosts : script[h].pc \in Noted => script[h].pc = "done" /\ h = Sent /\ ok
  BY OnlyAwaited DEF Alive, Ended, Noted
<1>3. \A h \in Hosts : script[h].pc # "none" => Commands[ctl.pc] = <<h, script[h].of>>
  BY DEF Owned
<1>4. ASSUME NEW h \in Hosts, NEW of, Commands[ctl.pc] = <<h, of>>, ok
      PROVE  /\ containers[h] = current[h] /\ (h = "app" => nginx = current[h])
             /\ of = "release" => /\ current[h] = ctl.commit
                                  /\ ctl.commit # base[h] => previous[h] = base[h]
             /\ of = "current" => current[h] = base[h]
             /\ of = "previous" /\ ctl.commit # base[h] => current[h] = base[h]
  <2>1. Sent = h
    BY <1>4 DEF Sent
  <2>2. script[h].pc = "done"
    BY <1>4, <2>1
  <2>3. script[h].of = of
    <3>1. <<h, of>> = <<h, script[h].of>>
      BY <1>3, <1>4, <2>2
    <3>2. QED
      BY <3>1
  <2>4. OnHost(h)
    OBVIOUS
  <2>5. QED
    BY <2>2, <2>3, <2>4 DEF OnHost, Wanted, Fixed, Seen, Serving, Noted
<1> USE <1>1, <1>2 DEF Stages, Outcomes, Unchanged, PreviousKept, Serves, Preparing, Ending, Noted, recordVars, Hosts
<1>6. CASE ctl.pc = "deploy app"
  <2>1. Commands[ctl.pc] = <<"app", "release">> /\ Commands[ctl.pc][2] = "release"
    BY <1>6, CommandValues, CommandTargets
  <2>2. ctl'.recovered = ctl.recovered /\ ctl'.ok = FALSE /\ ctl'.pc = IF ok THEN "deploy worker" ELSE "return app"
    BY <1>6, <2>1 DEF After
  <2>3. ok => Serves("app", ctl.commit) /\ PreviousKept
    BY <1>4, <2>1
  <2>4. Stages'
    BY <1>6, <2>1, <2>2, <2>3, CommandValues DEF Sent
  <2>5. Outcomes'
    BY <1>6, <2>2
  <2>6. QED
    BY <2>4, <2>5
<1>7. CASE ctl.pc = "return app"
  <2>1. Commands[ctl.pc] = <<"app", "current">> /\ Commands[ctl.pc][2] = "current"
    BY <1>7, CommandValues, CommandTargets
  <2>2. /\ ctl'.recovered = IF ok THEN ctl.recovered \cup {<<"app", "current">>} ELSE ctl.recovered
        /\ ctl'.ok = FALSE /\ ctl'.pc = "exit"
    BY <1>7, <2>1 DEF After
  <2>3. ok => Serves("app", base["app"])
    BY <1>4, <2>1
  <2>4. Stages'
    BY <2>2
  <2>5. Outcomes'
    BY <1>7, <2>2, <2>3, Distinct
  <2>6. QED
    BY <2>4, <2>5
<1>8. CASE ctl.pc = "deploy worker"
  <2>1. Commands[ctl.pc] = <<"worker", "release">> /\ Commands[ctl.pc][2] = "release"
    BY <1>8, CommandValues, CommandTargets
  <2>2. ctl'.recovered = ctl.recovered /\ ctl'.ok = ok /\ ctl'.pc = IF ok THEN "exit" ELSE "return worker"
    BY <1>8, <2>1 DEF After
  <2>3. ok => Serves("worker", ctl.commit)
    BY <1>4, <2>1
  <2>4. script["app"].pc = "none"
    <3>1. SUFFICES ASSUME script["app"].pc # "none" PROVE FALSE
      OBVIOUS
    <3>2. <<"worker", "release">> = <<"app", script["app"].of>>
      BY <1>3, <2>1, <3>1
    <3>3. QED
      BY <3>2
  <2>5. PreviousKept /\ Serves("app", ctl.commit)
    BY <1>8, <2>4
  <2>6. ~ok => current["worker"] = base["worker"]
    BY <1>8
  <2>7. Stages'
    BY <2>2, <2>5, <2>6
  <2>8. Outcomes'
    BY <1>8, <2>2, <2>3, <2>5
  <2>9. QED
    BY <2>7, <2>8
<1>9. CASE ctl.pc = "return worker"
  <2>1. Commands[ctl.pc] = <<"worker", "current">> /\ Commands[ctl.pc][2] = "current"
    BY <1>9, CommandValues, CommandTargets
  <2>2. /\ ctl'.recovered = IF ok THEN ctl.recovered \cup {<<"worker", "current">>} ELSE ctl.recovered
        /\ ctl'.ok = FALSE /\ ctl'.pc = "undo app"
    BY <1>9, <2>1 DEF After
  <2>3. ok => Serves("worker", base["worker"])
    BY <1>4, <2>1
  <2>4. script["app"].pc = "none"
    <3>1. SUFFICES ASSUME script["app"].pc # "none" PROVE FALSE
      OBVIOUS
    <3>2. <<"worker", "current">> = <<"app", script["app"].of>>
      BY <1>3, <2>1, <3>1
    <3>3. QED
      BY <3>2
  <2>5. PreviousKept
    BY <1>9, <2>4
  <2>6. Stages'
    BY <2>2, <2>5
  <2>7. Outcomes'
    BY <1>9, <2>2, <2>3, Distinct
  <2>8. QED
    BY <2>6, <2>7
<1>10. CASE ctl.pc = "undo app"
  <2>1. Commands[ctl.pc] = <<"app", "previous">> /\ Commands[ctl.pc][2] = "previous"
    BY <1>10, CommandValues, CommandTargets
  <2>2. /\ ctl'.recovered = IF ok THEN ctl.recovered \cup {<<"app", "previous">>} ELSE ctl.recovered
        /\ ctl'.ok = FALSE /\ ctl'.pc = "exit"
    BY <1>10, <2>1 DEF After
  <2>3. ok /\ ctl.commit # base["app"] => Serves("app", base["app"])
    BY <1>4, <2>1
  <2>4. Stages'
    BY <2>2
  <2>5. Outcomes'
    BY <1>10, <2>2, <2>3, Distinct
  <2>6. QED
    BY <2>4, <2>5
<1>11. QED
  BY <1>6, <1>7, <1>8, <1>9, <1>10, CommandValues

LEMMA SendFailsKeepsRun ==
  ASSUME TypeParts, Waiting, Owned, RunInv, SendFails
  PROVE  Waiting' /\ Owned' /\ RunInv'
<1>1. /\ ctl.pc \in DOMAIN Commands /\ ctl.sent = FALSE /\ Answered(FALSE)
      /\ UNCHANGED <<recordVars, hostVars, workerVars, runs, base>>
  BY DEF SendFails, TypeParts, ControlType
<1>2. \A h \in Hosts : script[h].pc = "none" /\ script'[h].pc = "none" /\ ~Alive(h)
  BY <1>1, Quiet DEF hostVars, Alive, Ended
<1>3. ctl'.sent = FALSE
  BY <1>1 DEF Answered, TypeParts, ControlType
<1>4. Waiting' /\ Owned'
  BY <1>2, <1>3 DEF Waiting, Owned
<1>5. ASSUME clean'
      PROVE  ~Alive("late")' /\ (\A g \in Hosts : OnHost(g))' /\ Stages' /\ Outcomes'
  <2>1. ~Alive("late") /\ (\A g \in Hosts : OnHost(g)) /\ Stages /\ Outcomes
    BY <1>1, <1>5, CommandValues DEF RunInv, hostVars
  <2>2. ~Alive("late")' /\ (\A g \in Hosts : OnHost(g))'
    BY <1>1, <1>2, <2>1 DEF Alive, hostVars, OnHost, Fixed, Seen, Serving, Noted
  <2>3. UNCHANGED <<recordVars, containers, nginx, base>>
    BY <1>1 DEF hostVars
  <2>4. Stages' /\ Outcomes'
    BY <1>1, <1>2, <2>1, <2>3, AnsweredKeepsRun
  <2>5. QED
    BY <2>2, <2>4
<1>6. QED
  BY <1>4, <1>5 DEF RunInv

LEMMA AnswerKeepsRun ==
  ASSUME TypeParts, Waiting, Owned, RunInv, Answer
  PROVE  Waiting' /\ Owned' /\ RunInv'
<1> DEFINE ok == At(Sent, "done")
<1>1. /\ ctl.pc \in DOMAIN Commands /\ ctl.sent /\ ~Alive(Sent) /\ Answered(ok)
      /\ script' = [script EXCEPT ![Sent] = NoScript]
      /\ UNCHANGED <<recordVars, containers, nginx, clean, workerVars, runs, base>>
  BY DEF Answer
<1>2. Sent \in Hosts /\ ok \in BOOLEAN /\ (ok <=> ctl.sent /\ script[Sent].pc = "done")
  BY <1>1, SentIsHost DEF At
<1>3. \A h \in Hosts : h # Sent => script[h].pc = "none"
  BY OnlyAwaited
<1>4. /\ \A h \in Hosts : ~Alive(h) /\ script'[h].pc = "none"
      /\ script'["late"] = script["late"]
  BY <1>1, <1>2, <1>3 DEF TypeParts, Alive, Ended, Slots, NoScript, Hosts
<1> HIDE DEF ok
<1>5. ctl'.sent = FALSE
  BY <1>1 DEF Answered, TypeParts, ControlType
<1>6. Waiting' /\ Owned'
  BY <1>4, <1>5 DEF Waiting, Owned
<1>7. ASSUME clean'
      PROVE  ~Alive("late")' /\ (\A g \in Hosts : OnHost(g))' /\ Stages' /\ Outcomes'
  <2>1. ~Alive("late") /\ (\A g \in Hosts : OnHost(g)) /\ Stages /\ Outcomes
    BY <1>1, <1>7, CommandValues DEF RunInv
  <2>2. ~Alive("late")' /\ (\A g \in Hosts : OnHost(g))'
    BY <1>4, <2>1 DEF Alive, OnHost, Fixed, Seen, Serving, Noted
  <2>3. Stages' /\ Outcomes'
    BY <1>1, <1>2, <1>4, <2>1, AnsweredKeepsRun
  <2>4. QED
    BY <2>2, <2>3
<1>8. QED
  BY <1>6, <1>7 DEF RunInv

(* A script nobody waits for any more: the run is no longer one whose scripts *)
(* all ended in time.                                                         *)
LEMMA AbandonLeavesNone ==
  ASSUME TypeParts, Owned, ctl.sent, Sent \in Hosts, Abandon(Sent)
  PROVE  /\ \A h \in Hosts : script'[h].pc = "none"
         /\ clean' => clean /\ ~Alive(Sent)
         /\ ~Alive(Sent) => script'["late"] = script["late"]
<1>1. \A h \in Hosts : h # Sent => script[h].pc = "none"
  BY OnlyAwaited
<1>2. QED
  BY <1>1 DEF Abandon, TypeParts, Slots, Hosts, NoScript

LEMMA TimesOutKeepsRun ==
  ASSUME TypeParts, Waiting, Owned, RunInv, TimesOut
  PROVE  Waiting' /\ Owned' /\ RunInv'
<1>1. ctl.pc \in DOMAIN Commands /\ ctl.sent /\ Alive(Sent) /\ Abandon(Sent) /\ Answered(FALSE)
  BY DEF TimesOut
<1>2. (\A h \in Hosts : script'[h].pc = "none") /\ ~clean'
  BY <1>1, SentIsHost, AbandonLeavesNone
<1>3. ctl'.sent = FALSE
  BY <1>1 DEF Answered, TypeParts, ControlType
<1>4. QED
  BY <1>2, <1>3 DEF Waiting, Owned, RunInv

LEMMA StopWorkerKeepsRun ==
  ASSUME TypeParts, Waiting, Owned, StopWorker
  PROVE  Waiting' /\ Owned' /\ RunInv'
<1>1. ctl' = NoRun /\ ctl.pc = "stop" /\ (CutScripts \/ UNCHANGED script)
  BY DEF StopWorker, CtlAt, hostVars
<1>2. \A h \in Hosts : script[h].pc = "none"
  BY <1>1, CommandValues, Quiet DEF Waiting
<1>3. \A h \in Hosts : script'[h].pc = "none"
  BY <1>1, <1>2 DEF CutScripts, Hosts, Slots, Alive, Ended
<1>4. ctl'.sent = FALSE /\ ctl'.pc = "idle"
  BY <1>1 DEF NoRun
<1>5. QED
  BY <1>3, <1>4 DEF Waiting, Owned, RunInv

LEMMA CancelledKeepsRun ==
  ASSUME TypeParts, Waiting, Owned, RunInv, Cancelled
  PROVE  Waiting' /\ Owned' /\ RunInv'
<1>1. /\ ctl.pc # "idle"
      /\ IF ctl.sent THEN Abandon(Sent) ELSE UNCHANGED <<script, clean>>
      /\ \/ ctl' = NoRun
         \/ ctl.pc \notin Ending /\ ctl' = [ctl EXCEPT !.pc = "exit", !.sent = FALSE]
      /\ UNCHANGED <<recordVars, containers, nginx, workerVars, runs, base>>
  BY DEF Cancelled, CtlAt, Ending
<1>2. /\ \A h \in Hosts : script'[h].pc = "none"
      /\ clean' => clean /\ script'["late"] = script["late"]
      /\ clean' => \A h \in Hosts : ~Alive(h)
  <2>1. CASE ctl.sent
    <3>1. Sent \in Hosts /\ Abandon(Sent)
      BY <1>1, <2>1, SentIsHost DEF Waiting
    <3>2. \A h \in Hosts : h # Sent => ~Alive(h)
      BY OnlyAwaited DEF Alive, Ended
    <3>3. QED
      BY <2>1, <3>1, <3>2, AbandonLeavesNone
  <2>2. CASE ~ctl.sent
    BY <1>1, <2>2, Quiet DEF Alive, Ended
  <2>3. QED
    BY <2>1, <2>2
<1>3. ctl'.sent = FALSE
  <2>1. CASE ctl' = NoRun
    BY <2>1 DEF NoRun
  <2>2. CASE ctl' = [ctl EXCEPT !.pc = "exit", !.sent = FALSE]
    BY <2>2 DEF TypeParts, ControlType
  <2>3. QED
    BY <1>1, <2>1, <2>2
<1>4. Waiting' /\ Owned'
  BY <1>2, <1>3 DEF Waiting, Owned
<1>5. CASE ctl' = NoRun
  BY <1>4, <1>5 DEF RunInv, NoRun
<1>6. CASE ctl.pc \notin Ending /\ ctl' = [ctl EXCEPT !.pc = "exit", !.sent = FALSE]
  <2>1. /\ ctl'.pc = "exit" /\ ctl'.commit = ctl.commit /\ ctl'.ok = ctl.ok
        /\ ctl'.recovered = ctl.recovered
    BY <1>6 DEF TypeParts, ControlType
  <2>2. ASSUME clean'
        PROVE  ~Alive("late")' /\ (\A g \in Hosts : OnHost(g))' /\ Stages' /\ Outcomes'
    <3>1. ~Alive("late") /\ Outcomes
      BY <1>1, <1>2, <2>2 DEF RunInv
    <3>2. ~Alive("late")' /\ (\A g \in Hosts : OnHost(g))'
      BY <1>2, <2>2, <3>1 DEF Alive, OnHost, Fixed, Seen, Serving, Noted
    <3>3. Stages'
      BY <2>1 DEF Stages, Preparing
    <3>4. Outcomes'
      BY <1>1, <1>6, <2>1, <3>1 DEF Outcomes, PreviousKept, Serves, Ending, recordVars
    <3>5. QED
      BY <3>2, <3>3, <3>4
  <2>3. QED
    BY <1>4, <2>2 DEF RunInv
<1>7. QED
  BY <1>1, <1>5, <1>6
-----------------------------------------------------------------------------
LEMMA HostInit == ASSUME Init PROVE HostInv
<1>1. TypeParts /\ RelInv
  BY TypeInit
<1>2. (\A h \in Hosts : script[h].pc = "none") /\ ctl.sent = FALSE /\ ctl.pc = "idle"
  BY DEF Init, NoScript, NoRun, Slots
<1>3. Waiting /\ Owned /\ RunInv
  BY <1>2 DEF Waiting, Owned, RunInv
<1>4. QED
  BY <1>1, <1>3, SameType DEF HostInv

LEMMA HostStep ==
  ASSUME HostInv, [Next]_deployVars
  PROVE  HostInv'
<1>1. TypeParts /\ RelInv /\ Waiting /\ Owned /\ RunInv
  BY SameType DEF HostInv
<1>2. TypeParts' /\ RelInv'
  BY <1>1, TypeStep
<1>3. Waiting' /\ Owned' /\ RunInv'
  <2>1. CASE \E c \in Releases : StartRun(c)
    BY <1>1, <2>1, StartKeepsRun
  <2>2. CASE Worker
    BY <1>1, <2>2, WorkerKeepsRun
  <2>3. CASE \E s \in Slots : Script(s)
    BY <1>1, <2>3, ScriptKeepsRun
  <2>4. CASE Cancelled
    BY <1>1, <2>4, CancelledKeepsRun
  <2>5. CASE Controller
    <3>1. CASE Ready \/ Pause \/ PauseFails \/ Stage \/ Stops \/ ResumeTimer
      BY <1>1, <3>1, PlainKeepsRun
    <3>2. CASE Send
      BY <1>1, <3>2, SendKeepsRun
    <3>3. CASE SendFails
      BY <1>1, <3>3, SendFailsKeepsRun
    <3>4. CASE Answer
      BY <1>1, <3>4, AnswerKeepsRun
    <3>5. CASE TimesOut
      BY <1>1, <3>5, TimesOutKeepsRun
    <3>6. CASE StopWorker
      BY <1>1, <3>6, StopWorkerKeepsRun
    <3>7. QED
      BY <2>5, <3>1, <3>2, <3>3, <3>4, <3>5, <3>6 DEF Controller
  <2>6. CASE UNCHANGED deployVars
    BY <1>1, <2>6, SameRun DEF deployVars
  <2>7. QED
    BY <2>1, <2>2, <2>3, <2>4, <2>5, <2>6 DEF Next
<1>4. DeployTypeOK'
  BY <1>2 DEF DeployTypeOK, TypeParts, ScriptType, ScriptSteps, ControlType, ControlSteps,
       Preparing,
              Ending
<1>5. QED
  BY <1>2, <1>3, <1>4 DEF HostInv

LEMMA HostInvariant == DeploySpec => []HostInv
<1>1. Init => HostInv
  BY HostInit
<1>2. HostInv /\ [Next]_deployVars => HostInv'
  BY HostStep
<1>3. QED
  BY <1>1, <1>2, PTL DEF DeploySpec

(* The containers, nginx, the records, the scripts and the controller keep    *)
(* their types.                                                               *)
THEOREM DeployTypesKept == DeploySpec => []DeployTypeOK
<1>1. HostInv => DeployTypeOK
  BY DEF HostInv
<1>2. QED
  BY <1>1, HostInvariant, PTL

(* A recovery the hosts reported as done has put back what they ran before    *)
(* the run: run-cloud-deployment.sh's report is true, whichever step failed,  *)
(* unless a script went on after its wait or died while it was recording.     *)
THEOREM RecoveryIsTrue == DeploySpec => []RecoveryRestores
<1>1. HostInv => RecoveryRestores
  <2>1. SUFFICES ASSUME HostInv, ctl.pc = "exit", clean, NEW c \in ctl.recovered
                 PROVE  \/ c = <<"app", "previous">> /\ ctl.commit = base["app"]
                        \/ Serves(c[1], base[c[1]])
    BY DEF RecoveryRestores, CtlAt
  <2>2. Outcomes
    BY <2>1 DEF HostInv, RunInv
  <2>3. c \in Hosts \X {"current", "previous"}
    BY <2>1 DEF HostInv, DeployTypeOK
  <2>4. \/ c = <<"app", "current">> \/ c = <<"app", "previous">>
        \/ c = <<"worker", "current">> \/ c = <<"worker", "previous">>
    BY <2>3 DEF Hosts
  <2>5. CASE c = <<"app", "current">>
    <3>1. c[1] = "app" /\ Serves("app", base["app"])
      BY <2>1, <2>2, <2>5, PartsOfPair DEF Outcomes
    <3>2. QED
      BY <3>1
  <2>6. CASE c = <<"app", "previous">>
    <3>1. c[1] = "app" /\ (ctl.commit # base["app"] => Serves("app", base["app"]))
      BY <2>1, <2>2, <2>6, PartsOfPair DEF Outcomes
    <3>2. QED
      BY <2>6, <3>1
  <2>7. CASE c = <<"worker", "current">>
    <3>1. c[1] = "worker" /\ Serves("worker", base["worker"])
      BY <2>1, <2>2, <2>7, PartsOfPair DEF Outcomes
    <3>2. QED
      BY <3>1
  <2>8. CASE c = <<"worker", "previous">>
    BY <2>1, <2>2, <2>8 DEF Outcomes
  <2>9. QED
    BY <2>4, <2>5, <2>6, <2>7, <2>8
<1>2. QED
  BY <1>1, HostInvariant, PTL

(* A run that reports success leaves both hosts on its commit, with the       *)
(* records that name it, and the app's record of the release before it.       *)
THEOREM SuccessIsTrue == DeploySpec => []SuccessIsWhole
<1>1. HostInv => SuccessIsWhole
  <2>1. SUFFICES ASSUME HostInv, ctl.pc = "exit", clean, ctl.ok
                 PROVE  /\ \A h \in Hosts : Serves(h, ctl.commit)
                        /\ ctl.commit # base["app"] => previous["app"] = base["app"]
    BY DEF SuccessIsWhole, CtlAt
  <2>2. Outcomes
    BY <2>1 DEF HostInv, RunInv
  <2>3. QED
    BY <2>1, <2>2 DEF Outcomes, PreviousKept, Hosts
<1>2. QED
  BY <1>1, HostInvariant, PTL
=============================================================================
