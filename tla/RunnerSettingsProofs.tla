------------------------- MODULE RunnerSettingsProofs -------------------------
(***************************************************************************)
(* Proofs about RunnerSettings, for any endpoints, any number of updates   *)
(* and any number of writes of somebody else: the types, that an update    *)
(* takes nothing back beside its own sync-vlm, that the backup of a        *)
(* half-made change is always on the host, and that what an update         *)
(* reported stays true.                                                    *)
(***************************************************************************)
EXTENDS RunnerSettings, TLAPS

-----------------------------------------------------------------------------
(* The inductive invariant. *)

\* Only an update that was started has a command.
Numbered == (pc # "idle" => op \in Ops) /\ \A c \in inflight : c.op <= op

TypeInv == SettingsTypeOK /\ Numbered

Settled == pc = "synced" /\ reply = "success"

\* An update that writes has no command but the one it waits for, and, after a signal,
\* the sync-vlm it no longer waits for.
OwnCommands ==
  /\ pc \in {"read", "inspect", "put", "update", "await", "sync"} => Own = {}
  /\ pc = "inspected" => \A c \in Own : c.act = "inspect"
  /\ pc = "synced" => \A c \in Own : c.act = "sync"
  /\ pc \in TakingBack \cup {"recover"} => \A c \in Own :
       \/ c.act = "sync" /\ signalled
       \/ c.act = "restore" /\ pc = "restoredRunner"
  /\ \A c, d \in inflight : Awaited(c) /\ Awaited(d) => c = d /\ reply = "none"

\* `finalize` is the last command of an update.
FinalizeLast == \A c, d \in inflight : c.act = "finalize" /\ d.op = c.op => c = d

\* One command has the host's lock, and knows how far it got.
Undoes(o) ==
  backup[o].state = "updating" /\ {file, container} \subseteq {backup[o].old, backup[o].new}
Progress(c) ==
  /\ c.at # "queued" => c.act \in {"sync", "restore"}
  /\ c.at = "checked" => c.act = "sync" /\ file = backup[c.op].old /\ container = file
  /\ c.at \in {"saved", "written", "recreated"} =>
       Undoes(c.op) /\ c.url \in {backup[c.op].old, backup[c.op].new}
  /\ c.at \in {"written", "recreated"} => file = c.url
  /\ c.at = "recreated" => container = c.url
Locked == \A c, d \in inflight : c.at # "queued" /\ d.at # "queued" => c = d

\* The backup that undoes a half-made change is one that nobody will remove.
Kept(o) == (\A c \in inflight : c.op = o => c.act # "finalize") /\ ~(o = op /\ Settled)
Undoable == file # container => \E o \in Ops : Undoes(o) /\ Kept(o)

SInv ==
  /\ TypeInv /\ OwnCommands /\ FinalizeLast /\ Locked
  /\ \A c \in inflight : Progress(c)
  /\ Undoable

CommandSet ==
  [op : Ops, act : {"inspect", "sync", "restore", "finalize"}, version : Nat,
   at : {"queued", "checked", "saved", "written", "recreated"}, url : AnyUrl]

LEMMA SInvInit == Init => SInv
<1> SUFFICES ASSUME Init PROVE SInv
  OBVIOUS
<1>1. SettingsTypeOK
  <2>1. PICK u \in Urls : param = [url |-> u, version |-> 1] /\ apiUrl = u /\ fresh = u
    BY DEF Init
  <2>2. param \in [url : Urls, version : Nat] /\ old = param /\ new = u
    BY <2>1 DEF Init
  <2>3. NoBackup \in [state : {"none", "prepared", "updating"}, api : AnyUrl, version : Nat,
                      old : AnyUrl, new : AnyUrl]
    BY DEF NoBackup, AnyUrl
  <2>4. settled \in [version : Nat, url : Urls, runner : AnyUrl, known : BOOLEAN]
    BY <2>1, <2>2 DEF Init, AnyUrl
  <2>5. {target, running, prev, op} \subseteq 0..MaxOps /\ foreign \in 0..MaxForeign
    BY SettingsAssumption DEF Init
  <2>6. {file, container} \subseteq AnyUrl /\ {fresh, apiUrl, new} \subseteq Urls
    BY <2>1, <2>2 DEF Init, AnyUrl
  <2>7. backup \in [Ops -> [state : {"none", "prepared", "updating"}, api : AnyUrl,
                           version : Nat, old : AnyUrl, new : AnyUrl]]
    BY <2>3 DEF Init
  <2>8. rollout = "done" /\ inflight = {} /\ reply = "none" /\ pc = "idle"
        /\ version = 0 /\ restored = 0 /\ touched = FALSE /\ signalled = FALSE
    BY DEF Init
  <2>9. old \in [url : Urls, version : Nat] /\ {version, restored} \subseteq Nat
    BY <2>2, <2>8
  <2>10. inflight \subseteq CommandSet
    BY <2>8
  <2>11. QED
    BY <2>2, <2>4, <2>5, <2>6, <2>7, <2>8, <2>9, <2>10 DEF SettingsTypeOK, CommandSet
<1>2. QED
  BY <1>1 DEF Init, SInv, TypeInv, Numbered, OwnCommands, TakingBack, FinalizeLast,
       Locked, Progress, Undoable

-----------------------------------------------------------------------------
(* Types. *)

\* A command is sent with a version that is known.
LEMMA SendType ==
  ASSUME TypeInv, pc # "idle", NEW act \in {"inspect", "sync", "restore", "finalize"}, NEW v \in Nat
  PROVE  [op |-> op, act |-> act, version |-> v, at |-> "queued", url |-> NoUrl] \in CommandSet
BY DEF TypeInv, Numbered, CommandSet, AnyUrl

\* What a process that ends leaves has its types, if what it changed last has them.
LEMMA QuitType ==
  ASSUME TypeInv, Quit, UNCHANGED <<paramVars, apiVars, file, container, backup>>,
         inflight' \subseteq CommandSet, \A c \in inflight' : c.op <= op,
         settled' \in [version : Nat, url : Urls, runner : AnyUrl, known : BOOLEAN]
  PROVE  TypeInv'
<1> USE DEF TypeInv, SettingsTypeOK, Quit, paramVars, apiVars, planVars
<1>1. /\ UNCHANGED <<param, foreign, target, running, rollout, fresh, apiUrl, file, container,
                     backup, op, new, old>>
      /\ pc' = "idle" /\ reply' = "none" /\ prev' = 0 /\ version' = 0 /\ restored' = 0
      /\ touched' = FALSE /\ signalled' = FALSE
  OBVIOUS
<1>2. prev' \in 0..MaxOps /\ {version', restored'} \subseteq Nat
  BY <1>1, SettingsAssumption
<1>3. SettingsTypeOK'
  BY <1>1, <1>2 DEF CommandSet
<1>4. Numbered'
  BY <1>1 DEF Numbered
<1>5. QED
  BY <1>3, <1>4

LEMMA TypeUpdate ==
  ASSUME TypeInv, Start \/ Update \/ Die
  PROVE  TypeInv'
<1> USE SettingsAssumption DEF TypeInv, SettingsTypeOK, Numbered, AnyUrl, Ops,
        paramVars, apiVars, hostVars, planVars, workVars
<1>q. /\ inflight \subseteq CommandSet /\ \A c \in inflight : c.op <= op
      /\ settled \in [version : Nat, url : Urls, runner : AnyUrl, known : BOOLEAN]
  BY DEF CommandSet
<1>1. CASE Start
  <2>1. op' = op + 1 /\ op \in 0..MaxOps /\ op < MaxOps /\ inflight' = inflight
    BY <1>1 DEF Start
  <2>2. op' \in Ops
    BY <2>1
  <2>3. \A c \in inflight : c.op \in Ops /\ c.op <= op
    OBVIOUS
  <2>4. Numbered'
    BY <2>1, <2>2, <2>3
  <2>5. SettingsTypeOK'
    <3>1. op' \in 0..MaxOps /\ new' \in Urls /\ version' \in Nat /\ restored' \in Nat
      BY <1>1, <2>1 DEF Start
    <3>2. UNCHANGED <<paramVars, apiVars, hostVars, reply, old, prev, touched, signalled,
                   settled>>
      BY <1>1 DEF Start
    <3>3. pc' = "read"
      BY <1>1 DEF Start
    <3>4. {target', running', prev', op'} \subseteq 0..MaxOps /\ {fresh', apiUrl', new'} \subseteq Urls
      BY <3>1, <3>2
    <3>5. QED
      BY <3>1, <3>2, <3>3, <3>4
  <2>6. QED
    BY <2>4, <2>5
<1>2. CASE Read
  BY SMTT(30), <1>2 DEF Read
<1>3. CASE Inspect
  BY SMTT(30), <1>3, SendType DEF Inspect, Send, CommandSet
<1>4. CASE Recheck
  BY <1>4 DEF Recheck
<1>5. CASE Refuse
  BY <1>5, <1>q, QuitType DEF Refuse
<1>6. CASE PutNew
  <2>1. param' \in [url : Urls, version : Nat] /\ param'.version \in Nat
    BY <1>6 DEF PutNew, PutParameter
  <2>2. QED
    BY <1>6, <2>1 DEF PutNew
<1>7. CASE UpdateApi
  BY SMTT(30), <1>7 DEF UpdateApi, UpdateService
<1>8. CASE ApiReady
  BY <1>8 DEF ApiReady
<1>9. CASE Sync
  BY SMTT(30), <1>9, SendType DEF Sync, Send, CommandSet
<1>10. CASE Finalize
  <2>1. [op |-> op, act |-> "finalize", version |-> version, at |-> "queued",
         url |-> NoUrl] \in CommandSet
    BY <1>10, SendType DEF Finalize
  <2>2. inflight' \subseteq CommandSet /\ \A c \in inflight' : c.op <= op
    BY <1>10, <1>q, <2>1 DEF Finalize
  <2>3. settled' \in [version : Nat, url : Urls, runner : AnyUrl, known : BOOLEAN]
    BY <1>10 DEF Finalize
  <2>4. Quit /\ UNCHANGED <<paramVars, apiVars, file, container, backup>>
    BY <1>10 DEF Finalize
  <2>5. QED
    BY <2>2, <2>3, <2>4, QuitType
<1>11. CASE Fail
  BY <1>11 DEF Fail
<1>12. CASE Unknown
  BY <1>12, <1>q, QuitType DEF Unknown
<1>13. CASE CheckRecovery
  BY <1>13 DEF CheckRecovery
<1>14. CASE RestoreParam
  <2>1. param' \in [url : Urls, version : Nat] /\ param'.version \in Nat
    BY <1>14 DEF RestoreParam, PutParameter
  <2>2. QED
    BY SMTT(30), <1>14, <2>1 DEF RestoreParam
<1>15. CASE RestoreApi
  BY SMTT(30), <1>15 DEF RestoreApi, UpdateService
<1>16. CASE RestoredApi
  <2>1. settled' \in [version : Nat, url : Urls, runner : AnyUrl, known : BOOLEAN]
    <3>1. old.url \in Urls
      OBVIOUS
    <3>2. CASE touched
      BY <1>16, <3>2 DEF RestoredApi
    <3>3. CASE ~touched
      <4>1. settled' = [version |-> restored, url |-> old.url, runner |-> NoUrl, known |-> FALSE]
        BY <1>16, <3>3 DEF RestoredApi
      <4>2. restored \in Nat
        OBVIOUS
      <4>3. QED
        BY <3>1, <4>1, <4>2
    <3>4. QED
      BY <3>2, <3>3
  <2>2. CASE touched
    BY <1>16, <2>1, <2>2 DEF RestoredApi
  <2>3. CASE ~touched
    BY <1>16, <1>q, <2>1, <2>3, QuitType DEF RestoredApi
  <2>4. QED
    BY <2>2, <2>3
<1>17. CASE RestoreRunner
  BY <1>17, SendType DEF RestoreRunner, Send, CommandSet
<1>18. CASE RestoredRunner
  <2>1. settled' \in [version : Nat, url : Urls, runner : AnyUrl, known : BOOLEAN]
    BY <1>18 DEF RestoredRunner
  <2>2. QED
    BY <1>18, <1>q, <2>1, QuitType DEF RestoredRunner
<1>19. CASE RecoveryFails
  BY <1>19, <1>q, QuitType DEF RecoveryFails
<1>20. CASE Die
  BY <1>20, <1>q, QuitType DEF Die
<1>21. CASE Interrupted
  BY <1>21 DEF Interrupted
<1>22. QED
  BY <1>1, <1>2, <1>3, <1>4, <1>5, <1>6, <1>7, <1>8, <1>9, <1>10, <1>11, <1>12, <1>13,
       <1>14, <1>15, <1>16, <1>17, <1>18, <1>19, <1>20, <1>21 DEF Update

LEMMA TypeEcs ==
  ASSUME TypeInv, Ecs \/ ForeignPut
  PROVE  TypeInv'
<1> USE SettingsAssumption DEF TypeInv, SettingsTypeOK, Numbered, AnyUrl, Ops,
        paramVars, apiVars, hostVars, planVars, workVars
<1>1. CASE Ecs
  <2>1. CASE RolloutStarts
    BY SMTT(30), <2>1 DEF RolloutStarts
  <2>2. CASE RolloutCompletes
    BY SMTT(30), <2>2 DEF RolloutCompletes
  <2>3. CASE BreakerRollsBack
    BY SMTT(30), <2>3 DEF BreakerRollsBack
  <2>4. CASE FailureForgotten
    BY SMTT(30), <2>4 DEF FailureForgotten
  <2>5. CASE TaskReplaced
    BY <2>5 DEF TaskReplaced
  <2>6. QED
    BY <1>1, <2>1, <2>2, <2>3, <2>4, <2>5 DEF Ecs
<1>2. CASE ForeignPut
  BY SMTT(30), <1>2 DEF ForeignPut, PutParameter
<1>3. QED
  BY <1>1, <1>2

LEMMA TypeHost ==
  ASSUME TypeInv, NEW c \in inflight,
         \/ HostInspects(c) \/ HostChecks(c) \/ HostBacksUp(c) \/ HostWrites(c)
         \/ HostRecreates(c) \/ HostSynced(c) \/ HostUnchanged(c) \/ HostRestores(c)
         \/ HostRestored(c) \/ HostFinalizes(c) \/ HostFails(c)
  PROVE  TypeInv'
<1> USE SettingsAssumption DEF TypeInv, SettingsTypeOK, Numbered, AnyUrl,
        paramVars, apiVars, planVars, workVars, hostKeeps, Ends, Becomes
<1>a. c \in CommandSet /\ c.op \in Ops /\ c.op <= op
  BY DEF CommandSet
<1>b. \A w, u : /\ [c EXCEPT !.at = w].op = c.op
               /\ [c EXCEPT !.at = w, !.url = u].op = c.op
  BY <1>a DEF CommandSet
<1>1. CASE HostInspects(c)
  BY <1>1, <1>a, <1>b DEF HostInspects, CommandSet
<1>2. CASE HostChecks(c)
  <2> DEFINE d == [c EXCEPT !.at = "checked", !.url = param.url]
  <2>1. param.url \in AnyUrl
    BY <1>a
  <2>2. d \in CommandSet /\ d.op = c.op
    BY <1>a, <2>1 DEF CommandSet
  <2>3. inflight' = (inflight \ {c}) \cup {d}
    BY <1>2 DEF HostChecks
  <2> HIDE DEF d
  <2>4. inflight' \subseteq CommandSet /\ \A e \in inflight' : e.op <= op
    BY <1>a, <2>2, <2>3 DEF CommandSet
  <2>5. QED
    BY <1>2, <2>4 DEF HostChecks, CommandSet
<1>3. CASE HostBacksUp(c)
  BY <1>3, <1>a, <1>b DEF HostBacksUp, CommandSet
<1>4. CASE HostWrites(c)
  BY <1>4, <1>a, <1>b DEF HostWrites, CommandSet
<1>5. CASE HostRecreates(c)
  BY <1>5, <1>a, <1>b DEF HostRecreates, CommandSet
<1>6. CASE HostSynced(c)
  BY <1>6, <1>a, <1>b DEF HostSynced, CommandSet
<1>7. CASE HostUnchanged(c)
  BY <1>7, <1>a, <1>b DEF HostUnchanged, CommandSet
<1>8. CASE HostRestores(c)
  <2> DEFINE d == [c EXCEPT !.at = "saved", !.url = backup[c.op].old]
  <2>1. backup[c.op].old \in AnyUrl
    BY <1>a
  <2>2. d \in CommandSet /\ d.op = c.op
    BY <1>a, <2>1 DEF CommandSet
  <2>3. inflight' = (inflight \ {c}) \cup {d}
    BY <1>8 DEF HostRestores
  <2> HIDE DEF d
  <2>4. inflight' \subseteq CommandSet /\ \A e \in inflight' : e.op <= op
    BY <1>a, <2>2, <2>3 DEF CommandSet
  <2>5. QED
    BY <1>8, <2>4 DEF HostRestores, CommandSet
<1>9. CASE HostRestored(c)
  BY <1>9, <1>a, <1>b DEF HostRestored, CommandSet
<1>10. CASE HostFinalizes(c)
  <2>1. NoBackup \in [state : {"none", "prepared", "updating"}, api : AnyUrl, version : Nat,
                      old : AnyUrl, new : AnyUrl]
    BY DEF NoBackup
  <2>2. QED
    BY <1>10, <1>a, <1>b, <2>1 DEF HostFinalizes, CommandSet
<1>11. CASE HostFails(c)
  BY <1>11, <1>a, <1>b DEF HostFails, CommandSet
<1>12. QED
  BY <1>1, <1>2, <1>3, <1>4, <1>5, <1>6, <1>7, <1>8, <1>9, <1>10, <1>11

(* SettingsTypeOK: every variable keeps its type.                                      *)
THEOREM SettingsTypesKept == SettingsSpec => []SettingsTypeOK
<1>1. Init => TypeInv
  BY SInvInit DEF SInv
<1>2. ASSUME TypeInv, [Next]_settingsVars PROVE TypeInv'
  <2>1. CASE Start \/ Update \/ Die
    BY <1>2, <2>1, TypeUpdate
  <2>2. CASE Ecs \/ ForeignPut
    BY <1>2, <2>2, TypeEcs
  <2>3. CASE Host
    BY <1>2, <2>3, TypeHost DEF Host
  <2>4. CASE UNCHANGED settingsVars
    BY <1>2, <2>4 DEF TypeInv, SettingsTypeOK, Numbered, settingsVars, paramVars, apiVars,
         hostVars, planVars, workVars
  <2>5. QED
    BY <1>2, <2>1, <2>2, <2>3, <2>4 DEF Next
<1>3. TypeInv => SettingsTypeOK
  BY DEF TypeInv
<1>4. QED
  BY <1>1, <1>2, <1>3, PTL DEF SettingsSpec

-----------------------------------------------------------------------------
(* The steps of the update, of ECS and of somebody else. *)

LEMMA Aside ==
  ASSUME SInv, TypeInv', UNCHANGED hostVars, OwnCommands', Settled' => Settled /\ op' = op
  PROVE  SInv'
<1>1. FinalizeLast' /\ Locked'
  BY DEF SInv, FinalizeLast, Locked, hostVars
<1>2. \A c \in inflight' : Progress(c)'
  BY DEF SInv, Progress, Undoes, hostVars
<1>3. \A o \in Ops : Undoes(o) /\ Kept(o) => Undoes(o)' /\ Kept(o)'
  BY DEF Undoes, Kept, hostVars
<1>4. Undoable'
  BY <1>3 DEF SInv, Undoable, hostVars
<1>5. QED
  BY <1>1, <1>2, <1>4 DEF SInv

LEMMA Sending ==
  ASSUME SInv, TypeInv', NEW n \in CommandSet, inflight' = inflight \cup {n},
         n.op = op, n.at = "queued", op' = op, UNCHANGED <<file, container, backup>>,
         \A c \in Own : c.act # "finalize", n.act = "finalize" => Own = {} /\ Settled,
         OwnCommands', ~Settled'
  PROVE  SInv'
<1>1. \A c \in inflight : c.op = op => c.act # "finalize" /\ n.act # "finalize"
  BY DEF Own
<1>2. FinalizeLast'
  BY <1>1 DEF SInv, FinalizeLast
<1>3. Locked'
  BY DEF SInv, Locked
<1>4. \A c \in inflight : Progress(c)'
  BY DEF SInv, Progress, Undoes
<1>5. Progress(n)'
  BY DEF Progress
<1>6. \A o \in Ops : Undoes(o) /\ Kept(o) => Undoes(o)' /\ Kept(o)'
  BY DEF Undoes, Kept
<1>7. Undoable'
  BY <1>6 DEF SInv, Undoable
<1>8. QED
  BY <1>2, <1>3, <1>4, <1>5, <1>7 DEF SInv

LEMMA UpdateStep ==
  ASSUME SInv, TypeInv', Start \/ Update \/ Die \/ Ecs \/ ForeignPut
  PROVE  SInv'
<1> USE DEF hostVars, planVars, workVars, Quit
<1>a. TypeInv /\ OwnCommands
  BY DEF SInv
<1>b. \A c \in inflight : c.op \in Nat /\ c.op <= op /\ op \in Nat
  <2>1. op \in 0..MaxOps /\ \A c \in inflight : c.op \in Ops
    BY <1>a DEF TypeInv, SettingsTypeOK
  <2>2. QED
    BY <1>a, <2>1, SettingsAssumption DEF TypeInv, Numbered, Ops
<1>1. CASE Start
  <2>1. op' = op + 1 /\ inflight' = inflight /\ pc' = "read"
    BY <1>1 DEF Start
  <2>2. Own' = {}
    BY <1>b, <2>1 DEF Own
  <2>3. OwnCommands' /\ ~Settled'
    BY <1>b, <2>1, <2>2 DEF OwnCommands, Settled, Awaited, Own, TakingBack
  <2>4. UNCHANGED hostVars
    BY <1>1 DEF Start
  <2>5. QED
    BY <2>3, <2>4, Aside
<1>2. CASE Read
  <2>1. UNCHANGED <<hostVars, op>>
    BY <1>2 DEF Read
  <2>2. Own' = Own
    BY <2>1 DEF Own
  <2>3. OwnCommands' /\ ~Settled'
    BY <1>a, <1>2, <2>2 DEF Read, OwnCommands, Settled, Awaited, Own,
         TakingBack
  <2>4. QED
    BY <2>1, <2>3, Aside
<1>3. CASE Recheck
  <2>1. UNCHANGED <<hostVars, op>>
    BY <1>3 DEF Recheck
  <2>2. Own' = Own
    BY <2>1 DEF Own
  <2>3. OwnCommands' /\ ~Settled'
    BY <1>a, <1>3, <2>2 DEF Recheck, OwnCommands, Settled, Awaited, Own,
         TakingBack
  <2>4. QED
    BY <2>1, <2>3, Aside
<1>4. CASE Refuse
  <2>1. UNCHANGED <<hostVars, op>>
    BY <1>4 DEF Refuse
  <2>2. Own' = Own
    BY <2>1 DEF Own
  <2>3. OwnCommands' /\ ~Settled'
    BY <1>a, <1>4, <2>2 DEF Refuse, OwnCommands, Settled, Awaited, Own,
         TakingBack
  <2>4. QED
    BY <2>1, <2>3, Aside
<1>5. CASE PutNew
  <2>1. UNCHANGED <<hostVars, op>>
    BY <1>5 DEF PutNew
  <2>2. Own' = Own
    BY <2>1 DEF Own
  <2>3. OwnCommands' /\ ~Settled'
    BY <1>a, <1>5, <2>2 DEF PutNew, OwnCommands, Settled, Awaited, Own,
         TakingBack
  <2>4. QED
    BY <2>1, <2>3, Aside
<1>6. CASE UpdateApi
  <2>1. UNCHANGED <<hostVars, op>>
    BY <1>6 DEF UpdateApi, UpdateService
  <2>2. Own' = Own
    BY <2>1 DEF Own
  <2>3. OwnCommands' /\ ~Settled'
    BY <1>a, <1>6, <2>2 DEF UpdateApi, UpdateService, OwnCommands, Settled, Awaited, Own,
         TakingBack
  <2>4. QED
    BY <2>1, <2>3, Aside
<1>7. CASE ApiReady
  <2>1. UNCHANGED <<hostVars, op>>
    BY <1>7 DEF ApiReady
  <2>2. Own' = Own
    BY <2>1 DEF Own
  <2>3. OwnCommands' /\ ~Settled'
    BY <1>a, <1>7, <2>2 DEF ApiReady, OwnCommands, Settled, Awaited, Own,
         TakingBack
  <2>4. QED
    BY <2>1, <2>3, Aside
<1>8. CASE Fail
  <2>1. UNCHANGED <<hostVars, op>>
    BY <1>8 DEF Fail
  <2>2. Own' = Own
    BY <2>1 DEF Own
  <2>3. OwnCommands' /\ ~Settled'
    BY <1>a, <1>8, <2>2 DEF Fail, OwnCommands, Settled, Awaited, Own,
         TakingBack
  <2>4. QED
    BY <2>1, <2>3, Aside
<1>9. CASE Unknown
  <2>1. UNCHANGED <<hostVars, op>>
    BY <1>9 DEF Unknown
  <2>2. Own' = Own
    BY <2>1 DEF Own
  <2>3. OwnCommands' /\ ~Settled'
    BY <1>a, <1>9, <2>2 DEF Unknown, OwnCommands, Settled, Awaited, Own,
         TakingBack
  <2>4. QED
    BY <2>1, <2>3, Aside
<1>10. CASE CheckRecovery
  <2>1. UNCHANGED <<hostVars, op>>
    BY <1>10 DEF CheckRecovery
  <2>2. Own' = Own
    BY <2>1 DEF Own
  <2>3. OwnCommands' /\ ~Settled'
    BY <1>a, <1>10, <2>2 DEF CheckRecovery, OwnCommands, Settled, Awaited, Own,
         TakingBack
  <2>4. QED
    BY <2>1, <2>3, Aside
<1>11. CASE RestoreParam
  <2>1. UNCHANGED <<hostVars, op>>
    BY <1>11 DEF RestoreParam
  <2>2. Own' = Own
    BY <2>1 DEF Own
  <2>3. OwnCommands' /\ ~Settled'
    BY <1>a, <1>11, <2>2 DEF RestoreParam, OwnCommands, Settled, Awaited, Own,
         TakingBack
  <2>4. QED
    BY <2>1, <2>3, Aside
<1>12. CASE RestoreApi
  <2>1. UNCHANGED <<hostVars, op>>
    BY <1>12 DEF RestoreApi, UpdateService
  <2>2. Own' = Own
    BY <2>1 DEF Own
  <2>3. OwnCommands' /\ ~Settled'
    BY <1>a, <1>12, <2>2 DEF RestoreApi, UpdateService, OwnCommands, Settled, Awaited, Own,
         TakingBack
  <2>4. QED
    BY <2>1, <2>3, Aside
<1>13. CASE RestoredApi
  <2>1. UNCHANGED <<hostVars, op>>
    BY <1>13 DEF RestoredApi
  <2>2. Own' = Own
    BY <2>1 DEF Own
  <2>3. OwnCommands' /\ ~Settled'
    BY <1>a, <1>13, <2>2 DEF RestoredApi, OwnCommands, Settled, Awaited, Own,
         TakingBack
  <2>4. QED
    BY <2>1, <2>3, Aside
<1>14. CASE RestoredRunner
  <2>1. UNCHANGED <<hostVars, op>>
    BY <1>14 DEF RestoredRunner
  <2>2. Own' = Own
    BY <2>1 DEF Own
  <2>3. OwnCommands' /\ ~Settled'
    BY <1>a, <1>14, <2>2 DEF RestoredRunner, OwnCommands, Settled, Awaited, Own,
         TakingBack
  <2>4. QED
    BY <2>1, <2>3, Aside
<1>15. CASE RecoveryFails
  <2>1. UNCHANGED <<hostVars, op>>
    BY <1>15 DEF RecoveryFails
  <2>2. Own' = Own
    BY <2>1 DEF Own
  <2>3. OwnCommands' /\ ~Settled'
    BY <1>a, <1>15, <2>2 DEF RecoveryFails, OwnCommands, Settled, Awaited, Own,
         TakingBack
  <2>4. QED
    BY <2>1, <2>3, Aside
<1>16. CASE Die
  <2>1. UNCHANGED <<hostVars, op>>
    BY <1>16 DEF Die
  <2>2. Own' = Own
    BY <2>1 DEF Own
  <2>3. OwnCommands' /\ ~Settled'
    BY <1>a, <1>16, <2>2 DEF Die, OwnCommands, Settled, Awaited, Own,
         TakingBack
  <2>4. QED
    BY <2>1, <2>3, Aside
<1>17. CASE Inspect
  <2> DEFINE n == [op |-> op, act |-> "inspect", version |-> old.version, at |-> "queued", url |-> NoUrl]
  <2>1. old.version \in Nat /\ pc # "idle"
    BY <1>a, <1>17 DEF Inspect, TypeInv, SettingsTypeOK
  <2>2. n \in CommandSet
    BY <1>a, <2>1, SendType
  <2>3. n.op = op /\ n.at = "queued" /\ n.act = "inspect"
    OBVIOUS
  <2>4. inflight' = inflight \cup {n} /\ reply' = "none" /\ pc' = "inspected"
        /\ UNCHANGED <<op, file, container, backup>>
    BY <1>17 DEF Inspect, Send
  <2> HIDE DEF n
  <2>5. Own = {}
    BY <1>a, <1>17 DEF Inspect, OwnCommands
  <2>6. Own' = {n}
    BY <2>3, <2>4, <2>5 DEF Own
  <2>7. OwnCommands' /\ ~Settled'
    BY <2>3, <2>4, <2>6 DEF OwnCommands, Settled, Awaited, Own, TakingBack
  <2>8. QED
    BY <2>2, <2>3, <2>4, <2>5, <2>7, Sending
<1>18. CASE Sync
  <2> DEFINE n == [op |-> op, act |-> "sync", version |-> version, at |-> "queued", url |-> NoUrl]
  <2>1. version \in Nat /\ pc # "idle"
    BY <1>a, <1>18 DEF Sync, TypeInv, SettingsTypeOK
  <2>2. n \in CommandSet
    BY <1>a, <2>1, SendType
  <2>3. n.op = op /\ n.at = "queued" /\ n.act = "sync"
    OBVIOUS
  <2>4. inflight' = inflight \cup {n} /\ reply' = "none" /\ pc' = "synced"
        /\ UNCHANGED <<op, file, container, backup>>
    BY <1>18 DEF Sync, Send
  <2> HIDE DEF n
  <2>5. Own = {}
    BY <1>a, <1>18 DEF Sync, OwnCommands
  <2>6. Own' = {n}
    BY <2>3, <2>4, <2>5 DEF Own
  <2>7. OwnCommands' /\ ~Settled'
    BY <2>3, <2>4, <2>6 DEF OwnCommands, Settled, Awaited, Own, TakingBack
  <2>8. QED
    BY <2>2, <2>3, <2>4, <2>5, <2>7, Sending
<1>19. CASE RestoreRunner
  <2> DEFINE n == [op |-> op, act |-> "restore", version |-> restored, at |-> "queued", url |-> NoUrl]
  <2>1. restored \in Nat /\ pc # "idle"
    BY <1>a, <1>19 DEF RestoreRunner, TypeInv, SettingsTypeOK
  <2>2. n \in CommandSet
    BY <1>a, <2>1, SendType
  <2>3. n.op = op /\ n.at = "queued" /\ n.act = "restore"
    OBVIOUS
  <2>4. inflight' = inflight \cup {n} /\ reply' = "none" /\ pc' = "restoredRunner"
        /\ UNCHANGED <<op, file, container, backup>>
    BY <1>19 DEF RestoreRunner, Send
  <2> HIDE DEF n
  <2>5. \A c \in Own : c.act = "sync" /\ signalled
    BY <1>a, <1>19 DEF RestoreRunner, OwnCommands, TakingBack
  <2>6. signalled' = signalled /\ pc = "restoreRunner"
    BY <1>19 DEF RestoreRunner
  <2>7. \A c \in inflight' : Awaited(c)' => c = n
    BY <2>3, <2>4, <2>5 DEF Awaited, Own
  <2>8. OwnCommands' /\ ~Settled'
    BY <2>3, <2>4, <2>5, <2>6, <2>7 DEF OwnCommands, Settled, Own, TakingBack
  <2>9. QED
    BY <2>2, <2>3, <2>4, <2>5, <2>8, Sending
<1>20. CASE Finalize
  <2> DEFINE n == [op |-> op, act |-> "finalize", version |-> version, at |-> "queued", url |-> NoUrl]
  <2>1. version \in Nat /\ pc # "idle"
    BY <1>a, <1>20 DEF Finalize, TypeInv, SettingsTypeOK
  <2>2. n \in CommandSet
    BY <1>a, <2>1, SendType
  <2>3. n.op = op /\ n.at = "queued" /\ Settled
    BY <1>20 DEF Finalize, Settled
  <2>4. inflight' = inflight \cup {n} /\ pc' = "idle" /\ UNCHANGED <<op, file, container, backup>>
    BY <1>20 DEF Finalize
  <2> HIDE DEF n
  <2>5. Own = {}
    BY <1>a, <2>3 DEF OwnCommands, Settled, Awaited, Own
  <2>6. OwnCommands' /\ ~Settled'
    BY <2>4 DEF OwnCommands, Settled, Awaited, TakingBack
  <2>7. QED
    BY <2>2, <2>3, <2>4, <2>5, <2>6, Sending
<1>21. CASE Ecs \/ ForeignPut
  <2>1. UNCHANGED <<hostVars, op, pc, reply, signalled>>
    BY <1>21 DEF Ecs, ForeignPut, RolloutStarts, RolloutCompletes, BreakerRollsBack,
         FailureForgotten, TaskReplaced
  <2>2. OwnCommands' /\ (Settled' => Settled)
    BY <1>a, <2>1 DEF OwnCommands, Settled, Own, Awaited
  <2>3. QED
    BY <2>1, <2>2, Aside
<1>22. CASE Interrupted
  <2>1. UNCHANGED <<hostVars, op>>
    BY <1>22 DEF Interrupted
  <2>2. Own' = Own
    BY <2>1 DEF Own
  <2>3. OwnCommands' /\ ~Settled'
    BY <1>a, <1>22, <2>2 DEF Interrupted, OwnCommands, Settled, Awaited, Own, TakingBack
  <2>4. QED
    BY <2>1, <2>3, Aside
<1>23. QED
  BY <1>1, <1>2, <1>3, <1>4, <1>5, <1>6, <1>7, <1>8, <1>9, <1>10, <1>11, <1>12, <1>13,
       <1>14, <1>15, <1>16, <1>17, <1>18, <1>19, <1>20, <1>21, <1>22 DEF Update

-----------------------------------------------------------------------------
(* The steps of the host. *)

\* A command ends: the answer is for the update that waits for it.
LEMMA Ending ==
  ASSUME SInv, NEW c \in inflight, NEW result \in {"success", "failed"}, Ends(c, result),
         UNCHANGED <<op, pc, signalled>>
  PROVE  /\ OwnCommands' /\ FinalizeLast' /\ Locked'
         /\ Settled' => Settled \/ (c.act = "sync" /\ result = "success")
<1>1. inflight' = inflight \ {c} /\ Own' = Own \ {c}
  BY DEF Ends, Own
<1>2. FinalizeLast' /\ Locked'
  BY <1>1 DEF SInv, FinalizeLast, Locked
<1>3. OwnCommands
  BY DEF SInv
<1>4. \A d \in inflight' : Awaited(d)' => Awaited(d) /\ d # c
  BY <1>1 DEF Awaited
<1>5. OwnCommands'
  <2>1. \A d, e \in inflight' : Awaited(d)' /\ Awaited(e)' => d = e /\ reply' = "none"
    BY <1>1, <1>3, <1>4 DEF Ends, OwnCommands
  <2>2. QED
    BY <1>1, <1>3, <2>1 DEF OwnCommands
<1>6. Settled' => Settled \/ (c.act = "sync" /\ result = "success")
  BY DEF Ends, Settled, Awaited
<1>7. QED
  BY <1>2, <1>5, <1>6

\* The command with the lock goes on.
LEMMA Going ==
  ASSUME SInv, TypeInv', NEW c \in inflight, NEW d, Becomes(c, d), UNCHANGED <<op, pc, signalled>>,
         d.op = c.op, d.act = c.act, c.act # "finalize",
         \A e \in inflight : e # c => e.at = "queued",
         Progress(d)', file' # container' => Undoes(c.op)'
  PROVE  SInv'
<1>1. inflight' = (inflight \ {c}) \cup {d} /\ reply' = reply
  BY DEF Becomes
<1>2. Own' = IF c \in Own THEN (Own \ {c}) \cup {d} ELSE Own
  BY <1>1 DEF Own
<1>3. OwnCommands'
  <2>1. OwnCommands
    BY DEF SInv
  <2>2. Awaited(d)' <=> Awaited(c)
    BY DEF Awaited
  <2>3. \A e \in inflight : Awaited(e)' <=> Awaited(e)
    BY DEF Awaited
  <2>4. \A e, f \in inflight' : Awaited(e)' /\ Awaited(f)' => e = f /\ reply' = "none"
    BY <1>1, <2>1, <2>2, <2>3 DEF OwnCommands
  <2>5. CASE c \notin Own
    BY <1>1, <1>2, <2>1, <2>4, <2>5 DEF OwnCommands
  <2>6. CASE c \in Own
    BY <1>1, <1>2, <2>1, <2>4, <2>6 DEF OwnCommands
  <2>7. QED
    BY <2>5, <2>6
<1>4. FinalizeLast'
  <2>1. \A e \in inflight : e.op = c.op => e.act # "finalize"
    BY DEF SInv, FinalizeLast
  <2>2. QED
    BY <1>1, <2>1 DEF SInv, FinalizeLast
<1>5. Locked'
  BY <1>1 DEF Locked
<1>6. \A e \in inflight' : Progress(e)'
  BY <1>1 DEF Progress
<1>7. file' # container' => Undoes(c.op)' /\ Kept(c.op)'
  <2>1. \A e \in inflight' : e.op = c.op => e.act # "finalize"
    BY <1>1 DEF SInv, FinalizeLast
  <2>2. c \in Own /\ Settled => FALSE
    BY DEF SInv, OwnCommands, Settled, Awaited, Own
  <2>3. QED
    BY <1>1, <2>1, <2>2 DEF Kept, Own, Settled
<1>8. c.op \in Ops
  BY DEF SInv, TypeInv, SettingsTypeOK
<1>9. Undoable'
  BY <1>7, <1>8 DEF Undoable
<1>10. QED
  BY <1>3, <1>4, <1>5, <1>6, <1>9 DEF SInv

LEMMA HostStep ==
  ASSUME SInv, TypeInv', NEW c \in inflight,
         \/ HostInspects(c) \/ HostChecks(c) \/ HostBacksUp(c) \/ HostWrites(c)
         \/ HostRecreates(c) \/ HostSynced(c) \/ HostUnchanged(c) \/ HostRestores(c)
         \/ HostRestored(c) \/ HostFinalizes(c) \/ HostFails(c)
  PROVE  SInv'
<1>a. /\ c \in CommandSet /\ Progress(c)
      /\ backup \in [Ops -> [state : {"none", "prepared", "updating"}, api : AnyUrl,
                            version : Nat, old : AnyUrl, new : AnyUrl]]
  BY DEF SInv, TypeInv, SettingsTypeOK, CommandSet
<1>b. UNCHANGED <<op, pc, signalled>>
  BY DEF HostInspects, HostChecks, HostBacksUp, HostWrites, HostRecreates, HostSynced,
       HostUnchanged, HostRestores, HostRestored, HostFinalizes, HostFails, hostKeeps,
       planVars, workVars
<1>c. c.at # "queued" \/ HostFree => \A e \in inflight : e # c => e.at = "queued"
  BY DEF SInv, Locked, HostFree
<1>d. ASSUME NEW w \in {"queued", "checked", "saved", "written", "recreated"}, NEW u
      PROVE  /\ [c EXCEPT !.at = w].op = c.op /\ [c EXCEPT !.at = w].act = c.act
             /\ [c EXCEPT !.at = w].at = w /\ [c EXCEPT !.at = w].url = c.url
             /\ [c EXCEPT !.at = w, !.url = u].op = c.op
             /\ [c EXCEPT !.at = w, !.url = u].act = c.act
             /\ [c EXCEPT !.at = w, !.url = u].at = w
             /\ [c EXCEPT !.at = w, !.url = u].url = u
  BY <1>a DEF CommandSet
<1>1. CASE HostChecks(c)
  <2>a. PICK d : d = [c EXCEPT !.at = "checked", !.url = param.url]
    OBVIOUS
  <2>1. Becomes(c, d)
    BY <1>1, <2>a DEF HostChecks
  <2>2. d.op = c.op /\ d.act = c.act /\ d.at = "checked" /\ d.url = param.url
    BY <1>d, <2>a
  <2>3. c.act # "finalize" /\ \A e \in inflight : e # c => e.at = "queued"
    BY <1>a, <1>c, <1>1 DEF HostChecks, Progress
  <2>4. Progress(d)' /\ (file' # container' => Undoes(c.op)')
    BY <1>a, <1>1, <2>2 DEF HostChecks, Progress, Undoes, CommandSet
  <2>5. QED
    BY <1>b, <2>1, <2>2, <2>3, <2>4, Going
<1>2. CASE HostBacksUp(c)
  <2> DEFINE d == [c EXCEPT !.at = "saved"]
  <2>1. Becomes(c, d)
    BY <1>2 DEF HostBacksUp
  <2>2. d.op = c.op /\ d.act = c.act /\ d.at = "saved" /\ d.url = c.url
    BY <1>d
  <2> HIDE DEF d
  <2>3. c.act # "finalize" /\ \A e \in inflight : e # c => e.at = "queued"
    BY <1>a, <1>c, <1>2 DEF HostBacksUp, Progress
  <2>4. Progress(d)' /\ (file' # container' => Undoes(c.op)')
    BY <1>a, <1>2, <2>2 DEF HostBacksUp, Progress, Undoes, CommandSet
  <2>5. QED
    BY <1>b, <2>1, <2>2, <2>3, <2>4, Going
<1>3. CASE HostWrites(c)
  <2> DEFINE d == [c EXCEPT !.at = "written"]
  <2>1. Becomes(c, d)
    BY <1>3 DEF HostWrites
  <2>2. d.op = c.op /\ d.act = c.act /\ d.at = "written" /\ d.url = c.url
    BY <1>d
  <2> HIDE DEF d
  <2>3. c.act # "finalize" /\ \A e \in inflight : e # c => e.at = "queued"
    BY <1>a, <1>c, <1>3 DEF HostWrites, Progress
  <2>4. Progress(d)' /\ (file' # container' => Undoes(c.op)')
    BY <1>a, <1>3, <2>2 DEF HostWrites, Progress, Undoes, CommandSet
  <2>5. QED
    BY <1>b, <2>1, <2>2, <2>3, <2>4, Going
<1>4. CASE HostRecreates(c)
  <2> DEFINE d == [c EXCEPT !.at = "recreated"]
  <2>1. Becomes(c, d)
    BY <1>4 DEF HostRecreates
  <2>2. d.op = c.op /\ d.act = c.act /\ d.at = "recreated" /\ d.url = c.url
    BY <1>d
  <2> HIDE DEF d
  <2>3. c.act # "finalize" /\ \A e \in inflight : e # c => e.at = "queued"
    BY <1>a, <1>c, <1>4 DEF HostRecreates, Progress
  <2>4. Progress(d)' /\ (file' # container' => Undoes(c.op)')
    BY <1>a, <1>4, <2>2 DEF HostRecreates, Progress, Undoes, CommandSet
  <2>5. QED
    BY <1>b, <2>1, <2>2, <2>3, <2>4, Going
<1>5. CASE HostRestores(c)
  <2>a. PICK d : d = [c EXCEPT !.at = "saved", !.url = backup[c.op].old]
    OBVIOUS
  <2>1. Becomes(c, d)
    BY <1>5, <2>a DEF HostRestores
  <2>2. d.op = c.op /\ d.act = c.act /\ d.at = "saved" /\ d.url = backup[c.op].old
    BY <1>d, <2>a
  <2>3. c.act # "finalize" /\ \A e \in inflight : e # c => e.at = "queued"
    BY <1>a, <1>c, <1>5 DEF HostRestores, Progress
  <2>4. Progress(d)' /\ (file' # container' => Undoes(c.op)')
    BY <1>a, <1>5, <2>2 DEF HostRestores, Progress, Undoes, CommandSet
  <2>5. QED
    BY <1>b, <2>1, <2>2, <2>3, <2>4, Going
<1>6. CASE HostInspects(c)
  <2>1. Ends(c, "success") /\ file' = container'
    BY <1>a, <1>6 DEF HostInspects, Progress
  <2>2. OwnCommands' /\ FinalizeLast' /\ Locked' /\ inflight' = inflight \ {c}
    BY <1>b, <2>1, Ending DEF Ends
  <2>3. \A e \in inflight' : Progress(e)'
    BY <1>c, <1>6, <2>2 DEF HostInspects, Progress
  <2>4. QED
    BY <2>1, <2>2, <2>3 DEF SInv, Undoable
<1>7. CASE HostSynced(c)
  <2>1. Ends(c, "success") /\ file' = container'
    BY <1>a, <1>7 DEF HostSynced, Progress
  <2>2. OwnCommands' /\ FinalizeLast' /\ Locked' /\ inflight' = inflight \ {c}
    BY <1>b, <2>1, Ending DEF Ends
  <2>3. \A e \in inflight' : Progress(e)'
    BY <1>c, <1>7, <2>2 DEF HostSynced, Progress
  <2>4. QED
    BY <2>1, <2>2, <2>3 DEF SInv, Undoable
<1>8. CASE HostUnchanged(c)
  <2>1. Ends(c, "success") /\ file' = container'
    BY <1>a, <1>8 DEF HostUnchanged, Progress
  <2>2. OwnCommands' /\ FinalizeLast' /\ Locked' /\ inflight' = inflight \ {c}
    BY <1>b, <2>1, Ending DEF Ends
  <2>3. \A e \in inflight' : Progress(e)'
    BY <1>c, <1>8, <2>2 DEF HostUnchanged, Progress
  <2>4. QED
    BY <2>1, <2>2, <2>3 DEF SInv, Undoable
<1>9. CASE HostRestored(c)
  <2>1. Ends(c, "success") /\ file' = container'
    BY <1>a, <1>9 DEF HostRestored, Progress
  <2>2. OwnCommands' /\ FinalizeLast' /\ Locked' /\ inflight' = inflight \ {c}
    BY <1>b, <2>1, Ending DEF Ends
  <2>3. \A e \in inflight' : Progress(e)'
    BY <1>c, <1>9, <2>2 DEF HostRestored, Progress
  <2>4. QED
    BY <2>1, <2>2, <2>3 DEF SInv, Undoable
<1>10. CASE HostFinalizes(c)
  <2>1. Ends(c, "success") /\ UNCHANGED <<file, container>>
    BY <1>10 DEF HostFinalizes
  <2>2. OwnCommands' /\ FinalizeLast' /\ Locked' /\ (Settled' => Settled) /\ inflight' = inflight \ {c}
    BY <1>b, <1>10, <2>1, Ending DEF Ends, HostFinalizes
  <2>3. \A e \in inflight' : Progress(e)'
    BY <1>c, <1>10, <2>2 DEF HostFinalizes, Progress
  <2>4. ASSUME NEW o \in Ops, Undoes(o), Kept(o) PROVE Undoes(o)' /\ Kept(o)'
    <3>1. o # c.op
      BY <1>10, <2>4 DEF HostFinalizes, Kept
    <3>2. backup'[o] = backup[o]
      BY <1>a, <1>10, <3>1 DEF HostFinalizes
    <3>3. QED
      BY <1>b, <2>1, <2>2, <2>4, <3>2 DEF Undoes, Kept
  <2>5. Undoable'
    BY <2>1, <2>4 DEF SInv, Undoable
  <2>6. QED
    BY <2>2, <2>3, <2>5 DEF SInv
<1>11. CASE HostFails(c)
  <2>1. Ends(c, "failed") /\ UNCHANGED <<file, container, backup>>
    BY <1>11 DEF HostFails
  <2>2. OwnCommands' /\ FinalizeLast' /\ Locked' /\ (Settled' => Settled) /\ inflight' = inflight \ {c}
    BY <1>b, <2>1, Ending DEF Ends
  <2>3. \A e \in inflight' : Progress(e)'
    BY <2>1, <2>2 DEF SInv, Progress, Undoes
  <2>4. \A o \in Ops : Undoes(o) /\ Kept(o) => Undoes(o)' /\ Kept(o)'
    BY <1>b, <2>1, <2>2 DEF Undoes, Kept
  <2>5. Undoable'
    BY <2>1, <2>4 DEF SInv, Undoable
  <2>6. QED
    BY <2>2, <2>3, <2>5 DEF SInv
<1>12. QED
  BY <1>1, <1>2, <1>3, <1>4, <1>5, <1>6, <1>7, <1>8, <1>9, <1>10, <1>11

LEMMA SInvInvariance == SettingsSpec => []SInv
<1>1. ASSUME SInv, [Next]_settingsVars PROVE SInv'
  <2>1. CASE Start \/ Update \/ Die \/ Ecs \/ ForeignPut
    BY <1>1, <2>1, UpdateStep, TypeUpdate, TypeEcs DEF SInv
  <2>2. CASE Host
    BY <1>1, <2>2, HostStep, TypeHost DEF SInv, Host
  <2>3. CASE UNCHANGED settingsVars
    <3>1. UNCHANGED <<param, foreign, target, running, rollout, fresh, apiUrl, file, container, backup,
                      inflight, reply, op, pc, new, old, prev, version, restored, touched,
                      signalled, settled>>
      BY <2>3 DEF settingsVars, paramVars, apiVars, hostVars, planVars, workVars
    <3>2. TypeInv'
      BY <1>1, <3>1 DEF SInv, TypeInv, SettingsTypeOK, Numbered
    <3>3. OwnCommands' /\ (Settled' => Settled)
      BY <1>1, <3>1 DEF SInv, OwnCommands, Own, Settled, Awaited
    <3>4. QED
      BY <1>1, <3>1, <3>2, <3>3, Aside DEF hostVars
  <2>4. QED
    BY <1>1, <2>1, <2>2, <2>3 DEF Next
<1>2. QED
  BY <1>1, SInvInit, PTL DEF SettingsSpec

(* NoCompetingRestore: nothing is taken back while the update's own sync-vlm may act,  *)
(* unless a signal ended the wait for it.                                              *)
THEOREM RestoreDoesNotCompete == SettingsSpec => []NoCompetingRestore
<1>1. SInv => NoCompetingRestore
  BY DEF SInv, OwnCommands, NoCompetingRestore, TakingBack
<1>2. QED
  BY <1>1, SInvInvariance, PTL

(* MismatchHasBackup: a half-made change of the runner can be undone, however many     *)
(* commands of however many updates are late, and wherever one of them dies.           *)
THEOREM BackupOutlivesMismatch == SettingsSpec => []MismatchHasBackup
<1>1. SInv => MismatchHasBackup
  BY DEF SInv, Undoable, Undoes, MismatchHasBackup
<1>2. QED
  BY <1>1, SInvInvariance, PTL

-----------------------------------------------------------------------------
(* SettledAgrees: versions of the parameter tell apart what follows what.   *)

Moves(c) == c.act \in {"sync", "restore"}
Forward == {"update", "await", "sync", "synced"}
Restoring == {"restoreApi", "restoreAwait", "restoreRunner", "restoredRunner"}

\* A version is written once: what an update writes is newer than what has settled
\* and than what any command of an earlier update waits for.
Versions ==
  /\ settled.version <= param.version
  /\ version <= param.version /\ restored <= param.version
  /\ pc = "inspect" => old.version <= param.version
  /\ pc # "idle" /\ version # 0 => version > settled.version
  /\ pc # "idle" /\ restored # 0 => restored > settled.version
  /\ pc \in Forward \cup {"restoreParam"} => version # 0
  /\ pc \in Restoring => restored # 0
  /\ pc \in Restoring => version < restored
  /\ pc \in {"idle", "read"} => version = 0 /\ restored = 0

CommandVersions ==
  \A c \in inflight :
    /\ c.version <= param.version
    /\ Moves(c) => c.version # settled.version
    /\ c.op # op /\ version # 0 => c.version < version
    /\ c.op # op /\ restored # 0 => c.version < restored
    /\ pc # "idle" /\ c.op = op /\ c.act = "sync" => c.version = version

\* The parameter still has what the update wrote last.
IsNew == version # 0 /\ param.version = version
IsOld == restored # 0 /\ param.version = restored

\* What the API's tasks have read, at each step of the update.
ApiFollows ==
  /\ {target, running, prev} \subseteq 0..op
  /\ pc \in {"read", "inspect", "inspected", "put", "update"} => target # op /\ running # op
  /\ IsNew => param.url = new
  /\ IsOld => param.url = old.url
  /\ pc = "await" /\ IsNew => /\ running = op => apiUrl = new
                              /\ rollout = "started" /\ target = op => fresh = new
  /\ pc \in {"sync", "synced"} /\ IsNew => Stable /\ apiUrl = new
  /\ pc = "restoreAwait" /\ IsOld =>
       /\ rollout \in {"wanted", "started"} => target = prev
       /\ rollout = "started" => fresh = old.url
       /\ Stable /\ running = prev => apiUrl = old.url
  /\ pc \in {"restoreRunner", "restoredRunner"} /\ IsOld => Stable /\ apiUrl = old.url

\* What the runner has, once the command says so.
Runner(u) == HostFree /\ file = u /\ container = u
RunnerFollows ==
  /\ \A c \in inflight : c.at # "queued" =>
       /\ pc # "idle" /\ c.act = "sync" /\ c.op = op => c.url = new
       /\ c.act = "restore" => c.url = backup[c.op].old
  /\ Settled => Runner(new)
  /\ pc = "restoredRunner" /\ reply = "success" => Runner(backup[op].old)

Agreement ==
  param.version = settled.version =>
    /\ param.url = settled.url /\ apiUrl = settled.url /\ Stable
    /\ settled.known => Runner(settled.runner)

AInv == SInv /\ Versions /\ CommandVersions /\ ApiFollows /\ RunnerFollows /\ Agreement

\* What the types say of versions.
LEMMA Plain ==
  ASSUME TypeInv
  PROVE  /\ param.version \in Nat /\ old.version \in Nat /\ settled.version \in Nat
         /\ version \in Nat /\ restored \in Nat /\ op \in Nat
         /\ \A c \in inflight : c.version \in Nat /\ c.op \in Nat /\ c.op <= op
<1>1. op \in 0..MaxOps /\ \A c \in inflight : c.op \in Ops /\ c.version \in Nat /\ c.op <= op
  BY DEF TypeInv, SettingsTypeOK, Numbered
<1>2. QED
  BY SMTT(30), <1>1, SettingsAssumption DEF TypeInv, SettingsTypeOK, Ops

LEMMA VersionsStep ==
  ASSUME SInv, TypeInv', Versions, CommandVersions, Start \/ Update \/ Die \/ Ecs \/ ForeignPut
  PROVE  Versions' /\ CommandVersions'
<1> USE DEF Versions, CommandVersions, Forward, Restoring, Moves, paramVars, hostVars, planVars,
        workVars, Quit
<1>a. TypeInv /\ OwnCommands
  BY DEF SInv
<1>b. /\ param.version \in Nat /\ old.version \in Nat /\ settled.version \in Nat
      /\ version \in Nat /\ restored \in Nat /\ op \in Nat
      /\ \A c \in inflight : c.version \in Nat /\ c.op \in Nat /\ c.op <= op
  BY <1>a, Plain
<1>1. CASE Start
  <2>1. /\ pc = "idle" /\ pc' = "read" /\ op' = op + 1
        /\ UNCHANGED <<param, settled, version, restored, old, inflight>>
    BY <1>1 DEF Start
  <2>2. \A c \in inflight : c.op # op'
    BY <1>b, <2>1
  <2>3. QED
    BY <1>b, <2>1, <2>2
<1>2. CASE Read \/ Refuse \/ Unknown \/ RecoveryFails \/ Die
  BY <1>a, <1>b, <1>2 DEF Read, Refuse, Unknown, RecoveryFails, Die
<1>3. CASE Recheck \/ UpdateApi \/ ApiReady \/ RestoreApi
  BY <1>a, <1>b, <1>3 DEF Recheck, UpdateApi, ApiReady, RestoreApi, UpdateService
<1>4. CASE Fail \/ CheckRecovery \/ Interrupted
  BY <1>a, <1>b, <1>4 DEF Fail, CheckRecovery, Interrupted
<1>5. CASE PutNew
  <2>1. param' = [url |-> new, version |-> param.version + 1] /\ pc = "put"
    BY <1>5 DEF PutNew, PutParameter
  <2>2. param'.version = param.version + 1
    BY <2>1
  <2>3. \A c \in inflight : c.op # op
    BY <1>a, <2>1 DEF OwnCommands, Own
  <2>4. QED
    BY <1>a, <1>b, <1>5, <2>2, <2>3 DEF PutNew
<1>6. CASE RestoreParam
  <2>1. param' = [url |-> old.url, version |-> param.version + 1] /\ pc = "restoreParam"
    BY <1>6 DEF RestoreParam, PutParameter
  <2>2. param'.version = param.version + 1
    BY <2>1
  <2>3. QED
    BY <1>a, <1>b, <1>6, <2>2 DEF RestoreParam
<1>7. CASE ForeignPut
  <2>1. param'.version = param.version + 1
    BY <1>7 DEF ForeignPut, PutParameter
  <2>2. QED
    BY <1>a, <1>b, <1>7, <2>1 DEF ForeignPut, apiVars
<1>8. CASE Inspect \/ Sync \/ RestoreRunner
  <2>1. PICK n : /\ inflight' = inflight \cup {n} /\ n.op = op
                 /\ \/ n.act = "inspect" /\ n.version = old.version /\ Inspect
                    \/ n.act = "sync" /\ n.version = version /\ Sync
                    \/ n.act = "restore" /\ n.version = restored /\ RestoreRunner
    <3>1. CASE Inspect
      <4>1. PICK n : n = [op |-> op, act |-> "inspect", version |-> old.version, at |-> "queued",
                          url |-> NoUrl]
        OBVIOUS
      <4>2. inflight' = inflight \cup {n}
        BY <3>1, <4>1 DEF Inspect, Send
      <4>3. n.op = op /\ n.act = "inspect" /\ n.version = old.version
        BY <4>1
      <4>4. QED
        BY <3>1, <4>2, <4>3
    <3>2. CASE Sync
      <4>1. PICK n : n = [op |-> op, act |-> "sync", version |-> version, at |-> "queued",
                          url |-> NoUrl]
        OBVIOUS
      <4>2. inflight' = inflight \cup {n}
        BY <3>2, <4>1 DEF Sync, Send
      <4>3. n.op = op /\ n.act = "sync" /\ n.version = version
        BY <4>1
      <4>4. QED
        BY <3>2, <4>2, <4>3
    <3>3. CASE RestoreRunner
      <4>1. PICK n : n = [op |-> op, act |-> "restore", version |-> restored, at |-> "queued",
                          url |-> NoUrl]
        OBVIOUS
      <4>2. inflight' = inflight \cup {n}
        BY <3>3, <4>1 DEF RestoreRunner, Send
      <4>3. n.op = op /\ n.act = "restore" /\ n.version = restored
        BY <4>1
      <4>4. QED
        BY <3>3, <4>2, <4>3
    <3>4. QED
      BY <1>8, <3>1, <3>2, <3>3
  <2>2. /\ UNCHANGED <<param, settled, version, restored, old, op>>
        /\ pc \in {"inspect", "sync", "restoreRunner"}
        /\ pc' \in {"inspected", "synced", "restoredRunner"}
    BY <1>8 DEF Inspect, Sync, RestoreRunner, Send
  <2>3. Versions'
    BY <1>8, <1>b, <2>2 DEF Inspect, Sync, RestoreRunner
  <2>4. /\ n.version <= param.version /\ (Moves(n) => n.version # settled.version)
        /\ n.act = "sync" => n.version = version
    BY <1>b, <2>1 DEF Inspect, Sync, RestoreRunner
  <2>5. CommandVersions'
    BY <1>b, <2>1, <2>2, <2>4
  <2>6. QED
    BY <2>3, <2>5
<1>9. CASE Finalize
  <2>1. PICK n : /\ inflight' = inflight \cup {n} /\ n.op = op
                 /\ n.act = "finalize" /\ n.version = version
    <3>1. PICK n : n = [op |-> op, act |-> "finalize", version |-> version, at |-> "queued",
                        url |-> NoUrl]
      OBVIOUS
    <3>2. inflight' = inflight \cup {n}
      BY <1>9, <3>1 DEF Finalize
    <3>3. n.op = op /\ n.act = "finalize" /\ n.version = version
      BY <3>1
    <3>4. QED
      BY <3>2, <3>3
  <2>2. /\ pc = "synced" /\ reply = "success" /\ pc' = "idle" /\ settled'.version = version
        /\ version' = 0 /\ restored' = 0 /\ UNCHANGED <<param, op, old>>
    BY <1>9 DEF Finalize
  <2>3. \A c \in inflight : c.op # op
    BY <1>a, <2>2 DEF OwnCommands, Own, Awaited
  <2>4. QED
    BY <1>b, <2>1, <2>2, <2>3
<1>10. CASE RestoredApi \/ RestoredRunner
  <2>1. /\ UNCHANGED <<param, op, old, inflight>>
        /\ \/ pc' = "idle" /\ settled'.version = restored /\ version' = 0 /\ restored' = 0
           \/ pc' = "restoreRunner" /\ UNCHANGED <<settled, version, restored>>
    BY <1>10 DEF RestoredApi, RestoredRunner
  <2>2. pc \in Restoring
    BY <1>10 DEF RestoredApi, RestoredRunner
  <2>3. \A c \in Own : c.act = "sync"
    BY <1>a, <1>10 DEF OwnCommands, RestoredApi, RestoredRunner, Awaited, Own, TakingBack
  <2>4. \A c \in inflight : c.op = op => c.act = "sync" /\ c.version < restored
    BY <1>b, <2>2, <2>3 DEF Own
  <2>5. restored # 0 /\ restored > settled.version
    BY <2>2
  <2>6. QED
    BY <1>b, <2>1, <2>2, <2>4, <2>5
<1>11. CASE Ecs
  BY <1>a, <1>b, <1>11 DEF Ecs, RolloutStarts, RolloutCompletes, BreakerRollsBack,
       FailureForgotten, TaskReplaced
<1>12. QED
  BY <1>1, <1>2, <1>3, <1>4, <1>5, <1>6, <1>7, <1>8, <1>9, <1>10, <1>11 DEF Update

\* A step of the host ends a command or takes it on; nothing else but the runner changes.
HostStepOf(c) ==
  \/ HostInspects(c) \/ HostChecks(c) \/ HostBacksUp(c) \/ HostWrites(c)
  \/ HostRecreates(c) \/ HostSynced(c) \/ HostUnchanged(c) \/ HostRestores(c)
  \/ HostRestored(c) \/ HostFinalizes(c) \/ HostFails(c)

LEMMA HostKeepsVersions ==
  ASSUME SInv, Versions, CommandVersions, NEW c \in inflight, HostStepOf(c)
  PROVE  Versions' /\ CommandVersions'
<1>1. UNCHANGED <<param, settled, version, restored, old, op, pc>>
  BY DEF HostStepOf, HostInspects, HostChecks, HostBacksUp, HostWrites, HostRecreates,
       HostSynced, HostUnchanged, HostRestores, HostRestored, HostFinalizes, HostFails,
       hostKeeps, paramVars, planVars, workVars
<1>2. c \in CommandSet
  BY DEF SInv, TypeInv, SettingsTypeOK, CommandSet
<1>3. \/ inflight' = inflight \ {c}
      \/ \E w, u : inflight' = (inflight \ {c}) \cup {[c EXCEPT !.at = w, !.url = u]}
      \/ \E w : inflight' = (inflight \ {c}) \cup {[c EXCEPT !.at = w]}
  BY DEF HostStepOf, HostInspects, HostChecks, HostBacksUp, HostWrites, HostRecreates,
       HostSynced, HostUnchanged, HostRestores, HostRestored, HostFinalizes, HostFails,
       Ends, Becomes
<1>4. \A e \in inflight' :
        e \in inflight \/ (e.op = c.op /\ e.act = c.act /\ e.version = c.version)
  BY <1>2, <1>3 DEF CommandSet
<1>5. QED
  BY <1>1, <1>4 DEF Versions, CommandVersions, Moves

LEMMA ApiStep ==
  ASSUME SInv, TypeInv', Versions, ApiFollows, Start \/ Update \/ Die \/ Ecs \/ ForeignPut
  PROVE  ApiFollows'
<1> USE DEF ApiFollows, IsNew, IsOld, Stable, paramVars, apiVars, hostVars, planVars, workVars,
        Quit
<1>a. /\ param.version \in Nat /\ version \in Nat /\ restored \in Nat /\ op \in Nat
      /\ version <= param.version /\ restored <= param.version
  BY Plain DEF SInv, Versions
<1>b. pc # "idle" => op # 0
  BY DEF SInv, TypeInv, Numbered, Ops
<1>1. CASE Start
  BY <1>a, <1>1 DEF Start, Versions
<1>2. CASE Read
  BY <1>a, <1>2 DEF Read, Versions
<1>3. CASE \/ Refuse \/ Unknown \/ RecoveryFails \/ Die \/ Fail \/ CheckRecovery \/ Recheck
           \/ Interrupted
  BY <1>a, <1>3 DEF Interrupted, Refuse, Unknown, RecoveryFails, Die, Fail, CheckRecovery, Recheck
<1>4. CASE Inspect \/ Sync \/ RestoreRunner
  BY <1>4 DEF Inspect, Sync, RestoreRunner, Send
<1>5. CASE Finalize \/ RestoredApi \/ RestoredRunner
  BY <1>a, <1>5 DEF Finalize, RestoredApi, RestoredRunner
<1>6. CASE PutNew
  <2>1. param' = [url |-> new, version |-> param.version + 1] /\ pc = "put"
    BY <1>6 DEF PutNew, PutParameter
  <2>2. param'.version = param.version + 1 /\ param'.url = new
    BY <2>1
  <2>3. QED
    BY <1>a, <1>6, <2>2 DEF PutNew
<1>7. CASE RestoreParam
  <2>1. param' = [url |-> old.url, version |-> param.version + 1] /\ pc = "restoreParam"
    BY <1>7 DEF RestoreParam, PutParameter
  <2>2. param'.version = param.version + 1 /\ param'.url = old.url
    BY <2>1
  <2>3. QED
    BY <1>a, <1>7, <2>2 DEF RestoreParam
<1>8. CASE ForeignPut
  <2>1. param'.version = param.version + 1
    BY <1>8 DEF ForeignPut, PutParameter
  <2>2. ~IsNew' /\ ~IsOld'
    BY <1>a, <1>8, <2>1 DEF ForeignPut
  <2>3. QED
    BY <1>8, <2>2 DEF ForeignPut
<1>9. CASE UpdateApi
  BY <1>a, <1>9 DEF UpdateApi, UpdateService
<1>10. CASE ApiReady
  BY <1>10 DEF ApiReady
<1>11. CASE RestoreApi
  BY <1>a, <1>11 DEF RestoreApi, UpdateService
<1>12. CASE RolloutStarts
  BY <1>a, <1>12 DEF RolloutStarts
<1>13. CASE RolloutCompletes
  BY <1>a, <1>13 DEF RolloutCompletes
<1>14. CASE BreakerRollsBack
  BY <1>a, <1>14 DEF BreakerRollsBack
<1>15. CASE FailureForgotten
  BY <1>a, <1>15 DEF FailureForgotten
<1>16. CASE TaskReplaced
  BY <1>a, <1>16 DEF TaskReplaced
<1>17. QED
  BY <1>1, <1>2, <1>3, <1>4, <1>5, <1>6, <1>7, <1>8, <1>9, <1>10, <1>11, <1>12, <1>13,
       <1>14,
     <1>15, <1>16 DEF Update, Ecs

\* Outside the host commands are only sent, and what waits to be started holds no lock.
LEMMA RunnerKept ==
  ASSUME SInv, TypeInv', RunnerFollows, Start \/ Update \/ Die \/ Ecs \/ ForeignPut
  PROVE  /\ RunnerFollows' /\ UNCHANGED <<file, container, backup>>
         /\ HostFree => HostFree'
<1>1. /\ UNCHANGED <<file, container, backup>>
      /\ \A c \in inflight' : c \in inflight \/ c.at = "queued"
  <2>1. CASE Start \/ Die \/ Ecs \/ ForeignPut
    BY <2>1 DEF Start, Die, Ecs, RolloutStarts, RolloutCompletes, BreakerRollsBack,
         FailureForgotten, TaskReplaced, ForeignPut, hostVars
  <2>2. CASE Inspect \/ Sync \/ RestoreRunner \/ Finalize
    BY <2>2 DEF Inspect, Sync, RestoreRunner, Send, Finalize
  <2>3. CASE \/ Read \/ Recheck \/ Refuse \/ PutNew \/ UpdateApi \/ ApiReady
             \/ Fail \/ Unknown \/ Interrupted \/ CheckRecovery \/ RestoreParam \/ RestoreApi
             \/ RestoredApi \/ RestoredRunner \/ RecoveryFails
    BY <2>3 DEF Read, Recheck, Refuse, PutNew, UpdateApi, UpdateService, ApiReady, Fail,
         Unknown, CheckRecovery, RestoreParam, RestoreApi, RestoredApi, RestoredRunner,
         RecoveryFails, Interrupted, hostVars, Quit
  <2>4. QED
    BY <2>1, <2>2, <2>3 DEF Update
<1>2. HostFree => HostFree'
  BY <1>1 DEF HostFree
<1>3. \/ Start
      \/ /\ UNCHANGED <<op, new>> /\ (pc = "idle" => pc' = "idle")
         /\ \/ pc' \notin {"synced", "restoredRunner"}
            \/ reply' = "none"
            \/ UNCHANGED <<pc, reply>>
  <2>1. CASE Die \/ Ecs \/ ForeignPut
    BY <2>1 DEF Die, Ecs, RolloutStarts, RolloutCompletes, BreakerRollsBack,
         FailureForgotten, TaskReplaced, ForeignPut, planVars, Quit
  <2>2. CASE Inspect \/ Sync \/ RestoreRunner \/ Finalize
    BY <2>2 DEF Inspect, Sync, RestoreRunner, Send, Finalize, planVars, Quit
  <2>3. CASE \/ Read \/ Recheck \/ Refuse \/ PutNew \/ UpdateApi \/ ApiReady
             \/ Fail \/ Unknown \/ Interrupted \/ CheckRecovery \/ RestoreParam \/ RestoreApi
             \/ RestoredApi \/ RestoredRunner \/ RecoveryFails
    BY <2>3 DEF Read, Recheck, Refuse, PutNew, UpdateApi, UpdateService, ApiReady, Fail,
         Unknown, CheckRecovery, RestoreParam, RestoreApi, RestoredApi, RestoredRunner,
         RecoveryFails, Interrupted, planVars, Quit
  <2>4. QED
    BY <2>1, <2>2, <2>3 DEF Update
<1>4. CASE Start
  <2>1. op' = op + 1 /\ pc' = "read"
    BY <1>4 DEF Start
  <2>2. \A c \in inflight : c.op # op'
    BY <2>1, Plain DEF SInv
  <2>3. \A c \in inflight' : c.at # "queued" => c \in inflight /\ c.op # op'
    BY <1>1, <2>2
  <2>4. QED
    BY <1>1, <1>2, <2>1, <2>3 DEF RunnerFollows, Settled
<1>5. CASE /\ UNCHANGED <<op, new>> /\ (pc = "idle" => pc' = "idle")
           /\ \/ pc' \notin {"synced", "restoredRunner"}
              \/ reply' = "none"
              \/ UNCHANGED <<pc, reply>>
  BY <1>1, <1>2, <1>5 DEF RunnerFollows, Settled, Runner
<1>6. QED
  BY <1>1, <1>2, <1>3, <1>4, <1>5

LEMMA AgreementStep ==
  ASSUME SInv, TypeInv', Versions, Versions', ApiFollows, RunnerFollows, Agreement,
         Start \/ Update \/ Die \/ Ecs \/ ForeignPut
  PROVE  Agreement'
<1> USE DEF Agreement, Stable, paramVars, apiVars, hostVars, planVars, workVars
<1>a. /\ param.version \in Nat /\ settled.version \in Nat /\ settled.version <= param.version
      /\ UNCHANGED <<file, container, backup>> /\ (HostFree => HostFree')
  BY Plain, RunnerKept DEF SInv, Versions
<1>b. \A u : Runner(u) => Runner(u)'
  BY <1>a DEF Runner
<1>1. CASE Start \/ Read \/ Recheck \/ Refuse \/ Fail \/ Unknown \/ Interrupted \/ CheckRecovery
           \/ RecoveryFails \/ ApiReady \/ Die
  <2>1. UNCHANGED <<param, apiUrl, rollout, target, running, settled>>
    BY <1>1 DEF Start, Read, Recheck, Refuse, Fail, Unknown, Interrupted, CheckRecovery,
         RecoveryFails, ApiReady, Die
  <2>2. QED
    BY <1>b, <2>1
<1>2. CASE Inspect \/ Sync \/ RestoreRunner
  <2>1. UNCHANGED <<param, apiUrl, rollout, target, running, settled>>
    BY <1>2 DEF Inspect, Sync, RestoreRunner, Send
  <2>2. QED
    BY <1>b, <2>1
<1>3. CASE PutNew \/ RestoreParam \/ ForeignPut
  <2>1. param'.version = param.version + 1 /\ settled' = settled
    BY <1>3 DEF PutNew, RestoreParam, ForeignPut, PutParameter
  <2>2. QED
    BY <1>a, <2>1
<1>4. CASE UpdateApi \/ RestoreApi
  <2>1. pc \in {"update", "restoreApi"} /\ UNCHANGED <<param, settled>>
    BY <1>4 DEF UpdateApi, RestoreApi
  <2>2. param.version # settled.version
    BY <2>1, <1>a, Plain DEF SInv, Versions, Forward, Restoring
  <2>3. QED
    BY <2>1, <2>2
<1>5. CASE Finalize
  <2>1. /\ pc = "synced" /\ reply = "success"
        /\ settled' = [version |-> version, url |-> new, runner |-> new, known |-> TRUE]
        /\ UNCHANGED <<param, apiUrl, rollout, target, running>>
    BY <1>5 DEF Finalize
  <2>2. version # 0 /\ Runner(new)
    BY <2>1 DEF Versions, Forward, RunnerFollows, Settled
  <2>3. param.version = version => param.url = new /\ apiUrl = new /\ Stable
    BY <2>1, <2>2 DEF ApiFollows, IsNew
  <2>4. settled'.version = version /\ settled'.url = new /\ settled'.runner = new
    BY <2>1
  <2>5. HostFree' /\ file' = settled'.runner /\ container' = settled'.runner
    BY <2>2, <2>4, <1>a DEF Runner
  <2>6. QED
    BY <2>1, <2>3, <2>4, <2>5 DEF Runner
<1>6. CASE RestoredApi
  <2>1. /\ pc = "restoreAwait" /\ Stable /\ running = prev
        /\ UNCHANGED <<param, apiUrl, rollout, target, running>>
        /\ \/ settled' = settled
           \/ settled' = [version |-> restored, url |-> old.url, runner |-> NoUrl, known |-> FALSE]
    BY <1>6 DEF RestoredApi
  <2>2. param.version = restored => param.url = old.url /\ apiUrl = old.url
    BY <2>1 DEF Versions, Restoring, ApiFollows, IsOld
  <2>3. CASE settled' = settled
    BY <1>b, <2>1, <2>3
  <2>4. CASE settled' = [version |-> restored, url |-> old.url, runner |-> NoUrl, known |-> FALSE]
    <3>1. settled'.version = restored /\ settled'.url = old.url /\ settled'.known = FALSE
      BY <2>4
    <3>2. QED
      BY <2>1, <2>2, <3>1
  <2>5. QED
    BY <2>1, <2>3, <2>4
<1>7. CASE RestoredRunner
  <2>1. /\ pc = "restoredRunner" /\ reply = "success"
        /\ settled' = [version |-> restored, url |-> old.url, runner |-> backup[op].old,
                       known |-> TRUE]
        /\ UNCHANGED <<param, apiUrl, rollout, target, running>>
    BY <1>7 DEF RestoredRunner
  <2>2. restored # 0 /\ Runner(backup[op].old)
    BY <2>1 DEF Versions, Restoring, RunnerFollows
  <2>3. param.version = restored => param.url = old.url /\ apiUrl = old.url /\ Stable
    BY <2>1, <2>2 DEF ApiFollows, IsOld
  <2>4. /\ settled'.version = restored /\ settled'.url = old.url
        /\ settled'.runner = backup[op].old
    BY <2>1
  <2>5. HostFree' /\ file' = settled'.runner /\ container' = settled'.runner
    BY <2>2, <2>4, <1>a DEF Runner
  <2>6. QED
    BY <2>1, <2>3, <2>4, <2>5 DEF Runner
<1>8. CASE Ecs
  <2>1. UNCHANGED <<param, settled>>
    BY <1>8 DEF Ecs, RolloutStarts, RolloutCompletes, BreakerRollsBack, FailureForgotten,
         TaskReplaced
  <2>2. ASSUME param.version = settled.version
        PROVE  UNCHANGED <<apiUrl, rollout, target, running>>
    BY <1>8, <2>2 DEF Ecs, RolloutStarts, RolloutCompletes, BreakerRollsBack,
         FailureForgotten, TaskReplaced
  <2>3. QED
    BY <1>b, <2>1, <2>2
<1>9. QED
  BY <1>1, <1>2, <1>3, <1>4, <1>5, <1>6, <1>7, <1>8 DEF Update

\* A host without a command at work stays as it is unless one may start.
LEMMA HostCalm ==
  ASSUME SInv, NEW c \in inflight, HostStepOf(c), HostFree, Moves(c) => c.version # param.version
  PROVE  /\ HostFree' /\ UNCHANGED <<file, container>>
         /\ \A o \in Ops : o # c.op => backup'[o] = backup[o]
<1>1. c.at = "queued"
  BY DEF HostFree
<1>2. ~HostChecks(c)
  BY DEF HostChecks, Moves
<1>3. ~HostUnchanged(c) /\ ~HostRestores(c)
  <2>1. param = [url |-> backup[c.op].api, version |-> c.version] => param.version = c.version
    OBVIOUS
  <2>2. QED
    BY <2>1 DEF HostUnchanged, HostRestores, Moves
<1>4. CASE HostInspects(c) \/ HostFinalizes(c) \/ HostFails(c)
  <2>1. inflight' = inflight \ {c} /\ UNCHANGED <<file, container>>
    BY <1>4 DEF HostInspects, HostFinalizes, HostFails, Ends
  <2>2. backup \in [Ops -> [state : {"none", "prepared", "updating"}, api : AnyUrl,
                            version : Nat, old : AnyUrl, new : AnyUrl]]
    BY DEF SInv, TypeInv, SettingsTypeOK
  <2>3. \A o \in Ops : o # c.op => backup'[o] = backup[o]
    BY <1>4, <2>2 DEF HostInspects, HostFinalizes, HostFails
  <2>4. QED
    BY <2>1, <2>3 DEF HostFree
<1>5. QED
  BY <1>1, <1>2, <1>3, <1>4 DEF HostStepOf, HostBacksUp, HostWrites, HostRecreates,
       HostSynced, HostRestored

\* A command that reports success to the update that waits left the runner as asked for.
LEMMA HostAnswers ==
  ASSUME SInv, RunnerFollows, NEW c \in inflight, HostStepOf(c),
         reply # "success", reply' = "success", pc \in {"synced", "restoredRunner"}
  PROVE  /\ HostFree' /\ file' = container'
         /\ pc = "synced" => file' = new
         /\ pc = "restoredRunner" => file' = backup'[op].old
<1>a. /\ c \in CommandSet /\ Progress(c)
      /\ backup \in [Ops -> [state : {"none", "prepared", "updating"}, api : AnyUrl,
                            version : Nat, old : AnyUrl, new : AnyUrl]]
  BY DEF SInv, TypeInv, SettingsTypeOK, CommandSet
<1>1. /\ Awaited(c) /\ c.op = op /\ inflight' = inflight \ {c}
      /\ \/ HostInspects(c) \/ HostSynced(c) \/ HostUnchanged(c) \/ HostRestored(c)
  BY DEF HostStepOf, HostInspects, HostChecks, HostBacksUp, HostWrites, HostRecreates,
       HostSynced, HostUnchanged, HostRestores, HostRestored, HostFinalizes, HostFails,
       Ends, Becomes, Awaited
<1>2. (pc = "synced" => c.act = "sync") /\ (pc = "restoredRunner" => c.act = "restore")
  BY <1>1 DEF Awaited
<1>3. c.at # "queued" \/ HostFree => HostFree'
  BY <1>1 DEF SInv, Locked, HostFree
<1>4. CASE HostSynced(c)
  BY <1>a, <1>1, <1>2, <1>3, <1>4 DEF HostSynced, Progress, RunnerFollows
<1>5. CASE HostUnchanged(c)
  BY <1>a, <1>1, <1>2, <1>3, <1>5 DEF HostUnchanged, CommandSet
<1>6. CASE HostRestored(c)
  BY <1>a, <1>1, <1>2, <1>3, <1>6 DEF HostRestored, Progress, RunnerFollows, CommandSet
<1>7. QED
  BY <1>1, <1>2, <1>4, <1>5, <1>6 DEF HostInspects

\* A command with the lock writes what its update asked for.
LEMMA HostWritesOwn ==
  ASSUME SInv, Versions, CommandVersions, ApiFollows, RunnerFollows, NEW c \in inflight, HostStepOf(c),
         NEW e \in inflight', e.at # "queued"
  PROVE  /\ pc # "idle" /\ e.act = "sync" /\ e.op = op => e.url = new
         /\ e.act = "restore" => e.url = backup'[e.op].old
<1>a. /\ c \in CommandSet /\ Progress(c)
      /\ backup \in [Ops -> [state : {"none", "prepared", "updating"}, api : AnyUrl,
                            version : Nat, old : AnyUrl, new : AnyUrl]]
      /\ \A d \in inflight : d.op \in Ops
  BY DEF SInv, TypeInv, SettingsTypeOK, CommandSet
<1>b. ASSUME NEW w \in {"checked", "saved", "written", "recreated"}, NEW u
      PROVE  /\ [c EXCEPT !.at = w].op = c.op /\ [c EXCEPT !.at = w].act = c.act
             /\ [c EXCEPT !.at = w].url = c.url
             /\ [c EXCEPT !.at = w, !.url = u].op = c.op
             /\ [c EXCEPT !.at = w, !.url = u].act = c.act
             /\ [c EXCEPT !.at = w, !.url = u].url = u
  BY <1>a DEF CommandSet
<1>1. CASE HostInspects(c)
  BY <1>1 DEF HostInspects, HostFree, Ends
<1>2. CASE HostChecks(c)
  <2>1. pc # "idle" /\ c.op = op => param.url = new
    <3>1. pc # "idle" /\ c.op = op => version = c.version
      BY <1>2 DEF HostChecks, CommandVersions
    <3>2. c.version # 0 /\ param.version = c.version
      BY <1>a, <1>2 DEF HostChecks, CommandSet
    <3>3. QED
      BY <3>1, <3>2 DEF ApiFollows, IsNew
  <2>2. c.act = "sync" /\ backup' = backup
        /\ inflight' = (inflight \ {c}) \cup {[c EXCEPT !.at = "checked", !.url = param.url]}
    BY <1>2 DEF HostChecks, Becomes
  <2>3. PICK d : d = [c EXCEPT !.at = "checked", !.url = param.url]
    OBVIOUS
  <2>4. d.op = c.op /\ d.act = c.act /\ d.url = param.url /\ (e = d \/ e \in inflight)
    BY <1>b, <2>2, <2>3
  <2>5. QED
    BY <2>1, <2>2, <2>4 DEF RunnerFollows
<1>3. CASE HostBacksUp(c) \/ HostWrites(c) \/ HostRecreates(c)
  <2>1. /\ \E w \in {"saved", "written", "recreated"} :
             inflight' = (inflight \ {c}) \cup {[c EXCEPT !.at = w]}
        /\ c.at # "queued"
    BY <1>3 DEF HostBacksUp, HostWrites, HostRecreates, Becomes
  <2>2. \A o \in Ops : backup'[o].old = backup[o].old
    BY <1>a, <1>3 DEF HostBacksUp, HostWrites, HostRecreates, CommandSet
  <2>3. PICK w \in {"saved", "written", "recreated"} :
             inflight' = (inflight \ {c}) \cup {[c EXCEPT !.at = w]}
    BY <2>1
  <2>4. PICK d : d = [c EXCEPT !.at = w]
    OBVIOUS
  <2>5. d.op = c.op /\ d.act = c.act /\ d.url = c.url
    BY <1>b, <2>4
  <2>6. e = d \/ e \in inflight
    BY <2>3, <2>4
  <2>7. QED
    BY <1>a, <2>1, <2>2, <2>5, <2>6 DEF RunnerFollows
<1>4. CASE HostRestores(c)
  <2>1. c.act = "restore" /\ backup' = backup
        /\ inflight' = (inflight \ {c}) \cup {[c EXCEPT !.at = "saved", !.url = backup[c.op].old]}
    BY <1>4 DEF HostRestores, Becomes
  <2>2. PICK d : d = [c EXCEPT !.at = "saved", !.url = backup[c.op].old]
    OBVIOUS
  <2>3. d.op = c.op /\ d.act = c.act /\ d.url = backup[c.op].old /\ (e = d \/ e \in inflight)
    BY <1>b, <2>1, <2>2
  <2>4. QED
    BY <2>1, <2>3 DEF RunnerFollows
<1>5. CASE \/ HostSynced(c) \/ HostUnchanged(c) \/ HostRestored(c) \/ HostFinalizes(c)
           \/ HostFails(c)
  <2>1. inflight' = inflight \ {c}
    BY <1>5 DEF HostSynced, HostUnchanged, HostRestored, HostFinalizes, HostFails, Ends
  <2>2. c.act = "finalize" => e.op # c.op
    BY <2>1 DEF SInv, FinalizeLast
  <2>3. \A o \in Ops : (o = c.op /\ c.act = "finalize") \/ backup'[o].old = backup[o].old
    BY <1>a, <1>5 DEF HostSynced, HostUnchanged, HostRestored, HostFinalizes, HostFails,
         CommandSet
  <2>4. QED
    BY <1>a, <2>1, <2>2, <2>3 DEF RunnerFollows
<1>6. QED
  BY <1>1, <1>2, <1>3, <1>4, <1>5 DEF HostStepOf

LEMMA HostAgrees ==
  ASSUME SInv, Versions, CommandVersions, ApiFollows, RunnerFollows, Agreement,
         NEW c \in inflight, HostStepOf(c)
  PROVE  ApiFollows' /\ RunnerFollows' /\ Agreement'
<1>1. UNCHANGED <<param, apiUrl, fresh, rollout, target, running, settled, version, restored, op, pc,
                  new, old, prev>>
  BY DEF HostStepOf, HostInspects, HostChecks, HostBacksUp, HostWrites, HostRecreates,
       HostSynced, HostUnchanged, HostRestores, HostRestored, HostFinalizes, HostFails,
       hostKeeps, paramVars, apiVars, planVars, workVars
<1>2. ApiFollows'
  BY <1>1 DEF ApiFollows, IsNew, IsOld, Stable
<1>3. /\ param.version \in Nat /\ version \in Nat /\ restored \in Nat /\ c.version \in Nat
      /\ version <= param.version /\ restored <= param.version /\ c.op \in Ops
  BY Plain DEF SInv, Versions, TypeInv, SettingsTypeOK
<1>4. ASSUME Settled \/ (pc = "restoredRunner" /\ reply = "success")
      PROVE  /\ Settled => HostFree' /\ file' = new /\ container' = new
             /\ pc = "restoredRunner" /\ reply = "success" =>
                  HostFree' /\ file' = backup'[op].old /\ container' = backup'[op].old
  <2>1. c.op = op => pc = "restoredRunner" /\ c.act = "sync"
    BY <1>4 DEF SInv, OwnCommands, Own, Settled, Awaited, TakingBack
  <2>2. Moves(c) => c.version # param.version
    BY <1>3, <1>4, <2>1 DEF CommandVersions, Versions, Forward, Restoring, Settled
  <2>3. HostFree
    BY <1>4 DEF RunnerFollows, Runner
  <2>4. op \in Ops
    BY <1>4 DEF SInv, TypeInv, Numbered, Settled
  <2>5. HostFree' /\ UNCHANGED <<file, container>>
    BY <2>2, <2>3, HostCalm
  <2>6. backup'[op] = backup[op]
    <3>1. CASE c.op = op
      BY <2>1, <2>3, <3>1 DEF HostStepOf, HostInspects, HostChecks, HostBacksUp, HostWrites,
         HostRecreates, HostSynced, HostUnchanged, HostRestores, HostRestored, HostFinalizes,
         HostFails, HostFree
    <3>2. CASE c.op # op
      BY <2>2, <2>3, <2>4, <3>2, HostCalm
    <3>3. QED
      BY <3>1, <3>2
  <2>7. QED
    BY <2>5, <2>6 DEF RunnerFollows, Runner
<1>5. /\ Settled' => HostFree' /\ file' = new /\ container' = new
      /\ pc = "restoredRunner" /\ reply' = "success" =>
           HostFree' /\ file' = backup'[op].old /\ container' = backup'[op].old
  <2>1. CASE Settled \/ (pc = "restoredRunner" /\ reply = "success")
    BY <1>1, <1>4, <2>1 DEF Settled
  <2>2. CASE ~(Settled \/ (pc = "restoredRunner" /\ reply = "success"))
    BY <1>1, <2>2, HostAnswers DEF Settled
  <2>3. QED
    BY <2>1, <2>2
<1>6. RunnerFollows'
  BY <1>1, <1>5, HostWritesOwn DEF RunnerFollows, Runner
<1>7. Agreement'
  <2>1. CASE param.version = settled.version /\ settled.known
    <3>1. Moves(c) => c.version # param.version
      BY <2>1 DEF CommandVersions
    <3>2. HostFree' /\ UNCHANGED <<file, container>>
      BY <2>1, <3>1, HostCalm DEF Agreement, Runner
    <3>3. QED
      BY <1>1, <2>1, <3>2 DEF Agreement, Stable, Runner
  <2>2. CASE ~(param.version = settled.version /\ settled.known)
    BY <1>1, <2>2 DEF Agreement, Stable
  <2>3. QED
    BY <2>1, <2>2
<1>8. QED
  BY <1>2, <1>6, <1>7

LEMMA AInvInit == Init => AInv
<1> SUFFICES ASSUME Init PROVE AInv
  OBVIOUS
<1>1. PICK u \in Urls : param = [url |-> u, version |-> 1] /\ apiUrl = u /\ fresh = u
  BY DEF Init
<1>2. /\ param.version = 1 /\ param.url = u /\ old = param
      /\ settled.version = 1 /\ settled.url = u /\ settled.runner = file
  BY <1>1 DEF Init
<1>3. inflight = {} /\ pc = "idle" /\ version = 0 /\ restored = 0
  BY DEF Init
<1>4. ApiFollows /\ Agreement
  BY <1>1, <1>2, <1>3 DEF Init, ApiFollows, IsNew, IsOld, Agreement, Stable, Runner,
       HostFree
<1>5. Versions /\ CommandVersions /\ RunnerFollows
  BY <1>2, <1>3 DEF Versions, CommandVersions, Forward, Restoring, RunnerFollows, Settled
<1>6. QED
  BY <1>4, <1>5, SInvInit DEF AInv

LEMMA AInvStep == AInv /\ SInv' /\ [Next]_settingsVars => AInv'
<1> SUFFICES ASSUME AInv, SInv', [Next]_settingsVars PROVE AInv'
  OBVIOUS
<1>1. CASE Start \/ Update \/ Die \/ Ecs \/ ForeignPut
  <2>1. Versions' /\ CommandVersions'
    BY <1>1, VersionsStep DEF AInv, SInv
  <2>2. ApiFollows'
    BY <1>1, ApiStep DEF AInv, SInv
  <2>3. RunnerFollows'
    BY <1>1, RunnerKept DEF AInv, SInv
  <2>4. Agreement'
    BY <1>1, <2>1, AgreementStep DEF AInv, SInv
  <2>5. QED
    BY <2>1, <2>2, <2>3, <2>4 DEF AInv
<1>2. CASE Host
  <2>1. PICK c \in inflight : HostStepOf(c)
    BY <1>2 DEF Host, HostStepOf
  <2>2. QED
    BY <2>1, HostKeepsVersions, HostAgrees DEF AInv
<1>3. CASE UNCHANGED settingsVars
  <2>1. UNCHANGED <<param, target, running, rollout, fresh, apiUrl, file, container, backup, inflight,
                    reply, op, pc, new, old, prev, version, restored, settled>>
    BY <1>3 DEF settingsVars, paramVars, apiVars, hostVars, planVars, workVars
  <2>2. Versions' /\ CommandVersions' /\ ApiFollows'
    BY <2>1 DEF AInv, Versions, CommandVersions, ApiFollows, Stable, IsNew, IsOld
  <2>3. RunnerFollows' /\ Agreement'
    BY <2>1 DEF AInv, RunnerFollows, Agreement, Settled, Runner, HostFree, Stable
  <2>4. QED
    BY <2>2, <2>3 DEF AInv
<1>4. QED
  BY <1>1, <1>2, <1>3 DEF Next

(* SettledAgrees: what an update reported stays true until the parameter is written    *)
(* again, whatever commands of this or an earlier update are late.                     *)
THEOREM ReportsStayTrue == SettingsSpec => []SettledAgrees
<1>1. AInv => SettledAgrees
  BY DEF AInv, Agreement, Runner, SettledAgrees
<1>2. QED
  BY <1>1, AInvInit, AInvStep, SInvInvariance, PTL DEF SettingsSpec

=============================================================================
