--------------------------- MODULE RequestCutover ---------------------------
(***************************************************************************)
(* The whole cutover of authentication: the gate, the controllers that an  *)
(* operator starts (src/scripts/request_cutover/control.py), the import    *)
(* thread each of them runs (transfer() there and auth.py), and what is    *)
(* moved: the authentication rows of the V1 database and their copy in the *)
(* inactive Redis namespace of the run.                                    *)
(*                                                                         *)
(* A row is abstracted to the request that creates it (a login, a ticket)  *)
(* or deletes it (a logout, a consumed token), so both a lost write and a  *)
(* resurrected session show as a difference between `sql` and `redis`.     *)
(* `redis` holds imported rows only: what V2 writes after the handover is  *)
(* V2's own business.  Expiry is left out: an expired entry is absent from *)
(* both sides of the comparison that verify() makes.                       *)
(***************************************************************************)
EXTENDS RequestGate

CONSTANTS
  Controllers,    \* processes that run `control cutover`, once each
  Creators,       \* requests that insert their row when V1 handles them
  Deleters,       \* requests that delete their row when V1 handles them
  Interruptible   \* whether an operator may interrupt an import (Ctrl-C)

\* Nobody holds the lock.
Nobody == "nobody"

ASSUME CutoverAssumption ==
  /\ Nobody \notin Controllers
  /\ Creators \subseteq Requests
  /\ Deleters \subseteq Requests
  /\ Creators \intersect Deleters = {}
  /\ Interruptible \in BOOLEAN

VARIABLES
  v1,        \* v1[r]: what the V1 application does with r
  sql,       \* rows in the V1 authentication tables
  redis,     \* rows in the run's Redis prefix
  lock,      \* who holds journal + '.controller.lock'
  ctl,       \* ctl[c]: where _cutover() of controller c stands
  mine,      \* mine[c]: the hold_token c was given
  calls,     \* control requests that left a controller and are not handled
  thread,    \* thread[c]: where transfer() of c stands
  snap,      \* snap[c]: rows its snapshot returned
  todo,      \* todo[c]: keys it still has to delete, then rows to write
  loose      \* history: V1 requests the gate gave up on, with `holds` then

dataVars == <<v1, sql, redis, loose>>
ctlVars == <<lock, ctl, mine, calls>>
threadVars == <<thread, snap, todo>>
cutoverVars == <<gateVars, dataVars, ctlVars, threadVars>>

Rows == Creators \union Deleters

CtlStates == {"idle", "preflight", "beginning", "draining", "importing",
              "committing", "recovering", "aborting", "committed", "gone"}
ThreadStates == {"none", "snapshot", "scan", "delete", "write", "proved", "failed"}
Calls == [op : {"begin", "commit", "abort"}, by : Controllers, token : 0..MaxHolds,
          matched : BOOLEAN]

\* The controllers that are inside the flock'ed region.
Active == {"preflight", "beginning", "draining", "importing", "committing",
           "recovering", "aborting"}

CutoverInit ==
  /\ Init
  /\ v1 = [r \in Requests |-> "none"]
  /\ sql = Deleters
  /\ redis = {}
  /\ lock = Nobody
  /\ ctl = [c \in Controllers |-> "idle"]
  /\ mine = [c \in Controllers |-> None]
  /\ calls = {}
  /\ thread = [c \in Controllers |-> "none"]
  /\ snap = [c \in Controllers |-> {}]
  /\ todo = [c \in Controllers |-> {}]
  /\ loose = {}

-----------------------------------------------------------------------------
(* The V1 application and the requests on their way through the gate.       *)

\* A request handed to V1 reaches it, even if the gate has given up on it.
V1Receive(r) ==
  /\ dest[r] = "V1"
  /\ pc[r] \in {"forwarded", "failed", "broken", "lost"}
  /\ v1[r] = "none"
  /\ v1' = [v1 EXCEPT ![r] = "running"]
  /\ UNCHANGED <<gateVars, sql, redis, loose, ctlVars, threadVars>>

\* V1 commits what r changes and answers.
V1Answer(r) ==
  /\ v1[r] = "running"
  /\ v1' = [v1 EXCEPT ![r] = "answered"]
  /\ sql' = IF r \in Creators THEN sql \union {r} ELSE sql \ ({r} \intersect Deleters)
  /\ UNCHANGED <<gateVars, redis, loose, ctlVars, threadVars>>

\* The gate's own steps. A V1 exchange completes only once V1 has answered.
GateRequest(r) ==
  /\ RequestStep(r)
  /\ (pc[r] = "forwarded" /\ pc'[r] = "completed" /\ dest[r] = "V1")
       => v1[r] = "answered"
  /\ loose' = IF pc'[r] = "broken" /\ dest[r] = "V1"
              THEN loose \union {<<r, holds>>} ELSE loose
  /\ UNCHANGED <<v1, sql, redis, ctlVars, threadVars>>

GateTimer ==
  /\ TimerStep
  /\ UNCHANGED <<dataVars, ctlVars, threadVars>>

\* The requests that die with the gate are as unknown as broken ones, and
\* the control connections are reset.
LoseAll ==
  /\ loose' = loose \union {<<r, holds>> : r \in Served("V1")}
  /\ calls' = {}

GateCrash ==
  /\ Crash
  /\ LoseAll
  /\ UNCHANGED <<v1, sql, redis, lock, ctl, mine, threadVars>>

GatePowerLoss ==
  /\ PowerLoss
  /\ LoseAll
  /\ UNCHANGED <<v1, sql, redis, lock, ctl, mine, threadVars>>

GateRestart ==
  /\ Restart
  /\ UNCHANGED <<dataVars, ctlVars, threadVars>>

GateWriteback ==
  /\ Writeback
  /\ UNCHANGED <<dataVars, ctlVars, threadVars>>

-----------------------------------------------------------------------------
(* cutover() and _cutover().                                                *)

Goto(c, state) == ctl' = [ctl EXCEPT ![c] = state]

\* The finally block of cutover() closes the lock's descriptor.
Leave(c, state) ==
  /\ Goto(c, state)
  /\ lock' = IF lock = c THEN Nobody ELSE lock

Send(c, op, t, matched) ==
  calls' = calls \union {[op |-> op, by |-> c, token |-> t, matched |-> matched]}

ThreadTo(c, next) == thread' = [thread EXCEPT ![c] = next]

\* transfer() returns or raises, and its locals are gone.
Return(c, result) ==
  /\ ThreadTo(c, result)
  /\ snap' = [snap EXCEPT ![c] = {}]
  /\ todo' = [todo EXCEPT ![c] = {}]

\* Faulty: controllers do not exclude each other.
LockIgnored(c) ==
  /\ ctl[c] = "idle"
  /\ lock' = c
  /\ Goto(c, "preflight")
  /\ UNCHANGED <<gateVars, dataVars, mine, calls, threadVars>>

Lock(c) ==
  /\ ctl[c] = "idle"
  /\ lock = Nobody
  /\ lock' = c
  /\ Goto(c, "preflight")
  /\ UNCHANGED <<gateVars, dataVars, mine, calls, threadVars>>

\* BlockingIOError: another controller is still running.
LockBusy(c) ==
  /\ ctl[c] = "idle"
  /\ lock # Nobody
  /\ Goto(c, "gone")
  /\ UNCHANGED <<gateVars, dataVars, lock, mine, calls, threadVars>>

\* status(), checks() and healthy() pass, and /begin is sent.
Preflight(c) ==
  /\ ctl[c] = "preflight"
  /\ phase = "V1"
  /\ waiters = 0
  /\ Send(c, "begin", None, TRUE)
  /\ Goto(c, "beginning")
  /\ UNCHANGED <<gateVars, dataVars, lock, mine, threadVars>>

\* The polling loop sees every V1 request ended under its own hold.
Drained(c) ==
  /\ ctl[c] = "draining"
  /\ phase = "HOLD"
  /\ token = mine[c]
  /\ inflight["V1"] = 0
  /\ Goto(c, "importing")
  /\ thread' = [thread EXCEPT ![c] = "snapshot"]
  /\ UNCHANGED <<gateVars, dataVars, lock, mine, calls, snap, todo>>

\* ... or that its hold is over.
HoldGone(c) ==
  /\ ctl[c] = "draining"
  /\ phase # "DOWN"
  /\ ~(phase = "HOLD" /\ token = mine[c])
  /\ Goto(c, "recovering")
  /\ UNCHANGED <<gateVars, dataVars, lock, mine, calls, threadVars>>

SendCommit(c) ==
  /\ ctl[c] = "importing"
  /\ thread[c] = "proved"
  /\ Send(c, "commit", mine[c], TRUE)
  /\ Goto(c, "committing")
  /\ Return(c, "none")
  /\ UNCHANGED <<gateVars, dataVars, lock, mine>>

ImportFailed(c) ==
  /\ ctl[c] = "importing"
  /\ thread[c] = "failed"
  /\ Goto(c, "recovering")
  /\ Return(c, "none")
  /\ UNCHANGED <<gateVars, dataVars, lock, mine, calls>>

\* The except block: abort the hold only if it is still this controller's.
Recover(c) ==
  /\ ctl[c] = "recovering"
  /\ phase # "DOWN"
  /\ IF phase = "HOLD" /\ token = mine[c]
     THEN Send(c, "abort", mine[c], TRUE) /\ Goto(c, "aborting") /\ UNCHANGED lock
     ELSE Leave(c, "gone") /\ UNCHANGED calls
  /\ UNCHANGED <<gateVars, dataVars, mine, threadVars>>

\* A control request fails or times out, or a preflight check refuses. Only
\* what follows /begin is inside the try block.
CallFails(c) ==
  /\ IF ctl[c] \in {"draining", "committing"}
     THEN Goto(c, "recovering") /\ UNCHANGED lock
     ELSE ctl[c] \in {"preflight", "beginning", "recovering", "aborting"} /\ Leave(c, "gone")
  /\ UNCHANGED <<gateVars, dataVars, mine, calls, threadVars>>

\* Ctrl-C cancels the coroutine that awaits the thread, not the thread.
Interrupt(c) ==
  /\ Interruptible
  /\ ctl[c] = "importing"
  /\ Goto(c, "recovering")
  /\ UNCHANGED <<gateVars, dataVars, lock, mine, calls, threadVars>>

\* The controller process is killed; its descriptors close, its thread dies.
Kill(c) ==
  /\ ctl[c] \in Active
  /\ Leave(c, "gone")
  /\ Return(c, "none")
  /\ UNCHANGED <<gateVars, dataVars, mine, calls>>

-----------------------------------------------------------------------------
(* The gate handles a control request; its answer may come too late.        *)

\* What the caller sees, if it still waits for this answer.
Answered(m, waiting, state) ==
  IF ctl[m.by] = waiting
  THEN \/ Leave(m.by, state)
       \/ UNCHANGED <<lock, ctl>>
  ELSE UNCHANGED <<lock, ctl>>

AnsweredInTry(m, state) ==
  IF ctl[m.by] = "committing"
  THEN (Goto(m.by, state) \/ UNCHANGED ctl) /\ UNCHANGED lock
  ELSE UNCHANGED <<lock, ctl>>

HandleBegin(m) ==
  /\ m.op = "begin"
  /\ phase # "DOWN"
  /\ calls' = calls \ {m}
  /\ \/ /\ Begin
        /\ \/ /\ ctl[m.by] = "beginning"
              /\ Goto(m.by, "draining")
              /\ mine' = [mine EXCEPT ![m.by] = token']
           \/ UNCHANGED <<ctl, mine>>
        /\ UNCHANGED lock
     \/ /\ phase # "V1"
        /\ UNCHANGED <<gateVars, mine>>
        /\ Answered(m, "beginning", "gone")
  /\ UNCHANGED <<dataVars, threadVars>>

HandleCommit(m) ==
  /\ m.op = "commit"
  /\ phase # "DOWN"
  /\ \/ /\ CommitDurably(m.token, m.matched)
        /\ Answered(m, "committing", "committed")
        /\ calls' = calls \ {m}
        /\ UNCHANGED loose
     \/ /\ CommitUncertain(m.token, m.matched)
        /\ AnsweredInTry(m, "recovering")
        /\ calls' = calls \ {m}
        /\ UNCHANGED loose
     \/ /\ CrashInCommit(m.token, m.matched)
        /\ LoseAll
        /\ UNCHANGED <<lock, ctl>>
     \/ /\ ~Acceptable(m.token, m.matched)
        /\ UNCHANGED gateVars
        /\ AnsweredInTry(m, "recovering")
        /\ calls' = calls \ {m}
        /\ UNCHANGED loose
  /\ UNCHANGED <<v1, sql, redis, mine, threadVars>>

HandleAbort(m) ==
  /\ m.op = "abort"
  /\ phase # "DOWN"
  /\ \/ AdminAbort(m.token)
     \/ /\ ~(phase \in {"V1", "HOLD"} /\ m.token = token)
        /\ UNCHANGED gateVars
  /\ Answered(m, "aborting", "gone")
  /\ calls' = calls \ {m}
  /\ UNCHANGED <<dataVars, mine, threadVars>>

-----------------------------------------------------------------------------
(* transfer(), in the worker thread of controller c.                        *)

At(c, here) ==
  /\ thread[c] = here
  /\ UNCHANGED <<gateVars, v1, sql, loose, ctlVars>>

\* checks() and snapshot(): one consistent read of every table.
Snapshot(c) ==
  /\ At(c, "snapshot")
  /\ snap' = [snap EXCEPT ![c] = sql]
  /\ ThreadTo(c, "scan")
  /\ UNCHANGED <<redis, todo>>

\* replace_inactive(): list the keys of the prefix,
Scan(c) ==
  /\ At(c, "scan")
  /\ todo' = [todo EXCEPT ![c] = redis]
  /\ ThreadTo(c, "delete")
  /\ UNCHANGED <<redis, snap>>

\* delete what was listed, which leaves the snapshot to be written,
Delete(c) ==
  /\ At(c, "delete")
  /\ redis' = redis \ todo[c]
  /\ todo' = [todo EXCEPT ![c] = snap[c]]
  /\ ThreadTo(c, "write")
  /\ UNCHANGED snap

\* and write the entries, one transaction per batch.
Write(c) ==
  /\ At(c, "write")
  /\ \E k \in todo[c] :
       /\ redis' = redis \union {k}
       /\ todo' = [todo EXCEPT ![c] = @ \ {k}]
  /\ UNCHANGED <<thread, snap>>

\* verify(): the prefix holds exactly the snapshot.
Verify(c) ==
  /\ At(c, "write")
  /\ todo[c] = {}
  /\ Return(c, IF redis = snap[c] THEN "proved" ELSE "failed")
  /\ UNCHANGED redis

\* Any query, command or check may fail.
ImportError(c) ==
  /\ thread[c] \in {"snapshot", "scan", "delete", "write"}
  /\ Return(c, "failed")
  /\ UNCHANGED <<gateVars, dataVars, ctlVars>>

-----------------------------------------------------------------------------
ThreadStep(c) ==
  \/ Snapshot(c) \/ Scan(c) \/ Delete(c) \/ Write(c) \/ Verify(c) \/ ImportError(c)

ControllerStep(c) ==
  \/ Lock(c) \/ LockBusy(c) \/ Preflight(c) \/ Drained(c) \/ HoldGone(c)
  \/ SendCommit(c) \/ ImportFailed(c) \/ Recover(c) \/ CallFails(c)
  \/ Interrupt(c) \/ Kill(c)

CutoverNext ==
  \/ \E r \in Requests : GateRequest(r) \/ V1Receive(r) \/ V1Answer(r)
  \/ GateTimer
  \/ GateCrash
  \/ GateRestart
  \/ \E c \in Controllers : ControllerStep(c) \/ ThreadStep(c)
  \/ \E m \in calls : HandleBegin(m) \/ HandleCommit(m) \/ HandleAbort(m)

CutoverHostNext == CutoverNext \/ GatePowerLoss \/ GateWriteback

CutoverSpec == CutoverInit /\ [][CutoverNext]_cutoverVars
CutoverHostSpec == CutoverInit /\ [][CutoverHostNext]_cutoverVars

(***************************************************************************)
(* Every control request of a controller ends within two seconds, with an  *)
(* answer or an exception; the polling loop goes round every 20 ms; and    *)
(* every query and command of the import has a timeout of its own.  The    *)
(* end of V1's requests, and so of the drain, is nobody's promise.         *)
(***************************************************************************)
CallEnds(c) ==
  /\ ctl[c] = "draining" => phase = "DOWN"
  /\ CallFails(c)

CutoverFairness ==
  /\ WF_cutoverVars(GateTimer)
  /\ \A r \in Requests :
       WF_cutoverVars(GateRequest(r) /\ (WakeForward(r) \/ WakeBlocked(r)))
  /\ \A c \in Controllers :
       /\ WF_cutoverVars(Drained(c) \/ HoldGone(c) \/ SendCommit(c) \/ ImportFailed(c)
                           \/ Recover(c) \/ CallEnds(c))
       /\ WF_cutoverVars(ThreadStep(c))

CutoverFairSpec == CutoverSpec /\ CutoverFairness

-----------------------------------------------------------------------------
(* Properties.                                                              *)

\* The values of every variable of the composition.
CutoverTypeOK ==
  /\ TypeOK
  /\ v1 \in [Requests -> {"none", "running", "answered"}]
  /\ sql \subseteq Rows
  /\ redis \subseteq Rows
  /\ lock \in Controllers \union {Nobody}
  /\ ctl \in [Controllers -> CtlStates]
  /\ mine \in [Controllers -> 0..MaxHolds]
  /\ calls \subseteq Calls
  /\ thread \in [Controllers -> ThreadStates]
  /\ snap \in [Controllers -> SUBSET Rows]
  /\ todo \in [Controllers -> SUBSET Rows]
  /\ loose \subseteq Requests \X (0..MaxHolds)

Divergence == (sql \ redis) \union (redis \ sql)

(***************************************************************************)
(* Once the handover is published, the copy V2 works with is the final     *)
(* state of the V1 tables, but for requests the gate had given up on       *)
(* before the hold that committed: a request that breaks under a hold, a   *)
(* snapshot that outlives its hold and a controller that lost its hold     *)
(* never lead to a commit.                                                 *)
(***************************************************************************)
LostWritesPrecedeHold ==
  journal = "V2" =>
    \A r \in Divergence : \E n \in 0..(holds - 1) : <<r, n>> \in loose

(***************************************************************************)
(* "caller must fence all HTTP writers" (auth.py, snapshot()): the copy V2 *)
(* works with is the final state of the V1 tables.                         *)
(***************************************************************************)
FinalSnapshot == phase = "V2" => sql = redis

(***************************************************************************)
(* "A timed-out import may still be finishing in a thread. Serialize       *)
(* controllers across processes so it cannot race with a later successful  *)
(* COMMIT" (control.py, cutover()): no import runs once authority is V2's. *)
(***************************************************************************)
ImportOverAtCommit ==
  journal = "V2" =>
    \A c \in Controllers : thread[c] \notin {"snapshot", "scan", "delete", "write"}

\* A controller that was told "committed" can stop V1: no crash and no power
\* loss brings the gate back to V1 or lets a new hold begin.
AckedForever ==
  (\E c \in Controllers : ctl[c] = "committed") => phase \notin {"V1", "HOLD"}

\* A late /abort of one controller never ends the hold of another.
AbortOnlyOwnHold ==
  [][\A m \in calls \ calls' :
       (m.op = "abort" /\ phase = "HOLD" /\ phase' = "V1") => token = mine[m.by]]_cutoverVars

\* Whatever happens to the gate, the import and the V1 requests it waits
\* for, a controller gives the lock back.
LockReleased == \A c \in Controllers : (lock = c) ~> (lock # c)

=============================================================================
