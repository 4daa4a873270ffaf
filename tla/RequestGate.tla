----------------------------- MODULE RequestGate -----------------------------
(***************************************************************************)
(* The HTTP proxy that stands between the public listener and the two      *)
(* application generations during a cutover                                *)
(* (src/scripts/request_cutover/gate.py, class Gate).                      *)
(*                                                                         *)
(* The gate is one asyncio process.  Every access to its state happens     *)
(* while the condition variable `changed` is held, so one action here is   *)
(* one critical section; a coroutine that waits on the condition, on an    *)
(* upstream or on the lock is an intermediate value of pc.  The journal    *)
(* survives the process; the rename that publishes it survives a power     *)
(* loss only once the directory is synced, which is what `disk` records.   *)
(***************************************************************************)
EXTENDS Integers, FiniteSets, Folds

CONSTANTS
  Requests,       \* requests that may reach the proxy, each at most once
  Size,           \* Size[r]: the Content-Length of r (0 without a body)
  Multipart,      \* requests whose body is multipart/form-data
  Unsized,        \* requests with a body of unknown length
  MaxWaiters,     \* config max_waiters
  MaxWaitBytes,   \* config max_wait_bytes
  MaxHolds        \* bound of the model: how many times /begin can succeed

ASSUME GateAssumption ==
  /\ IsFiniteSet(Requests)
  /\ Size \in [Requests -> Nat]
  /\ Multipart \subseteq Requests
  /\ Unsized \subseteq Requests
  /\ MaxWaiters \in Nat \ {0}
  /\ MaxWaitBytes \in Nat \ {0}
  /\ MaxHolds \in Nat

VARIABLES
  phase,      \* V1, HOLD, V2, BLOCKED; DOWN while the process is dead
  journal,    \* the journal file as a process sees it: "none" or "V2"
  disk,       \* the journal file as a power loss would leave it
  token,      \* uuid of the hold in force (the number of the hold), or None
  holds,      \* how many holds were ever started: the next uuid
  overdue,    \* holds 1..overdue are past their deadline
  watchdogs,  \* holds whose expire() task is still asleep
  inflight,   \* inflight[d]: requests admitted to d and not yet ended
  waiters,    \* reservations of held requests ...
  waitBytes,  \* ... and of their bodies
  pc,         \* pc[r]: where the handler of r stands
  dest        \* dest[r]: the destination of r, "none" before its admission

gateVars == <<phase, journal, disk, token, holds, overdue, watchdogs,
              inflight, waiters, waitBytes, pc, dest>>

None == 0

Phases == {"V1", "HOLD", "V2", "BLOCKED", "DOWN"}
Destinations == {"V1", "V2"}

(***************************************************************************)
(* pc[r] is "idle" before r arrives, "waiting" inside admit()'s loop,      *)
(* "forwarded" once r is dispatched to dest[r], "completed" or "failed"    *)
(* when the exchange is over and the handler's finally block still has to  *)
(* take the lock, "done" or "broken" after it, and "lost" if the gate died *)
(* under it.                                                               *)
(***************************************************************************)
States == {"idle", "waiting", "forwarded", "completed", "failed",
           "done", "broken", "lost"}

Held == {r \in Requests : pc[r] = "waiting"}

\* Requests the gate counts in inflight[d].
Served(d) ==
  {r \in Requests : dest[r] = d /\ pc[r] \in {"forwarded", "completed", "failed"}}

-----------------------------------------------------------------------------
(* Pieces of handlers.                                                      *)

\* abort_locked(): its phase guard is the phase in every caller's guard.
AbortLocked ==
  /\ phase' = "V1"
  /\ token' = None

\* inflight[d] += 1 and dispatched[d] += 1, with no await between them.
Forward(r, d) ==
  /\ inflight' = [inflight EXCEPT ![d] = @ + 1]
  /\ pc' = [pc EXCEPT ![r] = "forwarded"]
  /\ dest' = [dest EXCEPT ![r] = d]

\* Faulty: the reservation of the body is not given back.
ReleaseKeepsBytes(r) ==
  /\ waiters' = waiters - 1
  /\ UNCHANGED waitBytes

\* admit()'s finally block.
Release(r) ==
  /\ waiters' = waiters - 1
  /\ waitBytes' = waitBytes - Size[r]

\* Faulty: the limit is compared before the new body is counted.
HasRoomBeforeBody(r) ==
  /\ waiters < MaxWaiters
  /\ waitBytes <= MaxWaitBytes

HasRoom(r) ==
  /\ waiters < MaxWaiters
  /\ waitBytes + Size[r] <= MaxWaitBytes

\* A hold can keep r: its body can be reserved and will be replayable.
Holdable(r) ==
  /\ r \notin Multipart
  /\ r \notin Unsized
  /\ HasRoom(r)

Init ==
  /\ phase = "V1"
  /\ journal = "none"
  /\ disk = "none"
  /\ token = None
  /\ holds = 0
  /\ overdue = 0
  /\ watchdogs = {}
  /\ inflight = [d \in Destinations |-> 0]
  /\ waiters = 0
  /\ waitBytes = 0
  /\ pc = [r \in Requests |-> "idle"]
  /\ dest = [r \in Requests |-> "none"]

-----------------------------------------------------------------------------
(* Requests: admit() and proxy().                                           *)

\* Faulty: the destination is not checked, so BLOCKED is one.
ArriveUnchecked(r) ==
  /\ pc[r] = "idle"
  /\ phase \in Destinations \union {"BLOCKED"}
  /\ Forward(r, phase)
  /\ UNCHANGED <<phase, journal, disk, token, holds, overdue, watchdogs,
                 waiters, waitBytes>>

\* admit() outside a hold: straight to the phase's destination.
ArriveOpen(r) ==
  /\ pc[r] = "idle"
  /\ phase \in Destinations
  /\ Forward(r, phase)
  /\ UNCHANGED <<phase, journal, disk, token, holds, overdue, watchdogs,
                 waiters, waitBytes>>

\* admit() under a hold that can keep the request.
ArriveHeld(r) ==
  /\ pc[r] = "idle"
  /\ phase = "HOLD"
  /\ Holdable(r)
  /\ waiters' = waiters + 1
  /\ waitBytes' = waitBytes + Size[r]
  /\ pc' = [pc EXCEPT ![r] = "waiting"]
  /\ UNCHANGED <<phase, journal, disk, token, holds, overdue, watchdogs,
                 inflight, dest>>

\* admit() under a hold that cannot: the hold ends and r goes to V1.
ArriveAborting(r) ==
  /\ pc[r] = "idle"
  /\ phase = "HOLD"
  /\ ~Holdable(r)
  /\ AbortLocked
  /\ Forward(r, "V1")
  /\ UNCHANGED <<journal, disk, holds, overdue, watchdogs, waiters, waitBytes>>

\* admit() while the commit is uncertain: ValueError, nothing is forwarded.
ArriveBlocked(r) ==
  /\ pc[r] = "idle"
  /\ phase = "BLOCKED"
  /\ pc' = [pc EXCEPT ![r] = "failed"]
  /\ UNCHANGED <<phase, journal, disk, token, holds, overdue, watchdogs,
                 inflight, waiters, waitBytes, dest>>

\* Faulty: a held request waits for the commit and misses the abort.
WakeOnCommitOnly(r) ==
  /\ pc[r] = "waiting"
  /\ phase = "V2"
  /\ Release(r)
  /\ Forward(r, phase)
  /\ UNCHANGED <<phase, journal, disk, token, holds, overdue, watchdogs>>

\* A held request wakes outside the hold and is dispatched.
WakeForward(r) ==
  /\ pc[r] = "waiting"
  /\ phase \in Destinations
  /\ Release(r)
  /\ Forward(r, phase)
  /\ UNCHANGED <<phase, journal, disk, token, holds, overdue, watchdogs>>

\* A held request wakes to an uncertain commit.
WakeBlocked(r) ==
  /\ pc[r] = "waiting"
  /\ phase = "BLOCKED"
  /\ Release(r)
  /\ pc' = [pc EXCEPT ![r] = "failed"]
  /\ UNCHANGED <<phase, journal, disk, token, holds, overdue, watchdogs,
                 inflight, dest>>

\* The 50 ms poll of a held request finds its client gone.
WakeDisconnected(r) ==
  /\ pc[r] = "waiting"
  /\ phase = "HOLD"
  /\ Release(r)
  /\ AbortLocked
  /\ pc' = [pc EXCEPT ![r] = "failed"]
  /\ UNCHANGED <<journal, disk, holds, overdue, watchdogs, inflight, dest>>

\* A held handler is cancelled inside changed.wait().
CancelWaiting(r) ==
  /\ pc[r] = "waiting"
  /\ phase # "DOWN"
  /\ Release(r)
  /\ pc' = [pc EXCEPT ![r] = "failed"]
  /\ UNCHANGED <<phase, journal, disk, token, holds, overdue, watchdogs,
                 inflight, dest>>

\* The whole answer reached the client.
Complete(r) ==
  /\ pc[r] = "forwarded"
  /\ pc' = [pc EXCEPT ![r] = "completed"]
  /\ UNCHANGED <<phase, journal, disk, token, holds, overdue, watchdogs,
                 inflight, waiters, waitBytes, dest>>

\* Upstream error, timeout or broken client: the outcome is unknown.
Break(r) ==
  /\ pc[r] = "forwarded"
  /\ pc' = [pc EXCEPT ![r] = "failed"]
  /\ UNCHANGED <<phase, journal, disk, token, holds, overdue, watchdogs,
                 inflight, waiters, waitBytes, dest>>

\* Faulty: only a completed request is counted out.
FinishLeaks(r) ==
  /\ pc[r] \in {"completed", "failed"}
  /\ inflight' = IF dest[r] \in Destinations /\ pc[r] = "completed"
                 THEN [inflight EXCEPT ![dest[r]] = @ - 1]
                 ELSE inflight
  /\ pc' = [pc EXCEPT ![r] = IF pc[r] = "completed" THEN "done" ELSE "broken"]
  /\ IF phase = "HOLD" /\ pc[r] = "failed"
     THEN AbortLocked
     ELSE UNCHANGED <<phase, token>>
  /\ UNCHANGED <<journal, disk, holds, overdue, watchdogs, waiters, waitBytes,
                 dest>>

\* proxy()'s finally block.
Finish(r) ==
  /\ pc[r] \in {"completed", "failed"}
  /\ inflight' = IF dest[r] \in Destinations
                 THEN [inflight EXCEPT ![dest[r]] = @ - 1]
                 ELSE inflight
  /\ pc' = [pc EXCEPT ![r] = IF pc[r] = "completed" THEN "done" ELSE "broken"]
  /\ IF phase = "HOLD" /\ pc[r] = "failed"
     THEN AbortLocked
     ELSE UNCHANGED <<phase, token>>
  /\ UNCHANGED <<journal, disk, holds, overdue, watchdogs, waiters, waitBytes,
                 dest>>

-----------------------------------------------------------------------------
(* Control: begin(), expire(), commit() and /abort.                         *)

\* Faulty: no watchdog is started.
BeginUnwatched ==
  /\ phase = "V1"
  /\ holds < MaxHolds
  /\ phase' = "HOLD"
  /\ holds' = holds + 1
  /\ token' = holds + 1
  /\ UNCHANGED <<journal, disk, overdue, watchdogs, inflight, waiters, waitBytes,
                 pc, dest>>

Begin ==
  /\ phase = "V1"
  /\ holds < MaxHolds
  /\ phase' = "HOLD"
  /\ holds' = holds + 1
  /\ token' = holds + 1
  /\ watchdogs' = watchdogs \union {holds + 1}
  /\ UNCHANGED <<journal, disk, overdue, inflight, waiters, waitBytes, pc, dest>>

\* Time: the oldest running deadline passes.
DeadlinePasses ==
  /\ overdue < holds
  /\ overdue' = overdue + 1
  /\ UNCHANGED <<phase, journal, disk, token, holds, watchdogs, inflight,
                 waiters, waitBytes, pc, dest>>

\* Faulty: the watchdog ends whichever hold is in force.
ExpireAnyHold(t) ==
  /\ t \in watchdogs
  /\ t <= overdue
  /\ watchdogs' = watchdogs \ {t}
  /\ IF phase = "HOLD" THEN AbortLocked ELSE UNCHANGED <<phase, token>>
  /\ UNCHANGED <<journal, disk, holds, overdue, inflight, waiters, waitBytes,
                 pc, dest>>

\* Faulty: the watchdog looks at the phase too early and gives up.
ExpireEarly(t) ==
  /\ t \in watchdogs
  /\ watchdogs' = watchdogs \ {t}
  /\ IF phase = "HOLD" /\ token = t /\ t <= overdue
     THEN AbortLocked
     ELSE UNCHANGED <<phase, token>>
  /\ UNCHANGED <<journal, disk, holds, overdue, inflight, waiters, waitBytes,
                 pc, dest>>

\* expire(t): the watchdog of hold t wakes up.
Expire(t) ==
  /\ t \in watchdogs
  /\ t <= overdue
  /\ watchdogs' = watchdogs \ {t}
  /\ IF phase = "HOLD" /\ token = t
     THEN AbortLocked
     ELSE UNCHANGED <<phase, token>>
  /\ UNCHANGED <<journal, disk, holds, overdue, inflight, waiters, waitBytes,
                 pc, dest>>

\* Faulty: requests still in V1 are not waited for.
AcceptableUndrained(t, matched) ==
  /\ phase = "HOLD"
  /\ overdue < holds
  /\ t = token
  /\ matched

\* Faulty: the proof of any earlier hold will do.
AcceptableAnyToken(t, matched) ==
  /\ phase = "HOLD"
  /\ inflight["V1"] = 0
  /\ overdue < holds
  /\ matched

\* commit()'s guard. matched stands for the rest of the proof: run_id, keys,
\* pending_jobs and the equality of the source and target fingerprints.
Acceptable(t, matched) ==
  /\ phase = "HOLD"
  /\ inflight["V1"] = 0
  /\ overdue < holds
  /\ t = token
  /\ matched

\* Faulty: the directory is not synced after the rename.
CommitUnsynced(t, matched) ==
  /\ Acceptable(t, matched)
  /\ journal' = "V2"
  /\ disk' \in {disk, "V2"}
  /\ phase' = "V2"
  /\ UNCHANGED <<token, holds, overdue, watchdogs, inflight, waiters, waitBytes,
                 pc, dest>>

CommitDurably(t, matched) ==
  /\ Acceptable(t, matched)
  /\ journal' = "V2"
  /\ disk' = "V2"
  /\ phase' = "V2"
  /\ UNCHANGED <<token, holds, overdue, watchdogs, inflight, waiters, waitBytes,
                 pc, dest>>

\* Faulty: an uncertain commit resumes V1.
CommitResumesV1(t, matched) ==
  /\ Acceptable(t, matched)
  /\ \/ UNCHANGED <<journal, disk>>
     \/ journal' = "V2" /\ disk' \in {disk, "V2"}
  /\ AbortLocked
  /\ UNCHANGED <<holds, overdue, watchdogs, inflight, waiters, waitBytes, pc,
                 dest>>

\* persist() raises OSError before or after the rename.
CommitUncertain(t, matched) ==
  /\ Acceptable(t, matched)
  /\ \/ UNCHANGED <<journal, disk>>
     \/ journal' = "V2" /\ disk' \in {disk, "V2"}
  /\ phase' = "BLOCKED"
  /\ token' = None
  /\ UNCHANGED <<holds, overdue, watchdogs, inflight, waiters, waitBytes, pc,
                 dest>>

\* Faulty: /abort does not compare the token.
AbortAnyHold(t) ==
  /\ phase \in {"V1", "HOLD"}
  /\ AbortLocked
  /\ UNCHANGED <<journal, disk, holds, overdue, watchdogs, inflight, waiters,
                 waitBytes, pc, dest>>

\* /abort with the token of the hold in force, or with none outside a hold.
\* A committed or uncertain gate answers 409.
AdminAbort(t) ==
  /\ phase \in {"V1", "HOLD"}
  /\ t = token
  /\ AbortLocked
  /\ UNCHANGED <<journal, disk, holds, overdue, watchdogs, inflight, waiters,
                 waitBytes, pc, dest>>

-----------------------------------------------------------------------------
(* Failures of the process and of the host, and restore().                  *)

\* Everything but the files is gone; the clients see broken connections.
Die ==
  /\ phase' = "DOWN"
  /\ token' = None
  /\ watchdogs' = {}
  /\ inflight' = [d \in Destinations |-> 0]
  /\ waiters' = 0
  /\ waitBytes' = 0
  /\ pc' = [r \in Requests |->
              IF pc[r] \in {"waiting", "forwarded", "completed", "failed"}
              THEN "lost" ELSE pc[r]]
  /\ UNCHANGED <<holds, overdue, dest>>

Crash ==
  /\ phase # "DOWN"
  /\ Die
  /\ UNCHANGED <<journal, disk>>

\* The process dies inside persist(), between the rename and the directory
\* sync or between the sync and the assignment of the phase.
CrashInCommit(t, matched) ==
  /\ Acceptable(t, matched)
  /\ Die
  /\ journal' = "V2"
  /\ disk' \in {disk, "V2"}

\* restore(): the journal decides, and nothing else survives.
Restart ==
  /\ phase = "DOWN"
  /\ phase' = IF journal = "none" THEN "V1" ELSE "V2"
  /\ UNCHANGED <<journal, disk, token, holds, overdue, watchdogs, inflight,
                 waiters, waitBytes, pc, dest>>

\* The host loses power: the file is what the disk holds.
PowerLoss ==
  /\ Die
  /\ journal' = disk
  /\ UNCHANGED disk

\* The kernel writes the rename back on its own.
Writeback ==
  /\ disk # journal
  /\ disk' = journal
  /\ UNCHANGED <<phase, journal, token, holds, overdue, watchdogs, inflight,
                 waiters, waitBytes, pc, dest>>

-----------------------------------------------------------------------------
\* What the handlers of requests, the clock and the process do by themselves.
RequestStep(r) ==
  \/ ArriveOpen(r) \/ ArriveHeld(r) \/ ArriveAborting(r) \/ ArriveBlocked(r)
  \/ WakeForward(r) \/ WakeBlocked(r) \/ WakeDisconnected(r) \/ CancelWaiting(r)
  \/ Complete(r) \/ Break(r) \/ Finish(r)

TimerStep ==
  \/ DeadlinePasses
  \/ \E t \in watchdogs : Expire(t)

\* Any client of the control socket, with any token and any proof.
AdminStep ==
  \/ Begin
  \/ \E t \in 1..holds, matched \in BOOLEAN :
       CommitDurably(t, matched) \/ CommitUncertain(t, matched) \/ CrashInCommit(t, matched)
  \/ \E t \in 0..holds : AdminAbort(t)

Next ==
  \/ \E r \in Requests : RequestStep(r)
  \/ TimerStep
  \/ AdminStep
  \/ Crash
  \/ Restart

HostNext == Next \/ PowerLoss \/ Writeback

Spec == Init /\ [][Next]_gateVars

\* The same gate on a host that can lose power.
HostSpec == Init /\ [][HostNext]_gateVars

(***************************************************************************)
(* The event loop runs what is runnable: a deadline passes, the task that  *)
(* sleeps for it wakes up, and a held request polls the phase every 50 ms. *)
(***************************************************************************)
Fairness ==
  /\ WF_gateVars(DeadlinePasses)
  /\ WF_gateVars(\E t \in watchdogs : Expire(t))
  /\ \A r \in Requests : WF_gateVars(WakeForward(r) \/ WakeBlocked(r))

FairSpec == Spec /\ Fairness

-----------------------------------------------------------------------------
(* Properties.                                                              *)

TypeOK ==
  /\ phase \in Phases
  /\ journal \in {"none", "V2"}
  /\ disk \in {"none", "V2"}
  /\ holds \in 0..MaxHolds
  /\ overdue \in 0..holds
  /\ token \in 0..holds
  /\ watchdogs \subseteq 1..holds
  /\ inflight \in [Destinations -> Int]
  /\ waiters \in Int
  /\ waitBytes \in Int
  /\ pc \in [Requests -> States]
  /\ dest \in [Requests -> Destinations \union {"none"}]

(***************************************************************************)
(* The counters commit() trusts are the requests they count, through       *)
(* every abort, disconnection, uncertain commit and restart: nothing leaks *)
(* and nothing is subtracted twice.                                        *)
(***************************************************************************)
CountersMatch ==
  /\ \A d \in Destinations : inflight[d] = Cardinality(Served(d))
  /\ waiters = Cardinality(Held)

\* The bytes of the bodies of the requests in S.
BodiesOf(S) ==
  MapThenFoldSet(+, 0, LAMBDA r : Size[r], LAMBDA s : CHOOSE r \in s : TRUE, S)

(***************************************************************************)
(* wait_bytes is the sum of the bodies of the requests that are held.      *)
(***************************************************************************)
BytesMatch == waitBytes = BodiesOf(Held)

(***************************************************************************)
(* Who may be served in which phase. Once the commit is written, certain   *)
(* or not, V1 serves nobody; V2 serves only under a published journal; a   *)
(* BLOCKED gate serves nobody at all.                                      *)
(***************************************************************************)
AuthorityFence ==
  /\ phase \in {"V1", "HOLD"} => journal = "none"
  /\ phase = "V2" => journal = "V2"
  /\ phase # "V2" => Served("V2") = {}
  /\ phase \notin {"V1", "HOLD"} => Served("V1") = {}

\* No destination is chosen before the admission.
NotAdmitted ==
  \A r \in Requests : pc[r] \in {"idle", "waiting"} => dest[r] = "none"

\* The inductive invariant behind the properties of the gate.
GateInv == TypeOK /\ NotAdmitted /\ CountersMatch /\ AuthorityFence

\* The memory a hold may pin down, however requests arrive, leave or stay
\* behind from a hold that has already been aborted.
WithinLimits ==
  /\ waiters <= MaxWaiters
  /\ waitBytes <= MaxWaitBytes

(***************************************************************************)
(* The timer of one hold never ends another one: when a watchdog's step    *)
(* ends a hold, the deadline of that hold itself has passed.               *)
(***************************************************************************)
TimerEndsOnlyItsHold ==
  [][(phase = "HOLD" /\ phase' = "V1" /\ watchdogs' # watchdogs)
       => token <= overdue]_gateVars

(***************************************************************************)
(* The gate implements the single handover of authority: the owner is what *)
(* the journal says, and a request is served while its handler holds it.   *)
(***************************************************************************)
Owner == IF journal = "V2" THEN "V2" ELSE "V1"

Serving ==
  [r \in Requests |->
     IF dest[r] = "none" THEN "none"
     ELSE IF pc[r] \in {"forwarded", "completed", "failed"} THEN dest[r]
     ELSE "ended"]

Authority == INSTANCE AuthorityHandover WITH owner <- Owner, serving <- Serving

SingleHandover == Authority!Spec

\* A hold ends whatever its controller does: no phase lasts that keeps
\* accepted requests waiting.
HoldEnds == (phase = "HOLD") ~> (phase # "HOLD")

\* Every held request is dispatched or told that it failed.
HeldLeave == \A r \in Requests : (pc[r] = "waiting") ~> (pc[r] # "waiting")

(***************************************************************************)
(* "COMMIT is durable before any V2 dispatch" (gate.py, restore()).        *)
(***************************************************************************)
CommitDurableBeforeV2Dispatch == Served("V2") # {} => disk = "V2"

=============================================================================
