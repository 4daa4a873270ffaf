------------------------------ MODULE CdcHandoff ------------------------------
(***************************************************************************)
(* The handoff of the database to the target while change data capture     *)
(* copies it (src/scripts/b-integration386-handoff.py, -383-cutover.py,    *)
(* -376-control.py, -376-app.py, -376-reset.py and the end of -376-run.py),*)
(* for one run.                                                            *)
(*                                                                         *)
(* The controller `ctl` on the source's host fences the source, the one on *)
(* the Kafka host, `kc`, freezes the streams and sends a proof, and `ctl`  *)
(* promotes the target.  `orch` takes over when `ctl` has ended: it carries*)
(* the target's data back, or reopens a source that was never replaced.    *)
(*                                                                         *)
(* Every commit writes every table: a row is the number of the commit that *)
(* wrote it last.  The application, Kafka and its connectors are external, *)
(* modelled by what these scripts ask of them.  The two sinks behind the   *)
(* connector "trips" (trips, and the journal of the requests) are one here,*)
(* and a sink that dies between its write and its offset only repeats an   *)
(* upsert: that is not a step.                                             *)
(***************************************************************************)
EXTENDS Naturals, Sequences

CONSTANTS
  MaxCommits,   \* commits of the application
  MaxRequests,  \* trip requests in the queue
  MaxRestarts   \* restarts of a connector's task

ASSUME CdcAssumption == {MaxCommits, MaxRequests, MaxRestarts} \subseteq Nat

Connectors == {"trips", "auth-source"}
Requests == 1..MaxRequests
Marker == 0

VARIABLES
  src, tgt,           \* "open" (0,0), "readonly" (1,0), "fenced" (1,1)
  route,              \* where ProxySQL sends the application; "parked": nowhere
  log,                \* the source's binary log: numbers of commits, and the marker
  rows,               \* number of the commit each table of the target shows
  acked,              \* commits of the application, wherever they were made
  conn, pos,          \* a connector's state, and how much of the log it produced
  seen,               \* connectors whose barrier topic has the marker
  restarts,           \* how often a connector's task was restarted
  topic, done,        \* a sink's topic and its committed offset
  sinksUp,
  fencing, active,    \* the V1 application refuses, and has a direct request in service
  offset,             \* of the group that consumes the trip requests
  journal,            \* request -> commit that applied it in the source, or 0
  times,              \* how often a request took effect
  consumer, taken,    \* who consumes requests, and the one applied but not yet committed
  ctl, kc, orch, clock,
  phase, intent,      \* last phase saved, and whether promotion_intent ever was
  frozen,             \* sourceBusinessGtids and sourcePosition, as lengths of the log
  frontier, tails,    \* offsets noted by wait_cdc_watermark, and after the freeze
  proof, stored,      \* the proof in its topic, and in .cdc-drained.json
  late,               \* promotion statements the server may still execute
  result, copy        \* what ctl reported, and the snapshot of the target

dbVars == <<src, tgt, route, log, rows, acked>>
streamVars == <<conn, pos, seen, restarts, topic, done, sinksUp>>
appVars == <<fencing, active, offset, journal, times, consumer, taken>>
saved == <<phase, intent, frozen>>
proofVars == <<tails, proof>>
ctlVars == <<ctl, saved, frontier, stored, late, result>>
cdcVars == <<dbVars, streamVars, appVars, ctlVars, kc, proofVars, orch, copy, clock>>

NoProof == [equal |-> FALSE, gtids |-> [c \in Connectors |-> 0], inTime |-> FALSE, sent |-> FALSE]

Init ==
  /\ src = "open" /\ tgt = "readonly" /\ route = "source"
  /\ log = <<>> /\ rows = [s \in Connectors |-> 0] /\ acked = 0
  /\ conn = [c \in Connectors |-> "running"]
  /\ pos = [c \in Connectors |-> 0]
  /\ seen = {} /\ restarts = 0
  /\ topic = [s \in Connectors |-> <<>>] /\ done = [s \in Connectors |-> 0]
  /\ sinksUp = Connectors
  /\ fencing = FALSE /\ active = FALSE
  /\ offset = 0
  /\ journal = [r \in Requests |-> 0] /\ times = journal
  /\ consumer = "source" /\ taken = FALSE
  /\ ctl = "ready" /\ kc = "markers" /\ orch = "wait" /\ clock = 0
  /\ phase = "preflight" /\ intent = FALSE /\ frozen = [gtids |-> 0, position |-> 0]
  /\ frontier = [s \in Connectors |-> 0] /\ tails = frontier
  /\ proof = NoProof /\ stored = NoProof
  /\ late = {} /\ result = "none" /\ copy = 0

-----------------------------------------------------------------------------
(* The application. *)

CommitInSource ==
  /\ src = "open" /\ route = "source"
  /\ acked < MaxCommits
  /\ acked' = acked + 1
  /\ log' = Append(log, acked')
  /\ UNCHANGED <<src, tgt, route, rows>>

CommitInTarget ==
  /\ tgt = "open"
  /\ acked < MaxCommits
  /\ acked' = acked + 1
  /\ rows' = [s \in Connectors |-> acked']
  /\ UNCHANGED <<src, tgt, route, log>>

elsewhere == <<ctlVars, kc, proofVars, orch, copy, clock>>

DirectStarts ==
  /\ ~fencing /\ ~active
  /\ active' = TRUE
  /\ UNCHANGED <<dbVars, streamVars, fencing, offset, journal, times, consumer, taken, elsewhere>>

DirectCommits ==
  /\ active /\ CommitInSource
  /\ UNCHANGED <<streamVars, appVars, elsewhere>>

DirectEnds ==
  /\ active
  /\ active' = FALSE
  /\ UNCHANGED <<dbVars, streamVars, fencing, offset, journal, times, consumer, taken, elsewhere>>

(* The V2 service writes once its pool in ProxySQL is open. *)
V2Commits ==
  /\ route = "target" /\ CommitInTarget
  /\ UNCHANGED <<streamVars, appVars, elsewhere>>

(* One transaction writes the trip and the journal of its request. *)
SourceApplies ==
  /\ consumer = "source" /\ ~taken /\ offset < MaxRequests
  /\ CommitInSource
  /\ taken' = TRUE
  /\ journal' = [journal EXCEPT ![offset + 1] = acked']
  /\ times' = [times EXCEPT ![offset + 1] = @ + 1]
  /\ UNCHANGED <<streamVars, fencing, active, offset, consumer, elsewhere>>

SourceCommitsOffset ==
  /\ consumer = "source" /\ taken
  /\ offset' = offset + 1 /\ taken' = FALSE
  /\ UNCHANGED <<dbVars, streamVars, fencing, active, journal, times, consumer, elsewhere>>

(* The fenced listener finishes its request; the commit of the offset may be lost. *)
ListenerStops ==
  /\ fencing /\ consumer = "source"
  /\ consumer' = "none" /\ taken' = FALSE
  /\ UNCHANGED <<dbVars, streamVars, fencing, active, offset, journal, times, elsewhere>>

\* Faulty: the journal of the requests is not consulted.
TargetAppliesAgain ==
  /\ consumer = "target" /\ offset < MaxRequests
  /\ LET r == offset + 1
         isDone == FALSE
     IN IF isDone
        THEN UNCHANGED <<dbVars, times>>
        ELSE CommitInTarget /\ times' = [times EXCEPT ![r] = @ + 1]
  /\ offset' = offset + 1
  /\ UNCHANGED <<streamVars, fencing, active, journal, consumer, taken, elsewhere>>

(* The target's consumer skips what the journal says is done. *)
TargetApplies ==
  /\ consumer = "target" /\ offset < MaxRequests
  /\ LET r == offset + 1
         isDone == journal[r] # 0 /\ rows["trips"] >= journal[r]
     IN IF isDone
        THEN UNCHANGED <<dbVars, times>>
        ELSE CommitInTarget /\ times' = [times EXCEPT ![r] = @ + 1]
  /\ offset' = offset + 1
  /\ UNCHANGED <<streamVars, fencing, active, journal, consumer, taken, elsewhere>>

Application ==
  \/ DirectStarts \/ DirectCommits \/ DirectEnds \/ V2Commits \/ SourceApplies
  \/ SourceCommitsOffset \/ ListenerStops \/ TargetApplies

-----------------------------------------------------------------------------
(* Kafka Connect and the projection of authentication. *)

beside == <<dbVars, appVars, elsewhere>>

Produce(c) ==
  /\ conn[c] \in {"running", "stopping"}
  /\ pos[c] < Len(log)
  /\ pos' = [pos EXCEPT ![c] = @ + 1]
  /\ IF log[pos[c] + 1] = Marker
     THEN seen' = seen \cup {c} /\ UNCHANGED topic
     ELSE /\ UNCHANGED seen
          /\ topic' = [topic EXCEPT ![c] = Append(@, log[pos[c] + 1])]
  /\ UNCHANGED <<conn, restarts, done, sinksUp, beside>>

(* A task that dies is started again from what it flushed last. *)
TaskRestarts(c) ==
  /\ conn[c] \in {"running", "stopping"} /\ restarts < MaxRestarts
  /\ \E flushed \in 0..(pos[c] - 1) : pos' = [pos EXCEPT ![c] = flushed]
  /\ restarts' = restarts + 1
  /\ UNCHANGED <<conn, seen, topic, done, sinksUp, beside>>

(* Stopping flushes: the GTIDs of a stopped connector are what it produced. *)
Stops(c) ==
  /\ conn[c] = "stopping"
  /\ conn' = [conn EXCEPT ![c] = "stopped"]
  /\ UNCHANGED <<pos, seen, restarts, topic, done, sinksUp, beside>>

(* super_read_only keeps the sinks out as well. *)
SinkApplies(s) ==
  /\ s \in sinksUp /\ tgt # "fenced"
  /\ done[s] < Len(topic[s])
  /\ done' = [done EXCEPT ![s] = @ + 1]
  /\ rows' = [rows EXCEPT ![s] = topic[s][done[s] + 1]]
  /\ UNCHANGED <<src, tgt, route, log, acked, conn, pos, seen, restarts, topic, sinksUp,
                 appVars, elsewhere>>

Streams ==
  \/ \E c \in Connectors : Produce(c) \/ TaskRestarts(c) \/ Stops(c)
  \/ \E s \in Connectors : SinkApplies(s)

-----------------------------------------------------------------------------
(* The controller of the Kafka host: b-integration383-cutover.py. *)

Validating == clock < 4   \* before at + 45 s

kcKeeps == <<dbVars, pos, seen, restarts, topic, done, appVars, ctlVars, orch, copy, clock>>

(* The marker arrived through both connectors, so did the start; the group of *)
(* the requests has its offsets; both connectors are asked to stop.           *)
StopSources ==
  /\ kc = "markers"
  /\ seen = Connectors /\ clock >= 2 /\ Validating
  /\ conn' = [c \in Connectors |-> IF conn[c] = "running" THEN "stopping" ELSE conn[c]]
  /\ kc' = "stopping"
  /\ UNCHANGED <<kcKeeps, sinksUp, proofVars>>

\* Faulty: the connectors are asked to stop, not waited for.
FreezeTailsRunning ==
  /\ kc = "stopping" /\ Validating
  /\ tails' = [s \in Connectors |-> Len(topic[s])]
  /\ kc' = "tails"
  /\ UNCHANGED <<kcKeeps, conn, sinksUp, proof>>

(* Both STOPPED, with their flushed GTIDs: what is in the topics is final. *)
FreezeTails ==
  /\ kc = "stopping" /\ Validating
  /\ \A c \in Connectors : conn[c] = "stopped"
  /\ tails' = [s \in Connectors |-> Len(topic[s])]
  /\ kc' = "tails"
  /\ UNCHANGED <<kcKeeps, conn, sinksUp, proof>>

Caught ==
  /\ kc = "tails" /\ Validating
  /\ done = tails
  /\ sinksUp' = sinksUp \ {"trips"}
  /\ kc' = "publish"
  /\ UNCHANGED <<kcKeeps, conn, proofVars>>

(* Published, and perhaps not known to be. *)
PublishProof ==
  /\ kc = "publish"
  /\ proof' = [equal |-> TRUE, gtids |-> pos, inTime |-> Validating, sent |-> TRUE]
  /\ kc' = "end"
  /\ UNCHANGED <<kcKeeps, conn, sinksUp, tails>>

(* A BoundaryError, or its own deadline: the failure is published. *)
PublishFailure ==
  /\ kc \in {"markers", "stopping", "tails"}
  /\ proof' = [NoProof EXCEPT !.sent = TRUE]
  /\ kc' = "end"
  /\ UNCHANGED <<kcKeeps, conn, sinksUp, tails>>

Boundary == StopSources \/ FreezeTails \/ Caught \/ PublishProof \/ PublishFailure

-----------------------------------------------------------------------------
(* The controller of the source's host: wait_cdc_watermark and `fence`. *)

outside == <<streamVars, kc, proofVars, orch, copy>>
Ctl(from, to) == ctl = from /\ ctl' = to
(* The time of the other controller, whose proof nobody waits for now, is over as well. *)
End(outcome) == ctl' = "end" /\ result' = outcome /\ clock' = 5
Save(p) == phase' = p /\ UNCHANGED <<intent, frozen>>

(* A finite frontier, while the source goes on serving. *)
NoteFrontier ==
  /\ Ctl("ready", "watermark")
  /\ frontier' = [s \in Connectors |-> Len(topic[s])]
  /\ UNCHANGED <<dbVars, appVars, outside, clock, saved, stored, late, result>>

(* The groups passed it before the deadline: the budget starts now. *)
Ready ==
  /\ Ctl("watermark", "fence")
  /\ clock = 0 /\ clock' = 2
  /\ \A s \in Connectors : done[s] >= frontier[s]
  /\ frontier' = [s \in Connectors |-> 0]
  /\ UNCHANGED <<dbVars, appVars, outside, saved, stored, late, result>>

\* Faulty: only the listener is waited for.
DrainedListener ==
  /\ Ctl("drain", "readOnly")
  /\ fencing /\ consumer = "none"
  /\ Save("source_drained")
  /\ UNCHANGED <<dbVars, appVars, outside, clock, frontier, stored, late, result>>

(* fence_intent is saved, V1 is fenced, requests_queued is saved. *)
FenceApp ==
  /\ Ctl("fence", "drain")
  /\ src = "open" /\ tgt = "readonly"
  /\ fencing' = TRUE
  /\ Save("requests_queued")
  /\ UNCHANGED <<dbVars, active, offset, journal, times, consumer, taken, outside, clock,
                 frontier, stored, late, result>>

Drained ==
  /\ Ctl("drain", "readOnly")
  /\ fencing /\ ~active /\ consumer = "none"
  /\ Save("source_drained")
  /\ UNCHANGED <<dbVars, appVars, outside, clock, frontier, stored, late, result>>

DrainFails ==
  /\ ctl = "drain" /\ clock >= 3
  /\ Save("write_drain_failed")
  /\ End("failed")
  /\ UNCHANGED <<dbVars, appVars, outside, frontier, stored, late>>

SetReadOnly ==
  /\ Ctl("readOnly", "marker")
  /\ src' = "readonly"
  /\ phase' = "source_read_only" /\ frozen' = [frozen EXCEPT !.gtids = Len(log)]
  /\ UNCHANGED <<tgt, route, log, rows, acked, intent, appVars, outside, clock, frontier, stored,
                 late, result>>

InsertMarker ==
  /\ Ctl("marker", "super")
  /\ log' = Append(log, Marker)
  /\ UNCHANGED <<src, tgt, route, rows, acked, appVars, outside, clock, saved, frontier, stored,
                 late, result>>

SetSuperReadOnly ==
  /\ Ctl("super", "proof")
  /\ src' = "fenced"
  /\ phase' = "source_fenced" /\ frozen' = [frozen EXCEPT !.position = Len(log)]
  /\ UNCHANGED <<tgt, route, log, rows, acked, intent, appVars, outside, clock, frontier, stored,
                 late, result>>

-----------------------------------------------------------------------------
(* The proof, and `promote`. *)

ReceiveProof ==
  /\ Ctl("proof", "promote")
  /\ clock < 5
  /\ proof.equal /\ proof.inTime
  /\ stored' = proof
  /\ UNCHANGED <<dbVars, appVars, outside, clock, saved, frontier, late, result>>

(* A proof that says no, or none by at + 47 s. *)
NoValidProof ==
  /\ ctl = "proof"
  /\ clock >= 5 \/ (proof.sent /\ ~(proof.equal /\ proof.inTime))
  /\ End("failed")
  /\ UNCHANGED <<dbVars, appVars, outside, saved, frontier, stored, late>>

PromoteChecks ==
  /\ src = "fenced" /\ tgt = "readonly" /\ phase = "source_fenced"
  /\ stored.equal
  /\ \A c \in Connectors : frozen.gtids <= stored.gtids[c]
  /\ Len(log) = frozen.position

Promise ==
  /\ Ctl("promote", "openTarget")
  /\ PromoteChecks
  /\ phase' = "promotion_intent" /\ intent' = TRUE
  /\ UNCHANGED <<dbVars, frozen, appVars, outside, clock, frontier, stored, late, result>>

PromoteRefused ==
  /\ ctl = "promote"
  /\ ~PromoteChecks
  /\ End("failed")
  /\ UNCHANGED <<dbVars, appVars, outside, saved, frontier, stored, late>>

OpenTarget ==
  /\ Ctl("openTarget", "route")
  /\ tgt' = "open"
  /\ UNCHANGED <<src, route, log, rows, acked, appVars, outside, clock, saved, frontier, stored,
                 late, result>>

RouteToTarget ==
  /\ Ctl("route", "saveSwitched")
  /\ route' = "target"
  /\ UNCHANGED <<src, tgt, log, rows, acked, appVars, outside, clock, saved, frontier, stored,
                 late, result>>

SaveSwitched ==
  /\ Ctl("saveSwitched", "enable")
  /\ Save("switched")
  /\ UNCHANGED <<dbVars, appVars, outside, clock, frontier, stored, late, result>>

(* The file that enables the consumer is there, whether or not it is healthy in time;   *)
(* only a controller that is killed reports nothing.                                    *)
EnableConsumer ==
  /\ ctl = "enable"
  /\ consumer' = "target"
  /\ End("switched") \/ End("failed")
  /\ UNCHANGED <<dbVars, fencing, active, offset, journal, times, taken, outside, saved,
                 frontier, stored, late>>

\* Faulty: nothing bounds the wait for the groups.
NotReadyWaitsOn ==
  /\ ctl = "ready" /\ clock = 1
  /\ End("failed")
  /\ UNCHANGED <<dbVars, appVars, outside, saved, frontier, stored, late>>

(* The deadline for the preparation. *)
NotReady ==
  /\ ctl \in {"ready", "watermark"} /\ clock = 1
  /\ End("failed")
  /\ UNCHANGED <<dbVars, appVars, outside, saved, frontier, stored, late>>

(* A call fails, or all is killed; a statement whose client gave up may still run. *)
CtlFails ==
  /\ ctl # "end"
  /\ late' = IF ctl \in {"openTarget", "route"} THEN {ctl} ELSE {}
  /\ End("failed") \/ (ctl = "enable" /\ End("switched"))
  /\ UNCHANGED <<dbVars, appVars, outside, saved, frontier, stored>>

LateStatement ==
  /\ late # {}
  /\ IF "openTarget" \in late THEN tgt' = "open" /\ UNCHANGED route
                              ELSE route' = "target" /\ UNCHANGED tgt
  /\ late' = {}
  /\ UNCHANGED <<src, log, rows, acked, appVars, outside, clock, ctl, saved, frontier, stored,
                 result>>

Control ==
  \/ NoteFrontier \/ Ready \/ NotReady \/ FenceApp \/ Drained \/ DrainFails
  \/ SetReadOnly \/ InsertMarker \/ SetSuperReadOnly \/ ReceiveProof
  \/ NoValidProof \/ Promise \/ PromoteRefused \/ OpenTarget \/ RouteToTarget \/ SaveSwitched
  \/ EnableConsumer

(* 0: before the latest start; 1: past it; 2: started at `at`; 3, 4, 5: at + 40, 45, 47 s. *)
TimePasses ==
  /\ ctl # "end" /\ clock \in {0, 2, 3, 4}
  /\ clock' = clock + 1
  /\ UNCHANGED <<dbVars, streamVars, appVars, ctlVars, kc, proofVars, orch, copy>>

-----------------------------------------------------------------------------
(* The end of the run: recover-unpromoted, or the way back and resume-source. *)

Orch(from, to) == orch = from /\ orch' = to
orchKeeps == <<ctl, frontier, stored, late, result, kc, proofVars, clock>>

(* stop-consumer, and `stop` for every connector, when the load has ended: it lasts as  *)
(* long as the controller of the Kafka host can wait.                                   *)
StopAll ==
  /\ ctl = "end" /\ kc = "end"
  /\ Orch("wait", IF result = "switched" THEN "park" ELSE "recover")
  /\ consumer' = IF consumer = "target" THEN "none" ELSE consumer
  /\ IF result = "switched" THEN UNCHANGED <<conn, sinksUp>>
     ELSE /\ conn' = [c \in Connectors |-> "stopped"]
          /\ sinksUp' = {}
  /\ UNCHANGED <<dbVars, pos, seen, restarts, topic, done, fencing, active, offset,
                 journal, times, taken, saved, copy, orchKeeps>>

MayRecover ==
  /\ tgt # "open"
  /\ phase \notin {"promotion_intent", "switched"} /\ ~intent
  /\ route = "source"

Recover ==
  /\ Orch("recover", "routeBack")
  /\ MayRecover
  /\ tgt' = "fenced"
  /\ UNCHANGED <<src, route, log, rows, acked, streamVars, appVars, saved, copy, orchKeeps>>

RouteBack ==
  /\ Orch("routeBack", "openSource")
  /\ route' = "source"
  /\ UNCHANGED <<src, tgt, log, rows, acked, streamVars, appVars, saved, copy, orchKeeps>>

OpenSource ==
  /\ Orch("openSource", "saveReopened")
  /\ src' = "open"
  /\ UNCHANGED <<tgt, route, log, rows, acked, streamVars, appVars, saved, copy, orchKeeps>>

(* source_reopened; the run's application goes, the original one is started. *)
SaveReopened ==
  /\ Orch("saveReopened", "end")
  /\ Save("source_reopened")
  /\ fencing' = FALSE /\ active' = FALSE
  /\ consumer' = "none" /\ taken' = FALSE
  /\ UNCHANGED <<dbVars, streamVars, offset, journal, times, copy, orchKeeps>>

(* park-target-pool *)
Park ==
  /\ Orch("park", "snapshot")
  /\ src = "fenced"
  /\ route' = "parked"
  /\ UNCHANGED <<src, tgt, log, rows, acked, streamVars, appVars, saved, copy, orchKeeps>>

(* target-snapshot: no clients are left; fenced before it is dumped. *)
PreserveTarget ==
  /\ Orch("snapshot", "dump")
  /\ tgt' = "fenced"
  /\ UNCHANGED <<src, route, log, rows, acked, streamVars, appVars, saved, copy, orchKeeps>>

DumpTarget ==
  /\ Orch("dump", "restore")
  /\ copy' = rows["trips"]
  /\ UNCHANGED <<dbVars, streamVars, appVars, saved, orchKeeps>>

(* source-restore opens the source, without a binary log, and fences it again. *)
RestoreStarts ==
  /\ Orch("restore", "import")
  /\ src = "fenced" /\ src' = "open"
  /\ UNCHANGED <<tgt, route, log, rows, acked, streamVars, appVars, saved, copy, orchKeeps>>

RestoreEnds ==
  /\ Orch("import", "resume")
  /\ log' = <<copy>> /\ src' = "fenced"
  /\ UNCHANGED <<tgt, route, rows, acked, streamVars, appVars, saved, copy, orchKeeps>>

(* resume-source looks at the flags alone. *)
Resume ==
  /\ Orch("resume", "routeBack")
  /\ tgt # "open"
  /\ tgt' = "fenced"
  /\ UNCHANGED <<src, route, log, rows, acked, streamVars, appVars, saved, copy, orchKeeps>>

OrchFails ==
  /\ orch \notin {"wait", "end"} /\ orch' = "end"
  /\ UNCHANGED <<dbVars, streamVars, appVars, saved, copy, orchKeeps>>

Orchestrate ==
  \/ StopAll \/ Recover \/ RouteBack \/ OpenSource \/ SaveReopened \/ Park
  \/ PreserveTarget \/ DumpTarget \/ RestoreStarts \/ RestoreEnds \/ Resume \/ OrchFails

-----------------------------------------------------------------------------
Next ==
  \/ Application \/ Streams \/ Boundary \/ Control \/ CtlFails \/ LateStatement
  \/ TimePasses \/ Orchestrate

CdcSpec == Init /\ [][Next]_cdcVars

(* Every wait of the two controllers is bounded by the clock. *)
LiveCdcSpec ==
  /\ CdcSpec
  /\ WF_cdcVars(Control) /\ WF_cdcVars(Boundary) /\ WF_cdcVars(TimePasses)

-----------------------------------------------------------------------------
Flags == {"open", "readonly", "fenced"}

(* Every variable has its type. *)
CdcTypeOK ==
  /\ {src, tgt} \subseteq Flags
  /\ route \in {"source", "target", "parked"}
  /\ log \in Seq(Nat) /\ rows \in [Connectors -> Nat] /\ acked \in 0..MaxCommits
  /\ conn \in [Connectors -> {"running", "stopping", "stopped"}]
  /\ pos \in [Connectors -> Nat]
  /\ seen \subseteq Connectors /\ restarts \in 0..MaxRestarts
  /\ topic \in [Connectors -> Seq(Nat)] /\ done \in [Connectors -> Nat] /\ sinksUp \subseteq Connectors
  /\ fencing \in BOOLEAN /\ active \in BOOLEAN
  /\ offset \in 0..MaxRequests
  /\ journal \in [Requests -> Nat] /\ times \in [Requests -> Nat]
  /\ consumer \in {"source", "target", "none"} /\ taken \in BOOLEAN
  /\ ctl \in {"ready", "watermark", "fence", "drain", "readOnly", "marker", "super",
              "proof", "promote", "openTarget", "route", "saveSwitched", "enable",
              "end"}
  /\ kc \in {"markers", "stopping", "tails", "publish", "end"}
  /\ orch \in {"wait", "recover", "routeBack", "openSource", "saveReopened",
               "park", "snapshot", "dump", "restore", "import", "resume", "end"}
  /\ clock \in 0..5
  /\ phase \in {"preflight", "requests_queued", "source_drained",
                "write_drain_failed", "source_read_only", "source_fenced", "promotion_intent",
                "switched", "source_reopened"}
  /\ intent \in BOOLEAN
  /\ frozen \in [gtids : Nat, position : Nat]
  /\ frontier \in [Connectors -> Nat] /\ tails \in [Connectors -> Nat]
  /\ {proof, stored} \subseteq
       [equal : BOOLEAN, gtids : [Connectors -> Nat], inTime : BOOLEAN, sent : BOOLEAN]
  /\ late \subseteq {"openTarget", "route"}
  /\ result \in {"none", "failed", "switched"} /\ copy \in Nat

SourceRow == IF \E i \in DOMAIN log : log[i] # Marker
             THEN LET i == CHOOSE i \in DOMAIN log :
                             log[i] # Marker /\ \A j \in DOMAIN log : j > i => log[j] = Marker
                  IN log[i]
             ELSE 0

(* The database that takes the application's writes has every commit the          *)
(* application ever made, wherever it was made: nothing is left behind by the      *)
(* promotion, nothing by a recovery, nothing by the way back.                      *)
WriterHasEverything ==
  /\ src = "open" /\ route = "source" => SourceRow = acked
  /\ tgt = "open" => \A s \in Connectors : rows[s] = acked

(* The group's offsets are handed over with the database: a trip request takes     *)
(* effect once, in the source or in the target, and no offset passes one that did  *)
(* not.                                                                            *)
RequestsExactlyOnce ==
  \A r \in Requests : times[r] <= 1 /\ (r <= offset => times[r] = 1)

(* "Source not frozen" while the backend still works: no request in service, and   *)
(* no listener, is cut by the fence.                                               *)
FenceSparesRequests ==
  [][src = "open" /\ src' = "readonly" => ~active /\ consumer = "none"]_cdcVars

(* Both controllers end, whatever the application, Kafka or the other one does.    *)
ControllersEnd == <>(ctl = "end" /\ kc = "end")
=============================================================================
