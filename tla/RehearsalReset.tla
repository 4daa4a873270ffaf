--------------------------- MODULE RehearsalReset ---------------------------
(***************************************************************************)
(* The maintenance between two rehearsals                                  *)
(* (src/scripts/staging-rehearsal-reset.py): after a handoff the target is *)
(* the writer; the reset carries its data back to the source, makes the    *)
(* target a replica of it again and lets V1 serve.                         *)
(*                                                                         *)
(* Commands of one reset are sent in any order and any number of times;    *)
(* each may fail, and be killed, between any two of its effects.  A command*)
(* reads its checkpoint before it takes the lock, so `next` may be a       *)
(* command with an old one.  The documents that dump the source and rebuild*)
(* the replica, and the databases, are external.                           *)
(***************************************************************************)
EXTENDS Naturals

CONSTANT MaxCommits   \* commits of the application

ASSUME ResetAssumption == MaxCommits \in Nat

Actions == {"pause", "restore-source", "allow-target-initialize", "resume-source"}

VARIABLES
  src, tgt,           \* "open" (0,0) or "fenced" (1,1)
  srcData, tgtData,   \* commits a database has
  whole,              \* the source's schema is not half imported
  gtid,               \* how many transactions the target's gtid_executed counts
  replica,            \* "none", "running" or "stopped"
  acked,              \* commits of the application, wherever they were made
  app, route,         \* the V1 backend, and where ProxySQL sends it
  journal,            \* the record of the previous handoff: "switched" or "archived"
  manifest,           \* of the preserved target: [data, gtid], or NoManifest
  disk, mirror,       \* state.json, and the phase in active.json
  allowed,            \* initialize-replica may be run
  proof,              \* data that verify-target saw, or NoProof
  cur, next           \* the command that has the lock, and one that will ask for it

dataVars == <<src, tgt, srcData, tgtData, whole, gtid, replica, acked>>
siteVars == <<app, route, journal, manifest, allowed, proof>>
savedVars == <<disk, mirror>>
resetVars == <<dataVars, siteVars, savedVars, cur, next>>

NoManifest == [data |-> {}, gtid |-> 0, ready |-> FALSE]
NoProof == [data |-> {}, ready |-> FALSE]
NoState == [phase |-> "none", backend |-> FALSE, manifest |-> NoManifest]
Idle == [act |-> "none", at |-> "none", st |-> NoState, then |-> "none"]

Init ==
  /\ src = "fenced" /\ tgt = "open"
  /\ \E old \in SUBSET {1} : acked = {1} /\ srcData = old /\ tgtData = {1}
  /\ whole = TRUE /\ gtid = 1 /\ replica = "none"
  /\ app = "up" /\ route = "target" /\ journal = "switched"
  /\ manifest = NoManifest /\ allowed = FALSE /\ proof = NoProof
  /\ disk = NoState /\ mirror = "none"
  /\ cur = Idle /\ next = Idle

-----------------------------------------------------------------------------
(* The application and replication. *)

Commit ==
  /\ app = "up"
  /\ \E n \in 1..MaxCommits :
       /\ n \notin acked
       /\ acked' = acked \cup {n}
       /\ \/ /\ route = "source" /\ src = "open"
             /\ srcData' = srcData \cup {n}
             /\ UNCHANGED <<tgtData, gtid>>
          \/ /\ route = "target" /\ tgt = "open"
             /\ tgtData' = tgtData \cup {n} /\ gtid' = gtid + 1
             /\ UNCHANGED srcData
  /\ UNCHANGED <<src, tgt, whole, replica, siteVars, savedVars, cur, next>>

Replicate ==
  /\ replica = "running" /\ whole /\ tgtData # srcData
  /\ tgtData' = srcData /\ gtid' = gtid + 1
  /\ UNCHANGED <<src, tgt, srcData, whole, replica, acked, siteVars, savedVars, cur, next>>

(* A backend that stops on its own. *)
AppStops ==
  /\ app = "up" /\ app' = "down"
  /\ UNCHANGED <<dataVars, route, journal, manifest, allowed, proof, savedVars, cur, next>>

-----------------------------------------------------------------------------
(* A command: the checkpoint, then the lock, which nobody waits for. *)

Ask(a) ==
  /\ next = Idle
  /\ next' = [act |-> a, at |-> "begin", st |-> disk, then |-> "none"]
  /\ UNCHANGED <<dataVars, siteVars, savedVars, cur>>

Acquire ==
  /\ next # Idle
  /\ cur' = IF cur = Idle THEN next ELSE cur
  /\ next' = Idle
  /\ UNCHANGED <<dataVars, siteVars, savedVars>>

At(a, where) == cur.act = a /\ cur.at = where
Goto(where) == cur' = [cur EXCEPT !.at = where]
Ends == cur' = Idle

(* save(): the checkpoint of this reset, then the mirror all resets share. *)
Save(state, where) ==
  /\ disk' = state
  /\ cur' = [cur EXCEPT !.st = state, !.at = "mirror", !.then = where]
  /\ UNCHANGED mirror

SaveMirror ==
  /\ cur.at = "mirror"
  /\ mirror' = cur.st.phase
  /\ IF cur.then = "end" THEN Ends ELSE Goto(cur.then)
  /\ UNCHANGED <<dataVars, siteVars, disk, next>>

Phase(p) == [cur.st EXCEPT !.phase = p]
Others == cur.st.backend /\ app = "down"   \* 'BE must remain stopped during reset'

-----------------------------------------------------------------------------
(* pause *)

Pause ==
  /\ At("pause", "begin")
  /\ cur.st.phase # "completed"
  /\ IF cur.st.backend
     THEN Goto("stop") /\ UNCHANGED savedVars
     ELSE /\ journal = "switched" /\ src = "fenced" /\ tgt = "open" /\ app = "up"
          /\ Save([Phase("pause_intent") EXCEPT !.backend = TRUE], "stop")
  /\ UNCHANGED <<dataVars, siteVars, next>>

StopBackend ==
  /\ At("pause", "stop")
  /\ app' = "down"
  /\ Goto("fence")
  /\ UNCHANGED <<dataVars, route, journal, manifest, allowed, proof, savedVars, next>>

FenceTarget ==
  /\ At("pause", "fence") \/ At("resume-source", "fence")
  /\ tgt' = "fenced"
  /\ Goto(IF cur.act = "pause" THEN "park" ELSE "checks")
  /\ UNCHANGED <<src, srcData, tgtData, whole, gtid, replica, acked, siteVars, savedVars, next>>

ParkTarget ==
  /\ At("pause", "park")
  /\ route' = IF route = "target" THEN "parked" ELSE route
  /\ Goto("save")
  /\ UNCHANGED <<dataVars, app, journal, manifest, allowed, proof, savedVars, next>>

SavePaused ==
  /\ At("pause", "save")
  /\ Save(Phase("paused"), "end")
  /\ UNCHANGED <<dataVars, siteVars, next>>

-----------------------------------------------------------------------------
(* snapshot-target, verify-target: on the target's host, with a state of its own. *)

SnapshotTarget ==
  /\ tgt = "fenced" /\ ~manifest.ready
  /\ manifest' = [data |-> tgtData, gtid |-> gtid, ready |-> TRUE]
  /\ UNCHANGED <<dataVars, app, route, journal, allowed, proof, savedVars, cur, next>>

VerifyTarget ==
  /\ replica = "running"
  /\ tgt' = "fenced"
  /\ proof' = [data |-> tgtData, ready |-> TRUE]
  /\ UNCHANGED <<src, srcData, tgtData, whole, gtid, replica, acked, app, route, journal,
                 manifest, allowed, savedVars, cur, next>>

-----------------------------------------------------------------------------
(* restore-source *)

Restore ==
  /\ At("restore-source", "begin") /\ Others
  /\ cur.st.phase \in {"paused", "restore_intent", "source_restored"}
  /\ tgt = "fenced"
  /\ manifest.ready /\ gtid = manifest.gtid
  /\ Save([Phase("restore_intent") EXCEPT !.manifest = manifest], "open")
  /\ UNCHANGED <<dataVars, siteVars, next>>

\* Faulty: the source is opened for the import whatever its flags are.
OpenAnySource ==
  /\ At("restore-source", "open")
  /\ src' = "open"
  /\ Goto("drop")
  /\ UNCHANGED <<tgt, srcData, tgtData, whole, gtid, replica, acked, siteVars, savedVars, next>>

OpenForImport ==
  /\ At("restore-source", "open")
  /\ src = "fenced"
  /\ src' = "open"
  /\ Goto("drop")
  /\ UNCHANGED <<tgt, srcData, tgtData, whole, gtid, replica, acked, siteVars, savedVars, next>>

DropSchema ==
  /\ At("restore-source", "drop")
  /\ srcData' = {} /\ whole' = FALSE
  /\ Goto("import")
  /\ UNCHANGED <<src, tgt, tgtData, gtid, replica, acked, siteVars, savedVars, next>>

Import ==
  /\ At("restore-source", "import")
  /\ srcData' = cur.st.manifest.data /\ whole' = TRUE
  /\ Goto("refence")
  /\ UNCHANGED <<src, tgt, tgtData, gtid, replica, acked, siteVars, savedVars, next>>

(* The `finally` of the import. *)
RefenceSource ==
  /\ cur.act = "restore-source" /\ cur.at \in {"drop", "import", "refence"}
  /\ src' = "fenced"
  /\ IF cur.at = "refence" THEN Goto("compare") ELSE Ends
  /\ UNCHANGED <<tgt, srcData, tgtData, whole, gtid, replica, acked, siteVars, savedVars, next>>

SaveRestored ==
  /\ At("restore-source", "compare")
  /\ whole /\ srcData = cur.st.manifest.data
  /\ Save(Phase("source_restored"), "end")
  /\ UNCHANGED <<dataVars, siteVars, next>>

-----------------------------------------------------------------------------
(* allow-target-initialize, and the document that it allows. *)

AllowInitialize ==
  /\ At("allow-target-initialize", "begin") /\ Others
  /\ cur.st.phase = "source_restored" /\ src = "fenced"
  /\ tgt' = "fenced"
  /\ IF gtid = cur.st.manifest.gtid THEN allowed' = TRUE ELSE UNCHANGED allowed
  /\ Ends
  /\ UNCHANGED <<src, srcData, tgtData, whole, gtid, replica, acked, app, route, journal,
                 manifest, proof, savedVars, next>>

(* It imports without a binary log and "never rewrites gtid_purged". *)
InitializeReplica ==
  /\ allowed /\ allowed' = FALSE
  /\ tgt = "fenced" /\ whole
  /\ tgtData' = srcData /\ replica' = "running"
  /\ UNCHANGED <<src, tgt, srcData, whole, gtid, acked, app, route, journal, manifest, proof,
                 savedVars, cur, next>>

-----------------------------------------------------------------------------
(* resume-source *)

Resume ==
  /\ At("resume-source", "begin") /\ Others
  /\ cur.st.phase \in {"source_restored", "resume_intent"}
  /\ Goto("fence")
  /\ UNCHANGED <<dataVars, siteVars, savedVars, next>>

ResumeChecks ==
  /\ At("resume-source", "checks")
  /\ replica = "running"
  /\ whole /\ srcData = cur.st.manifest.data
  /\ proof.ready /\ proof.data = cur.st.manifest.data
  /\ replica' \in {"running", "stopped"}   \* --stop-replica-before-resume
  /\ Goto("intent")
  /\ UNCHANGED <<src, tgt, srcData, tgtData, whole, gtid, acked, siteVars, savedVars, next>>

SaveResume ==
  /\ At("resume-source", "intent")
  /\ Save(Phase("resume_intent"), "route")
  /\ UNCHANGED <<dataVars, siteVars, next>>

RouteToSource ==
  /\ At("resume-source", "route")
  /\ route' = "source"
  /\ Goto("open")
  /\ UNCHANGED <<dataVars, app, journal, manifest, allowed, proof, savedVars, next>>

OpenSource ==
  /\ At("resume-source", "open")
  /\ src' = "open"
  /\ Goto("archive")
  /\ UNCHANGED <<tgt, srcData, tgtData, whole, gtid, replica, acked, siteVars, savedVars, next>>

\* Faulty: the record of the previous handoff stays where it is.
ArchiveCopy ==
  /\ At("resume-source", "archive")
  /\ Goto("start")
  /\ UNCHANGED <<dataVars, siteVars, savedVars, next>>

ArchiveJournal ==
  /\ At("resume-source", "archive")
  /\ journal' = "archived"
  /\ Goto("start")
  /\ UNCHANGED <<dataVars, app, route, manifest, allowed, proof, savedVars, next>>

StartBackend ==
  /\ At("resume-source", "start")
  /\ app' = "up"
  /\ Goto("health")
  /\ UNCHANGED <<dataVars, route, journal, manifest, allowed, proof, savedVars, next>>

SaveCompleted ==
  /\ At("resume-source", "health")
  /\ app = "up"
  /\ Save(Phase("completed"), "end")
  /\ UNCHANGED <<dataVars, siteVars, next>>

-----------------------------------------------------------------------------
(* A check or a call fails; the import's own failure is RefenceSource. *)
Fail ==
  /\ cur # Idle
  /\ ~(cur.act = "restore-source" /\ cur.at \in {"drop", "import", "refence"})
  /\ Ends
  /\ UNCHANGED <<dataVars, siteVars, savedVars, next>>

(* The process is killed: no `finally`. *)
Die ==
  /\ cur # Idle
  /\ Ends
  /\ UNCHANGED <<dataVars, siteVars, savedVars, next>>

(* "keep both DBs fenced": the operator's part after an import that was killed. *)
OperatorFences ==
  /\ cur = Idle /\ src = "open" /\ ~whole
  /\ src' = "fenced"
  /\ UNCHANGED <<tgt, srcData, tgtData, whole, gtid, replica, acked, siteVars, savedVars, cur, next>>

Command ==
  \/ Acquire \/ SaveMirror \/ Pause \/ StopBackend \/ FenceTarget \/ ParkTarget \/ SavePaused
  \/ Restore \/ OpenForImport \/ DropSchema \/ Import \/ RefenceSource \/ SaveRestored
  \/ AllowInitialize \/ Resume \/ ResumeChecks \/ SaveResume \/ RouteToSource \/ OpenSource
  \/ ArchiveJournal \/ StartBackend \/ SaveCompleted \/ Fail \/ Die

Next ==
  \/ Commit \/ Replicate \/ AppStops
  \/ \E a \in Actions : Ask(a)
  \/ Command \/ SnapshotTarget \/ VerifyTarget \/ InitializeReplica \/ OperatorFences

ResetSpec == Init /\ [][Next]_resetVars

-----------------------------------------------------------------------------
(* The database that V1 is served from has every commit V1 was ever told was made,  *)
(* through imports that are killed, checkpoints that are stale, and commands that   *)
(* are repeated; it never sees a schema that is half imported.                      *)
ServedDataComplete ==
  app = "up" =>
    /\ route = "source" /\ src = "open" => whole /\ acked \subseteq srcData
    /\ route = "target" /\ tgt = "open" => acked \subseteq tgtData

(* What lets the other tools in - the mirror says "completed" - is saved last: the   *)
(* source is the writer and complete, the target fenced, and the record of the old   *)
(* handoff is out of the way; V1 never writes to the source beside that record.      *)
CompletedMeansReset ==
  /\ mirror = "completed" =>
       /\ src = "open" /\ whole /\ route = "source" /\ tgt = "fenced"
       /\ acked \subseteq srcData
  /\ app = "up" /\ route = "source" => journal = "archived"
=============================================================================
