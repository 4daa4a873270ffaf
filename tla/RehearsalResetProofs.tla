------------------------- MODULE RehearsalResetProofs -------------------------
(***************************************************************************)
(* Proofs about RehearsalReset, for any number of commits and commands:    *)
(* V1 is served from complete data, and "completed" says the truth.        *)
(***************************************************************************)
EXTENDS RehearsalReset, TLAPS

-----------------------------------------------------------------------------
(* The inductive invariant. *)

Manifests == [data : SUBSET Nat, gtid : Nat, ready : BOOLEAN]
Late == {"restore_intent", "source_restored", "resume_intent", "completed"}
States == [phase : {"none", "pause_intent", "paused"} \cup Late, backend : BOOLEAN,
           manifest : Manifests]
Places == {"none", "begin", "mirror", "end", "stop", "fence", "park", "save", "open", "drop",
           "import", "refence", "compare", "checks", "intent", "route", "archive", "start",
           "health"}
Commands == [act : Actions \cup {"none"}, at : Places, st : States, then : Places]

\* Every variable has its type.
DataType ==
  /\ src \in {"open", "fenced"} /\ tgt \in {"open", "fenced"}
  /\ srcData \subseteq Nat /\ tgtData \subseteq Nat /\ acked \subseteq Nat
  /\ whole \in BOOLEAN /\ gtid \in Nat /\ replica \in {"none", "running", "stopped"}
SiteType ==
  /\ app \in {"up", "down"} /\ route \in {"source", "target", "parked"}
  /\ journal \in {"switched", "archived"} /\ allowed \in BOOLEAN
  /\ manifest \in Manifests /\ proof \in [data : SUBSET Nat, ready : BOOLEAN]
CommandType ==
  /\ disk \in States /\ mirror \in {"none", "pause_intent", "paused"} \cup Late
  /\ cur \in Commands /\ next \in Commands
ResetTypeOK == DataType /\ SiteType /\ CommandType

\* A command that waits for the lock has done nothing.
Waiting == next = Idle \/ next.at = "begin"

\* From restore_intent on, a checkpoint holds the manifest of the preserved target.
StateOK(st) == st.phase \in Late => manifest.ready /\ st.manifest = manifest
Checkpoints == StateOK(disk) /\ StateOK(cur.st) /\ StateOK(next.st)

\* The source has all commits and serves; nothing but a commit changes that any more,
\* because an import begins with a source that is fenced.
Importing == cur.act = "restore-source" /\ cur.at \in {"drop", "import", "refence"}
Done ==
  /\ src = "open" /\ whole /\ route = "source" /\ tgt = "fenced" /\ manifest.ready
  /\ acked \subseteq srcData /\ ~Importing

\* Until then all commits are in the target, and in its manifest once there is one.
Preserved ==
  /\ ~manifest.ready => acked \subseteq tgtData /\ replica = "none" /\ ~allowed
  /\ tgt = "open" => ~manifest.ready /\ route = "target"
  /\ manifest.ready => acked \subseteq manifest.data \/ Done

Up == app = "up" => tgt = "open" \/ (Done /\ journal = "archived")

\* What the command with the lock may rely on, from its next step.
Where == IF cur.at = "mirror" THEN cur.then ELSE cur.at
Positions ==
  /\ cur.act \in {"none", "allow-target-initialize"} => cur.at \in {"none", "begin"}
  /\ cur.act = "pause" => Where \in {"begin", "stop", "fence", "park", "save", "end"}
  /\ cur.act = "restore-source" =>
       Where \in {"begin", "open", "drop", "import", "refence", "compare", "end"}
  /\ cur.act = "resume-source" =>
       Where \in {"begin", "fence", "checks", "intent", "route", "open", "archive", "start",
                  "health", "end"}
Pausing ==
  cur.act = "pause" =>
    /\ cur.at \in {"fence", "park", "save"} => app = "down"
    /\ cur.at \in {"park", "save"} => tgt = "fenced"
    /\ cur.at = "mirror" => cur.st.phase # "completed" /\ cur.then \in {"stop", "end"}
Restoring ==
  cur.act = "restore-source" /\ cur.at # "begin" =>
    /\ app = "down" /\ cur.st.phase \in Late
    /\ cur.at = "mirror" => cur.st.phase # "completed" /\ cur.then \in {"open", "end"}
Resuming ==
  cur.act = "resume-source" =>
    /\ Where # "begin" => cur.st.phase \in Late
    /\ Where \in {"fence", "checks", "intent", "route", "open", "archive", "start"} =>
         app = "down"
    /\ Where \in {"intent", "route", "open"} => whole /\ acked \subseteq srcData
    /\ Where = "open" => route = "source"
    /\ Where \in {"archive", "start", "health", "end"} => Done
    /\ Where \in {"start", "health"} => journal = "archived"
    /\ cur.at = "mirror" /\ cur.st.phase = "completed" => cur.then = "end"

Mirrored == mirror = "completed" => Done

RInv ==
  /\ ResetTypeOK /\ Waiting /\ Checkpoints /\ Preserved /\ Up
  /\ Positions /\ Pausing /\ Restoring /\ Resuming /\ Mirrored

-----------------------------------------------------------------------------
(* It is inductive. *)

\* What a checkpoint, and a command that moves on or saves one, look like afterwards.
LEMMA PhaseOf ==
  ASSUME NEW st \in States, NEW p \in {"none", "pause_intent", "paused"} \cup Late,
         NEW s, s = [st EXCEPT !.phase = p]
  PROVE  s \in States /\ s.phase = p /\ s.manifest = st.manifest
BY DEF States

LEMMA Saved ==
  ASSUME CommandType, NEW st \in States, NEW w \in Places, Save(st, w)
  PROVE  /\ disk' = st /\ cur' \in Commands /\ cur'.act = cur.act /\ cur'.at = "mirror"
         /\ cur'.st = st /\ cur'.then = w /\ UNCHANGED mirror
BY DEF Save, CommandType, Commands, Places

LEMMA Moved ==
  ASSUME CommandType, NEW w \in Places, Goto(w)
  PROVE  /\ cur' \in Commands /\ cur'.act = cur.act /\ cur'.at = w
         /\ cur'.st = cur.st /\ cur'.then = cur.then
BY DEF Goto, CommandType, Commands

LEMMA IdleType == NoState \in States /\ NoManifest \in Manifests /\ Idle \in Commands
<1>1. NoState \in States /\ NoManifest \in Manifests
  BY DEF NoState, NoManifest, States, Manifests, Late
<1>2. QED
  BY <1>1 DEF Idle, Commands, Places, Actions

LEMMA RInvInit == Init => RInv
<1> SUFFICES ASSUME Init PROVE RInv
  OBVIOUS
<1>1. DataType
  BY DEF Init, DataType
<1>2. SiteType
  BY IdleType DEF Init, SiteType, NoProof
<1>3. CommandType
  BY IdleType DEF Init, CommandType
<1>4. Waiting /\ Checkpoints /\ Preserved /\ Up
  BY DEF Init, Waiting, Checkpoints, StateOK, Late, Preserved, Up, Idle, NoState, NoManifest
<1>5. Positions /\ Pausing /\ Restoring /\ Resuming /\ Mirrored
  BY DEF Init, Positions, Pausing, Restoring, Resuming, Mirrored, Where, Idle
<1>6. QED
  BY <1>1, <1>2, <1>3, <1>4, <1>5 DEF RInv, ResetTypeOK

LEMMA StepWorld ==
  ASSUME RInv, Commit \/ Replicate \/ AppStops \/ SnapshotTarget \/ VerifyTarget \/ InitializeReplica \/ OperatorFences
  PROVE  RInv'
<1> USE IdleType DEF dataVars, siteVars, savedVars, At, Goto, Ends, Save, Phase, Others
<1>a. /\ DataType /\ SiteType /\ CommandType
      /\ Waiting /\ Checkpoints /\ Preserved /\ Up /\ Positions
      /\ Pausing /\ Restoring /\ Resuming /\ Mirrored
  BY DEF RInv, ResetTypeOK
<1>1. ASSUME Commit PROVE RInv'
  <2>0. Done => Done'
    BY <1>a, <1>1 DEF Commit, Done, Importing, Resuming, Where, Positions, Waiting, Late,
         Idle, Checkpoints, StateOK, Preserved, Restoring, CommandType, Commands
  <2>1. DataType'
    <3>1. PICK n \in 1..MaxCommits :
               /\ acked' = acked \cup {n}
               /\ \/ srcData' = srcData \cup {n} /\ UNCHANGED <<tgtData, gtid>>
                  \/ tgtData' = tgtData \cup {n} /\ gtid' = gtid + 1 /\ UNCHANGED srcData
      BY <1>1 DEF Commit
    <3>2. n \in Nat /\ UNCHANGED <<src, tgt, whole, replica>>
      BY <1>1, ResetAssumption DEF Commit
    <3>3. acked' \subseteq Nat
      BY <1>a, <3>1, <3>2 DEF DataType
    <3>4. srcData' \subseteq Nat /\ tgtData' \subseteq Nat /\ gtid' \in Nat
      <4>1. CASE srcData' = srcData \cup {n} /\ UNCHANGED <<tgtData, gtid>>
        BY <1>a, <4>1, <3>2 DEF DataType
      <4>2. CASE tgtData' = tgtData \cup {n} /\ gtid' = gtid + 1 /\ UNCHANGED srcData
        <5>1. tgtData' \subseteq Nat
          BY <1>a, <4>2, <3>2 DEF DataType
        <5>2. QED
          BY <1>a, <4>2, <5>1 DEF DataType
      <4>3. QED
        BY <3>1, <4>1, <4>2
    <3>5. QED
      BY <1>a, <3>2, <3>3, <3>4 DEF DataType
  <2>2. SiteType'
    BY <1>a, <1>1 DEF Commit, SiteType
  <2>3. CommandType'
    BY <1>a, <1>1 DEF Commit, CommandType, Commands
  <2>4. Waiting'
    BY <1>a, <1>1 DEF Commit, Waiting
  <2>5. Checkpoints'
    BY <1>a, <1>1 DEF Commit, Checkpoints, StateOK
  <2>6. Preserved'
    BY <1>a, <1>1, <2>0 DEF Commit, Preserved, Done, Importing, Up, DataType
  <2>7. Up'
    BY <1>a, <1>1, <2>0 DEF Commit, Up, Done
  <2>8. Positions'
    BY <1>a, <1>1 DEF Commit, Positions, Where
  <2>9. Pausing'
    BY <1>a, <1>1 DEF Commit, Pausing
  <2>10. Restoring'
    BY <1>a, <1>1 DEF Commit, Restoring
  <2>11. Resuming'
    BY <1>a, <1>1, <2>0 DEF Commit, Resuming, Where, Done
  <2>12. Mirrored'
    BY <1>a, <1>1, <2>0 DEF Commit, Mirrored, Done
  <2>13. QED
    BY <2>1, <2>2, <2>3, <2>4, <2>5, <2>6, <2>7, <2>8, <2>9, <2>10, <2>11, <2>12 DEF RInv,
         ResetTypeOK
<1>2. ASSUME Replicate PROVE RInv'
  <2>0. Done => Done'
    BY <1>a, <1>2 DEF Replicate, Done, Importing, Resuming, Where, Positions, Waiting, Late,
         Idle, Checkpoints, StateOK, Preserved, Restoring, CommandType, Commands
  <2>1. DataType'
    BY <1>a, <1>2 DEF Replicate, DataType
  <2>2. SiteType'
    BY <1>a, <1>2 DEF Replicate, SiteType
  <2>3. CommandType'
    BY <1>a, <1>2 DEF Replicate, CommandType, Commands
  <2>4. Waiting'
    BY <1>a, <1>2 DEF Replicate, Waiting
  <2>5. Checkpoints'
    BY <1>a, <1>2 DEF Replicate, Checkpoints, StateOK
  <2>6. Preserved'
    BY <1>a, <1>2, <2>0 DEF Replicate, Preserved, Done
  <2>7. Up'
    BY <1>a, <1>2, <2>0 DEF Replicate, Up, Done
  <2>8. Positions'
    BY <1>a, <1>2 DEF Replicate, Positions, Where
  <2>9. Pausing'
    BY <1>a, <1>2 DEF Replicate, Pausing
  <2>10. Restoring'
    BY <1>a, <1>2 DEF Replicate, Restoring
  <2>11. Resuming'
    BY <1>a, <1>2, <2>0 DEF Replicate, Resuming, Where, Done
  <2>12. Mirrored'
    BY <1>a, <1>2, <2>0 DEF Replicate, Mirrored, Done
  <2>13. QED
    BY <2>1, <2>2, <2>3, <2>4, <2>5, <2>6, <2>7, <2>8, <2>9, <2>10, <2>11, <2>12 DEF RInv,
         ResetTypeOK
<1>3. ASSUME AppStops PROVE RInv'
  <2>0. Done => Done'
    BY <1>a, <1>3 DEF AppStops, Done, Importing, Resuming, Where, Positions, Waiting, Late,
         Idle, Checkpoints, StateOK, Preserved, Restoring, CommandType, Commands
  <2>1. DataType'
    BY <1>a, <1>3 DEF AppStops, DataType
  <2>2. SiteType'
    BY <1>a, <1>3 DEF AppStops, SiteType
  <2>3. CommandType'
    BY <1>a, <1>3 DEF AppStops, CommandType, Commands
  <2>4. Waiting'
    BY <1>a, <1>3 DEF AppStops, Waiting
  <2>5. Checkpoints'
    BY <1>a, <1>3 DEF AppStops, Checkpoints, StateOK
  <2>6. Preserved'
    BY <1>a, <1>3, <2>0 DEF AppStops, Preserved, Done
  <2>7. Up'
    BY <1>a, <1>3 DEF AppStops, Up
  <2>8. Positions'
    BY <1>a, <1>3 DEF AppStops, Positions, Where
  <2>9. Pausing'
    BY <1>a, <1>3 DEF AppStops, Pausing
  <2>10. Restoring'
    BY <1>a, <1>3 DEF AppStops, Restoring
  <2>11. Resuming'
    BY <1>a, <1>3, <2>0 DEF AppStops, Resuming, Where, Done
  <2>12. Mirrored'
    BY <1>a, <1>3, <2>0 DEF AppStops, Mirrored, Done
  <2>13. QED
    BY <2>1, <2>2, <2>3, <2>4, <2>5, <2>6, <2>7, <2>8, <2>9, <2>10, <2>11, <2>12 DEF RInv,
         ResetTypeOK
<1>4. ASSUME SnapshotTarget PROVE RInv'
  <2>0. Done => Done'
    BY <1>a, <1>4 DEF SnapshotTarget, Done, Importing, Resuming, Where, Positions, Waiting,
         Late, Idle, Checkpoints, StateOK, Preserved, Restoring, CommandType, Commands
  <2>1. DataType'
    BY <1>a, <1>4 DEF SnapshotTarget, DataType
  <2>2. SiteType'
    BY <1>a, <1>4 DEF SnapshotTarget, SiteType, Manifests, DataType
  <2>3. CommandType'
    BY <1>a, <1>4 DEF SnapshotTarget, CommandType, Commands
  <2>4. Waiting'
    BY <1>a, <1>4 DEF SnapshotTarget, Waiting
  <2>5. Checkpoints'
    BY <1>a, <1>4 DEF SnapshotTarget, Checkpoints, StateOK
  <2>6. Preserved'
    BY <1>a, <1>4 DEF SnapshotTarget, Preserved
  <2>7. Up'
    BY <1>a, <1>4, <2>0 DEF SnapshotTarget, Up, Done
  <2>8. Positions'
    BY <1>a, <1>4 DEF SnapshotTarget, Positions, Where
  <2>9. Pausing'
    BY <1>a, <1>4 DEF SnapshotTarget, Pausing
  <2>10. Restoring'
    BY <1>a, <1>4 DEF SnapshotTarget, Restoring
  <2>11. Resuming'
    BY <1>a, <1>4, <2>0 DEF SnapshotTarget, Resuming, Where, Done
  <2>12. Mirrored'
    BY <1>a, <1>4, <2>0 DEF SnapshotTarget, Mirrored, Done
  <2>13. QED
    BY <2>1, <2>2, <2>3, <2>4, <2>5, <2>6, <2>7, <2>8, <2>9, <2>10, <2>11, <2>12 DEF RInv,
         ResetTypeOK
<1>5. ASSUME VerifyTarget PROVE RInv'
  <2>0. Done => Done'
    BY <1>a, <1>5 DEF VerifyTarget, Done, Importing, Resuming, Where, Positions, Waiting,
         Late, Idle, Checkpoints, StateOK, Preserved, Restoring, CommandType, Commands
  <2>1. DataType'
    BY <1>a, <1>5 DEF VerifyTarget, DataType
  <2>2. SiteType'
    BY <1>a, <1>5 DEF VerifyTarget, SiteType, Manifests, DataType
  <2>3. CommandType'
    BY <1>a, <1>5 DEF VerifyTarget, CommandType, Commands
  <2>4. Waiting'
    BY <1>a, <1>5 DEF VerifyTarget, Waiting
  <2>5. Checkpoints'
    BY <1>a, <1>5 DEF VerifyTarget, Checkpoints, StateOK
  <2>6. Preserved'
    BY <1>a, <1>5, <2>0 DEF VerifyTarget, Preserved, Done
  <2>7. Up'
    BY <1>a, <1>5, <2>0 DEF VerifyTarget, Up, Preserved, Pausing, Resuming, Where, Done,
         Importing
  <2>8. Positions'
    BY <1>a, <1>5 DEF VerifyTarget, Positions, Where
  <2>9. Pausing'
    BY <1>a, <1>5 DEF VerifyTarget, Pausing
  <2>10. Restoring'
    BY <1>a, <1>5 DEF VerifyTarget, Restoring
  <2>11. Resuming'
    BY <1>a, <1>5, <2>0 DEF VerifyTarget, Resuming, Where, Done
  <2>12. Mirrored'
    BY <1>a, <1>5, <2>0 DEF VerifyTarget, Mirrored, Done
  <2>13. QED
    BY <2>1, <2>2, <2>3, <2>4, <2>5, <2>6, <2>7, <2>8, <2>9, <2>10, <2>11, <2>12 DEF RInv,
         ResetTypeOK
<1>6. ASSUME InitializeReplica PROVE RInv'
  <2>0. Done => Done'
    BY <1>a, <1>6 DEF InitializeReplica, Done, Importing, Resuming, Where, Positions,
         Waiting, Late, Idle, Checkpoints, StateOK, Preserved, Restoring, CommandType,
         Commands
  <2>1. DataType'
    BY <1>a, <1>6 DEF InitializeReplica, DataType
  <2>2. SiteType'
    BY <1>a, <1>6 DEF InitializeReplica, SiteType
  <2>3. CommandType'
    BY <1>a, <1>6 DEF InitializeReplica, CommandType, Commands
  <2>4. Waiting'
    BY <1>a, <1>6 DEF InitializeReplica, Waiting
  <2>5. Checkpoints'
    BY <1>a, <1>6 DEF InitializeReplica, Checkpoints, StateOK
  <2>6. Preserved'
    BY <1>a, <1>6, <2>0 DEF InitializeReplica, Preserved, Done
  <2>7. Up'
    BY <1>a, <1>6, <2>0 DEF InitializeReplica, Up, Done
  <2>8. Positions'
    BY <1>a, <1>6 DEF InitializeReplica, Positions, Where
  <2>9. Pausing'
    BY <1>a, <1>6 DEF InitializeReplica, Pausing
  <2>10. Restoring'
    BY <1>a, <1>6 DEF InitializeReplica, Restoring
  <2>11. Resuming'
    BY <1>a, <1>6, <2>0 DEF InitializeReplica, Resuming, Where, Done
  <2>12. Mirrored'
    BY <1>a, <1>6, <2>0 DEF InitializeReplica, Mirrored, Done
  <2>13. QED
    BY <2>1, <2>2, <2>3, <2>4, <2>5, <2>6, <2>7, <2>8, <2>9, <2>10, <2>11, <2>12 DEF RInv,
         ResetTypeOK
<1>7. ASSUME OperatorFences PROVE RInv'
  <2>0. Done => Done'
    BY <1>a, <1>7 DEF OperatorFences, Done, Importing, Resuming, Where, Positions, Waiting,
         Late, Idle, Checkpoints, StateOK, Preserved, Restoring, CommandType, Commands
  <2>1. DataType'
    BY <1>a, <1>7 DEF OperatorFences, DataType
  <2>2. SiteType'
    BY <1>a, <1>7 DEF OperatorFences, SiteType
  <2>3. CommandType'
    BY <1>a, <1>7 DEF OperatorFences, CommandType, Commands
  <2>4. Waiting'
    BY <1>a, <1>7 DEF OperatorFences, Waiting
  <2>5. Checkpoints'
    BY <1>a, <1>7 DEF OperatorFences, Checkpoints, StateOK
  <2>6. Preserved'
    BY <1>a, <1>7, <2>0 DEF OperatorFences, Preserved, Done
  <2>7. Up'
    BY <1>a, <1>7, <2>0 DEF OperatorFences, Up, Done
  <2>8. Positions'
    BY <1>a, <1>7 DEF OperatorFences, Positions, Where
  <2>9. Pausing'
    BY <1>a, <1>7 DEF OperatorFences, Pausing
  <2>10. Restoring'
    BY <1>a, <1>7 DEF OperatorFences, Restoring
  <2>11. Resuming'
    BY <1>a, <1>7, <2>0 DEF OperatorFences, Resuming, Where, Done
  <2>12. Mirrored'
    BY <1>a, <1>7, <2>0 DEF OperatorFences, Mirrored, Done
  <2>13. QED
    BY <2>1, <2>2, <2>3, <2>4, <2>5, <2>6, <2>7, <2>8, <2>9, <2>10, <2>11, <2>12 DEF RInv,
         ResetTypeOK
<1>8. QED
  BY <1>1, <1>2, <1>3, <1>4, <1>5, <1>6, <1>7

LEMMA StepLock ==
  ASSUME RInv, NEW a \in Actions, Ask(a) \/ Acquire \/ SaveMirror \/ Fail \/ Die
  PROVE  RInv'
<1> USE IdleType DEF dataVars, siteVars, savedVars, At, Goto, Ends, Save, Phase, Others
<1>a. /\ DataType /\ SiteType /\ CommandType
      /\ Waiting /\ Checkpoints /\ Preserved /\ Up /\ Positions
      /\ Pausing /\ Restoring /\ Resuming /\ Mirrored
  BY DEF RInv, ResetTypeOK
<1>1. ASSUME Ask(a) PROVE RInv'
  <2>0. Done => Done'
    BY <1>a, <1>1 DEF Ask, Done, Importing, Resuming, Where, Positions, Waiting, Late, Idle,
         Checkpoints, StateOK, Preserved, Restoring, CommandType, Commands
  <2>1. DataType'
    BY <1>a, <1>1 DEF Ask, DataType
  <2>2. SiteType'
    BY <1>a, <1>1 DEF Ask, SiteType
  <2>3. CommandType'
    BY <1>a, <1>1 DEF Ask, CommandType, SiteType, Commands, States, Places, Late, Actions,
         Idle, NoState, NoManifest, Manifests
  <2>4. Waiting'
    BY <1>a, <1>1 DEF Ask, Waiting
  <2>5. Checkpoints'
    BY <1>a, <1>1 DEF Ask, Checkpoints, StateOK
  <2>6. Preserved'
    BY <1>a, <1>1, <2>0 DEF Ask, Preserved, Done
  <2>7. Up'
    BY <1>a, <1>1, <2>0 DEF Ask, Up, Done
  <2>8. Positions'
    BY <1>a, <1>1 DEF Ask, Positions, Where
  <2>9. Pausing'
    BY <1>a, <1>1 DEF Ask, Pausing
  <2>10. Restoring'
    BY <1>a, <1>1 DEF Ask, Restoring
  <2>11. Resuming'
    BY <1>a, <1>1, <2>0 DEF Ask, Resuming, Where, Done
  <2>12. Mirrored'
    BY <1>a, <1>1, <2>0 DEF Ask, Mirrored, Done
  <2>13. QED
    BY <2>1, <2>2, <2>3, <2>4, <2>5, <2>6, <2>7, <2>8, <2>9, <2>10, <2>11, <2>12 DEF RInv,
         ResetTypeOK
<1>2. ASSUME Acquire PROVE RInv'
  <2>0. Done => Done'
    BY <1>a, <1>2 DEF Acquire, Done, Importing, Resuming, Where, Positions, Waiting, Late,
         Idle, Checkpoints, StateOK, Preserved, Restoring, CommandType, Commands
  <2>1. DataType'
    BY <1>a, <1>2 DEF Acquire, DataType
  <2>2. SiteType'
    BY <1>a, <1>2 DEF Acquire, SiteType
  <2>3. CommandType'
    BY <1>a, <1>2 DEF Acquire, CommandType, Commands
  <2>4. Waiting'
    BY <1>a, <1>2 DEF Acquire, Waiting
  <2>5. Checkpoints'
    BY <1>a, <1>2 DEF Acquire, Checkpoints, StateOK, Late, Idle, NoState, CommandType,
         Commands, States
  <2>6. Preserved'
    BY <1>a, <1>2, <2>0 DEF Acquire, Preserved, Done
  <2>7. Up'
    BY <1>a, <1>2, <2>0 DEF Acquire, Up, Done
  <2>8. Positions'
    BY <1>a, <1>2 DEF Acquire, Positions, Where, Waiting, Idle, Actions, CommandType,
         Commands
  <2>9. Pausing'
    BY <1>a, <1>2 DEF Acquire, Pausing, Waiting, Idle, CommandType, Commands
  <2>10. Restoring'
    BY <1>a, <1>2 DEF Acquire, Restoring, Waiting, Late, Idle, CommandType, Commands
  <2>11. Resuming'
    BY <1>a, <1>2, <2>0 DEF Acquire, Resuming, Where, Positions, Waiting, Late, Idle,
         Checkpoints, StateOK, Preserved, CommandType, Commands, Done, Importing
  <2>12. Mirrored'
    BY <1>a, <1>2, <2>0 DEF Acquire, Mirrored, Done
  <2>13. QED
    BY <2>1, <2>2, <2>3, <2>4, <2>5, <2>6, <2>7, <2>8, <2>9, <2>10, <2>11, <2>12 DEF RInv,
         ResetTypeOK
<1>3. ASSUME SaveMirror PROVE RInv'
  <2>f. cur.at = "mirror" /\ cur.st \in States /\ (cur' = Idle \/
          (/\ cur' \in Commands /\ cur'.act = cur.act /\ cur'.st = cur.st
           /\ cur.then # "end" /\ cur'.at = cur.then /\ cur'.then = cur.then))
    <3>1. CASE cur.then = "end"
      BY <1>a, <1>3, <3>1 DEF SaveMirror, Ends, CommandType, Commands
    <3>2. CASE cur.then # "end"
      <4>1. Goto(cur.then) /\ cur.then \in Places
        BY <1>a, <1>3, <3>2 DEF SaveMirror, CommandType, Commands
      <4>2. QED
        BY <1>a, <1>3, <3>2, <4>1, Moved DEF SaveMirror, CommandType, Commands
    <3>3. QED
      BY <3>1, <3>2
  <2>0. Done => Done'
    BY <1>a, <1>3, <2>f DEF SaveMirror, Done, Importing, Resuming, Where, Positions,
         Waiting, Late, Idle, Checkpoints, StateOK, Preserved, Restoring, CommandType,
         Commands
  <2>1. DataType'
    BY <1>a, <1>3 DEF SaveMirror, DataType
  <2>2. SiteType'
    BY <1>a, <1>3 DEF SaveMirror, SiteType
  <2>3. CommandType'
    BY <1>a, <1>3, <2>f DEF SaveMirror, CommandType, Commands, States
  <2>4. Waiting'
    BY <1>a, <1>3 DEF SaveMirror, Waiting
  <2>5. Checkpoints'
    BY <1>a, <1>3, <2>f DEF SaveMirror, Checkpoints, StateOK, Late, Idle, NoState,
         CommandType, Commands, States
  <2>6. Preserved'
    BY <1>a, <1>3, <2>f, <2>0 DEF SaveMirror, Preserved, Done
  <2>7. Up'
    BY <1>a, <1>3, <2>f, <2>0 DEF SaveMirror, Up, Done
  <2>8. Positions'
    BY <1>a, <1>3, <2>f DEF SaveMirror, Positions, Where, Waiting, Idle, Actions,
         CommandType, Commands
  <2>9. Pausing'
    BY <1>a, <1>3, <2>f DEF SaveMirror, Pausing, Waiting, Idle, CommandType, Commands
  <2>10. Restoring'
    BY <1>a, <1>3, <2>f DEF SaveMirror, Restoring, Waiting, Late, Idle, CommandType,
         Commands
  <2>11. Resuming'
    BY <1>a, <1>3, <2>f, <2>0 DEF SaveMirror, Resuming, Where, Positions, Waiting, Late,
         Idle, Checkpoints, StateOK, Preserved, CommandType, Commands, Done, Importing
  <2>12. Mirrored'
    BY <1>a, <1>3, <2>f, <2>0 DEF SaveMirror, Mirrored, Done, Importing, Positions, Pausing,
         Restoring, Resuming, Where, Idle, CommandType, Commands, Actions
  <2>13. QED
    BY <2>1, <2>2, <2>3, <2>4, <2>5, <2>6, <2>7, <2>8, <2>9, <2>10, <2>11, <2>12 DEF RInv,
         ResetTypeOK
<1>4. ASSUME Fail PROVE RInv'
  <2>0. Done => Done'
    BY <1>a, <1>4 DEF Fail, Done, Importing, Resuming, Where, Positions, Waiting, Late,
         Idle, Checkpoints, StateOK, Preserved, Restoring, CommandType, Commands
  <2>1. DataType'
    BY <1>a, <1>4 DEF Fail, DataType
  <2>2. SiteType'
    BY <1>a, <1>4 DEF Fail, SiteType
  <2>3. CommandType'
    BY <1>a, <1>4 DEF Fail, CommandType, Commands
  <2>4. Waiting'
    BY <1>a, <1>4 DEF Fail, Waiting
  <2>5. Checkpoints'
    BY <1>a, <1>4 DEF Fail, Checkpoints, StateOK, Late, Idle, NoState, CommandType,
         Commands, States
  <2>6. Preserved'
    BY <1>a, <1>4, <2>0 DEF Fail, Preserved, Done
  <2>7. Up'
    BY <1>a, <1>4, <2>0 DEF Fail, Up, Done
  <2>8. Positions'
    BY <1>a, <1>4 DEF Fail, Positions, Where, Waiting, Idle, Actions, CommandType, Commands
  <2>9. Pausing'
    BY <1>a, <1>4 DEF Fail, Pausing, Waiting, Idle, CommandType, Commands
  <2>10. Restoring'
    BY <1>a, <1>4 DEF Fail, Restoring, Waiting, Late, Idle, CommandType, Commands
  <2>11. Resuming'
    BY <1>a, <1>4, <2>0 DEF Fail, Resuming, Where, Positions, Waiting, Late, Idle,
         Checkpoints, StateOK, Preserved, CommandType, Commands, Done, Importing
  <2>12. Mirrored'
    BY <1>a, <1>4, <2>0 DEF Fail, Mirrored, Done
  <2>13. QED
    BY <2>1, <2>2, <2>3, <2>4, <2>5, <2>6, <2>7, <2>8, <2>9, <2>10, <2>11, <2>12 DEF RInv,
         ResetTypeOK
<1>5. ASSUME Die PROVE RInv'
  <2>0. Done => Done'
    BY <1>a, <1>5 DEF Die, Done, Importing, Resuming, Where, Positions, Waiting, Late, Idle,
         Checkpoints, StateOK, Preserved, Restoring, CommandType, Commands
  <2>1. DataType'
    BY <1>a, <1>5 DEF Die, DataType
  <2>2. SiteType'
    BY <1>a, <1>5 DEF Die, SiteType
  <2>3. CommandType'
    BY <1>a, <1>5 DEF Die, CommandType, Commands
  <2>4. Waiting'
    BY <1>a, <1>5 DEF Die, Waiting
  <2>5. Checkpoints'
    BY <1>a, <1>5 DEF Die, Checkpoints, StateOK, Late, Idle, NoState, CommandType, Commands,
         States
  <2>6. Preserved'
    BY <1>a, <1>5, <2>0 DEF Die, Preserved, Done
  <2>7. Up'
    BY <1>a, <1>5, <2>0 DEF Die, Up, Done
  <2>8. Positions'
    BY <1>a, <1>5 DEF Die, Positions, Where, Waiting, Idle, Actions, CommandType, Commands
  <2>9. Pausing'
    BY <1>a, <1>5 DEF Die, Pausing, Waiting, Idle, CommandType, Commands
  <2>10. Restoring'
    BY <1>a, <1>5 DEF Die, Restoring, Waiting, Late, Idle, CommandType, Commands
  <2>11. Resuming'
    BY <1>a, <1>5, <2>0 DEF Die, Resuming, Where, Positions, Waiting, Late, Idle,
         Checkpoints, StateOK, Preserved, CommandType, Commands, Done, Importing
  <2>12. Mirrored'
    BY <1>a, <1>5, <2>0 DEF Die, Mirrored, Done
  <2>13. QED
    BY <2>1, <2>2, <2>3, <2>4, <2>5, <2>6, <2>7, <2>8, <2>9, <2>10, <2>11, <2>12 DEF RInv,
         ResetTypeOK
<1>6. QED
  BY <1>1, <1>2, <1>3, <1>4, <1>5

LEMMA StepPause ==
  ASSUME RInv, Pause \/ StopBackend \/ FenceTarget \/ ParkTarget \/ SavePaused
  PROVE  RInv'
<1> USE IdleType DEF dataVars, siteVars, savedVars, At, Goto, Ends, Save, Phase, Others
<1>a. /\ DataType /\ SiteType /\ CommandType
      /\ Waiting /\ Checkpoints /\ Preserved /\ Up /\ Positions
      /\ Pausing /\ Restoring /\ Resuming /\ Mirrored
  BY DEF RInv, ResetTypeOK
<1>1. ASSUME Pause PROVE RInv'
  <2>f. /\ cur.act = "pause" /\ cur.at = "begin" /\ cur' \in Commands /\ cur'.act = "pause"
        /\ \/ cur'.at = "stop" /\ cur'.st = cur.st /\ UNCHANGED <<disk, mirror>>
           \/ /\ cur'.at = "mirror" /\ cur'.then = "stop" /\ disk' = cur'.st /\ cur'.st \in States
              /\ cur'.st.phase = "pause_intent" /\ UNCHANGED mirror
    <3>1. PICK s : s = [Phase("pause_intent") EXCEPT !.backend = TRUE]
      OBVIOUS
    <3>2. s \in States /\ s.phase = "pause_intent"
      BY <1>a, <3>1 DEF CommandType, Commands, Late, States
    <3>3. At("pause", "begin")
      BY <1>1 DEF Pause
    <3>4. CASE cur.st.backend
      <4>1. Goto("stop") /\ UNCHANGED <<disk, mirror>>
        BY <1>1, <3>4 DEF Pause
      <4>2. QED
        BY <1>a, <3>3, <4>1, Moved DEF Places
    <3>5. CASE ~cur.st.backend
      <4>1. Save(s, "stop")
        BY <1>1, <3>1, <3>5 DEF Pause
      <4>2. QED
        BY <1>a, <3>2, <3>3, <4>1, Saved DEF Places
    <3>6. QED
      BY <3>4, <3>5
  <2>0. Done => Done'
    BY <1>a, <1>1, <2>f DEF Pause, Done, Importing, Resuming, Where, Positions, Waiting,
         Late, Idle, Checkpoints, StateOK, Preserved, Restoring, CommandType, Commands
  <2>1. DataType'
    BY <1>a, <1>1 DEF Pause, DataType
  <2>2. SiteType'
    BY <1>a, <1>1 DEF Pause, SiteType
  <2>3. CommandType'
    BY <1>a, <1>1, <2>f DEF Pause, CommandType, Commands, States
  <2>4. Waiting'
    BY <1>a, <1>1 DEF Pause, Waiting
  <2>5. Checkpoints'
    BY <1>a, <1>1, <2>f DEF Pause, Checkpoints, StateOK, Late, Idle, NoState, CommandType,
         Commands, States
  <2>6. Preserved'
    BY <1>a, <1>1, <2>f, <2>0 DEF Pause, Preserved, Done
  <2>7. Up'
    BY <1>a, <1>1, <2>f, <2>0 DEF Pause, Up, Done
  <2>8. Positions'
    BY <1>a, <1>1, <2>f DEF Pause, Positions, Where, CommandType, Commands
  <2>9. Pausing'
    BY <1>a, <1>1, <2>f DEF Pause, Pausing, CommandType, Commands
  <2>10. Restoring'
    BY <1>a, <1>1, <2>f DEF Pause, Restoring, CommandType, Commands
  <2>11. Resuming'
    BY <1>a, <1>1, <2>f, <2>0 DEF Pause, Resuming, Where, Done
  <2>12. Mirrored'
    BY <1>a, <1>1, <2>f, <2>0 DEF Pause, Mirrored, Done
  <2>13. QED
    BY <2>1, <2>2, <2>3, <2>4, <2>5, <2>6, <2>7, <2>8, <2>9, <2>10, <2>11, <2>12 DEF RInv,
         ResetTypeOK
<1>2. ASSUME StopBackend PROVE RInv'
  <2>0. Done => Done'
    BY <1>a, <1>2 DEF StopBackend, Done, Importing, Resuming, Where, Positions, Waiting,
         Late, Idle, Checkpoints, StateOK, Preserved, Restoring, CommandType, Commands
  <2>1. DataType'
    BY <1>a, <1>2 DEF StopBackend, DataType
  <2>2. SiteType'
    BY <1>a, <1>2 DEF StopBackend, SiteType
  <2>3. CommandType'
    BY <1>a, <1>2 DEF StopBackend, CommandType, SiteType, Commands, States, Places, Late,
         Actions, Idle, NoState, NoManifest, Manifests
  <2>4. Waiting'
    BY <1>a, <1>2 DEF StopBackend, Waiting
  <2>5. Checkpoints'
    BY <1>a, <1>2 DEF StopBackend, Checkpoints, StateOK
  <2>6. Preserved'
    BY <1>a, <1>2, <2>0 DEF StopBackend, Preserved, Done
  <2>7. Up'
    BY <1>a, <1>2 DEF StopBackend, Up
  <2>8. Positions'
    BY <1>a, <1>2 DEF StopBackend, Positions, Where
  <2>9. Pausing'
    BY <1>a, <1>2 DEF StopBackend, Pausing
  <2>10. Restoring'
    BY <1>a, <1>2 DEF StopBackend, Restoring
  <2>11. Resuming'
    BY <1>a, <1>2 DEF StopBackend, Resuming, Where
  <2>12. Mirrored'
    BY <1>a, <1>2, <2>0 DEF StopBackend, Mirrored, Done
  <2>13. QED
    BY <2>1, <2>2, <2>3, <2>4, <2>5, <2>6, <2>7, <2>8, <2>9, <2>10, <2>11, <2>12 DEF RInv,
         ResetTypeOK
<1>3. ASSUME FenceTarget PROVE RInv'
  <2>0. Done => Done'
    BY <1>a, <1>3 DEF FenceTarget, Done, Importing, Resuming, Where, Positions, Waiting,
         Late, Idle, Checkpoints, StateOK, Preserved, Restoring, CommandType, Commands
  <2>1. DataType'
    BY <1>a, <1>3 DEF FenceTarget, DataType
  <2>2. SiteType'
    BY <1>a, <1>3 DEF FenceTarget, SiteType
  <2>3. CommandType'
    BY <1>a, <1>3 DEF FenceTarget, CommandType, SiteType, Commands, States, Places, Late,
         Actions, Idle, NoState, NoManifest, Manifests
  <2>4. Waiting'
    BY <1>a, <1>3 DEF FenceTarget, Waiting
  <2>5. Checkpoints'
    BY <1>a, <1>3 DEF FenceTarget, Checkpoints, StateOK
  <2>6. Preserved'
    BY <1>a, <1>3, <2>0 DEF FenceTarget, Preserved, Done
  <2>7. Up'
    BY <1>a, <1>3, <2>0 DEF FenceTarget, Up, Preserved, Pausing, Resuming, Where, Done,
         Importing
  <2>8. Positions'
    BY <1>a, <1>3 DEF FenceTarget, Positions, Where
  <2>9. Pausing'
    BY <1>a, <1>3 DEF FenceTarget, Pausing
  <2>10. Restoring'
    BY <1>a, <1>3 DEF FenceTarget, Restoring
  <2>11. Resuming'
    BY <1>a, <1>3 DEF FenceTarget, Resuming, Where
  <2>12. Mirrored'
    BY <1>a, <1>3, <2>0 DEF FenceTarget, Mirrored, Done
  <2>13. QED
    BY <2>1, <2>2, <2>3, <2>4, <2>5, <2>6, <2>7, <2>8, <2>9, <2>10, <2>11, <2>12 DEF RInv,
         ResetTypeOK
<1>4. ASSUME ParkTarget PROVE RInv'
  <2>0. Done => Done'
    BY <1>a, <1>4 DEF ParkTarget, Done, Importing, Resuming, Where, Positions, Waiting,
         Late, Idle, Checkpoints, StateOK, Preserved, Restoring, CommandType, Commands
  <2>1. DataType'
    BY <1>a, <1>4 DEF ParkTarget, DataType
  <2>2. SiteType'
    BY <1>a, <1>4 DEF ParkTarget, SiteType
  <2>3. CommandType'
    BY <1>a, <1>4 DEF ParkTarget, CommandType, SiteType, Commands, States, Places, Late,
         Actions, Idle, NoState, NoManifest, Manifests
  <2>4. Waiting'
    BY <1>a, <1>4 DEF ParkTarget, Waiting
  <2>5. Checkpoints'
    BY <1>a, <1>4 DEF ParkTarget, Checkpoints, StateOK
  <2>6. Preserved'
    BY <1>a, <1>4, <2>0 DEF ParkTarget, Preserved, Done, Importing, Pausing
  <2>7. Up'
    BY <1>a, <1>4, <2>0 DEF ParkTarget, Up, Done
  <2>8. Positions'
    BY <1>a, <1>4 DEF ParkTarget, Positions, Where
  <2>9. Pausing'
    BY <1>a, <1>4 DEF ParkTarget, Pausing
  <2>10. Restoring'
    BY <1>a, <1>4 DEF ParkTarget, Restoring
  <2>11. Resuming'
    BY <1>a, <1>4 DEF ParkTarget, Resuming, Where
  <2>12. Mirrored'
    BY <1>a, <1>4, <2>0 DEF ParkTarget, Mirrored, Done
  <2>13. QED
    BY <2>1, <2>2, <2>3, <2>4, <2>5, <2>6, <2>7, <2>8, <2>9, <2>10, <2>11, <2>12 DEF RInv,
         ResetTypeOK
<1>5. ASSUME SavePaused PROVE RInv'
  <2>f. cur.act = "pause" /\ cur.at = "save" /\ cur' \in Commands /\ cur'.act = "pause"
          /\ cur'.at = "mirror" /\ cur'.then = "end" /\ disk' = cur'.st /\ cur'.st \in States
          /\ cur'.st.phase = "paused" /\ cur'.st.manifest = cur.st.manifest /\ UNCHANGED mirror
    <3>1. PICK s : s = Phase("paused")
      OBVIOUS
    <3>2. s \in States /\ s.phase = "paused" /\ s.manifest = cur.st.manifest
      BY <1>a, <3>1, PhaseOf DEF CommandType, Commands, Late
    <3>3. Save(s, "end") /\ At("pause", "save")
      BY <1>5, <3>1 DEF SavePaused
    <3>4. QED
      BY <1>a, <3>2, <3>3, Saved DEF Places
  <2>0. Done => Done'
    BY <1>a, <1>5, <2>f DEF SavePaused, Done, Importing, Resuming, Where, Positions,
         Waiting, Late, Idle, Checkpoints, StateOK, Preserved, Restoring, CommandType,
         Commands
  <2>1. DataType'
    BY <1>a, <1>5 DEF SavePaused, DataType
  <2>2. SiteType'
    BY <1>a, <1>5 DEF SavePaused, SiteType
  <2>3. CommandType'
    BY <1>a, <1>5, <2>f DEF SavePaused, CommandType, Commands, States
  <2>4. Waiting'
    BY <1>a, <1>5 DEF SavePaused, Waiting
  <2>5. Checkpoints'
    BY <1>a, <1>5, <2>f DEF SavePaused, Checkpoints, StateOK, Late, Idle, NoState,
         CommandType, Commands, States
  <2>6. Preserved'
    BY <1>a, <1>5, <2>f, <2>0 DEF SavePaused, Preserved, Done
  <2>7. Up'
    BY <1>a, <1>5, <2>f, <2>0 DEF SavePaused, Up, Done
  <2>8. Positions'
    BY <1>a, <1>5 DEF SavePaused, Positions, Where
  <2>9. Pausing'
    BY <1>a, <1>5, <2>f DEF SavePaused, Pausing, CommandType, Commands
  <2>10. Restoring'
    BY <1>a, <1>5 DEF SavePaused, Restoring
  <2>11. Resuming'
    BY <1>a, <1>5 DEF SavePaused, Resuming, Where
  <2>12. Mirrored'
    BY <1>a, <1>5, <2>f, <2>0 DEF SavePaused, Mirrored, Done
  <2>13. QED
    BY <2>1, <2>2, <2>3, <2>4, <2>5, <2>6, <2>7, <2>8, <2>9, <2>10, <2>11, <2>12 DEF RInv,
         ResetTypeOK
<1>6. QED
  BY <1>1, <1>2, <1>3, <1>4, <1>5

LEMMA StepRestore ==
  ASSUME RInv, Restore \/ OpenForImport \/ DropSchema \/ Import \/ RefenceSource \/ SaveRestored \/ AllowInitialize
  PROVE  RInv'
<1> USE IdleType DEF dataVars, siteVars, savedVars, At, Goto, Ends, Save, Phase, Others
<1>a. /\ DataType /\ SiteType /\ CommandType
      /\ Waiting /\ Checkpoints /\ Preserved /\ Up /\ Positions
      /\ Pausing /\ Restoring /\ Resuming /\ Mirrored
  BY DEF RInv, ResetTypeOK
<1>1. ASSUME Restore PROVE RInv'
  <2>f. cur.act = "restore-source" /\ cur.at = "begin" /\ cur' \in Commands /\ cur'.act = "restore-source"
          /\ cur'.at = "mirror" /\ cur'.then = "open" /\ disk' = cur'.st /\ cur'.st \in States
          /\ cur'.st.phase = "restore_intent" /\ cur'.st.manifest = manifest /\ UNCHANGED mirror
    <3>1. PICK s : s = [Phase("restore_intent") EXCEPT !.manifest = manifest]
      OBVIOUS
    <3>2. s \in States /\ s.phase = "restore_intent" /\ s.manifest = manifest
      BY <1>a, <3>1 DEF CommandType, Commands, Late, States, SiteType
    <3>3. Save(s, "open") /\ At("restore-source", "begin")
      BY <1>1, <3>1 DEF Restore
    <3>4. QED
      BY <1>a, <3>2, <3>3, Saved DEF Places
  <2>0. Done => Done'
    BY <1>a, <1>1, <2>f DEF Restore, Done, Importing, Resuming, Where, Positions, Waiting,
         Late, Idle, Checkpoints, StateOK, Preserved, Restoring, CommandType, Commands
  <2>1. DataType'
    BY <1>a, <1>1 DEF Restore, DataType
  <2>2. SiteType'
    BY <1>a, <1>1 DEF Restore, SiteType
  <2>3. CommandType'
    BY <1>a, <1>1, <2>f DEF Restore, CommandType, Commands, States
  <2>4. Waiting'
    BY <1>a, <1>1 DEF Restore, Waiting
  <2>5. Checkpoints'
    BY <1>a, <1>1, <2>f DEF Restore, Checkpoints, StateOK, CommandType, Commands
  <2>6. Preserved'
    BY <1>a, <1>1, <2>f, <2>0 DEF Restore, Preserved, Done
  <2>7. Up'
    BY <1>a, <1>1 DEF Restore, Up
  <2>8. Positions'
    BY <1>a, <1>1 DEF Restore, Positions, Where
  <2>9. Pausing'
    BY <1>a, <1>1 DEF Restore, Pausing
  <2>10. Restoring'
    BY <1>a, <1>1, <2>f DEF Restore, Restoring, Waiting, Late, Idle, CommandType, Commands
  <2>11. Resuming'
    BY <1>a, <1>1 DEF Restore, Resuming, Where
  <2>12. Mirrored'
    BY <1>a, <1>1, <2>f, <2>0 DEF Restore, Mirrored, Done
  <2>13. QED
    BY <2>1, <2>2, <2>3, <2>4, <2>5, <2>6, <2>7, <2>8, <2>9, <2>10, <2>11, <2>12 DEF RInv,
         ResetTypeOK
<1>2. ASSUME OpenForImport PROVE RInv'
  <2>0. Done => Done'
    BY <1>a, <1>2 DEF OpenForImport, Done, Importing, Resuming, Where, Positions, Waiting,
         Late, Idle, Checkpoints, StateOK, Preserved, Restoring, CommandType, Commands
  <2>1. DataType'
    BY <1>a, <1>2 DEF OpenForImport, DataType
  <2>2. SiteType'
    BY <1>a, <1>2 DEF OpenForImport, SiteType
  <2>3. CommandType'
    BY <1>a, <1>2 DEF OpenForImport, CommandType, SiteType, Commands, States, Places, Late,
         Actions, Idle, NoState, NoManifest, Manifests
  <2>4. Waiting'
    BY <1>a, <1>2 DEF OpenForImport, Waiting
  <2>5. Checkpoints'
    BY <1>a, <1>2 DEF OpenForImport, Checkpoints, StateOK
  <2>6. Preserved'
    BY <1>a, <1>2, <2>0 DEF OpenForImport, Preserved, Done
  <2>7. Up'
    BY <1>a, <1>2, <2>0 DEF OpenForImport, Up, Done
  <2>8. Positions'
    BY <1>a, <1>2 DEF OpenForImport, Positions, Where
  <2>9. Pausing'
    BY <1>a, <1>2 DEF OpenForImport, Pausing
  <2>10. Restoring'
    BY <1>a, <1>2 DEF OpenForImport, Restoring
  <2>11. Resuming'
    BY <1>a, <1>2 DEF OpenForImport, Resuming, Where
  <2>12. Mirrored'
    BY <1>a, <1>2, <2>0 DEF OpenForImport, Mirrored, Done
  <2>13. QED
    BY <2>1, <2>2, <2>3, <2>4, <2>5, <2>6, <2>7, <2>8, <2>9, <2>10, <2>11, <2>12 DEF RInv,
         ResetTypeOK
<1>3. ASSUME DropSchema PROVE RInv'
  <2>0. Done => Done'
    BY <1>a, <1>3 DEF DropSchema, Done, Importing, Resuming, Where, Positions, Waiting,
         Late, Idle, Checkpoints, StateOK, Preserved, Restoring, CommandType, Commands
  <2>1. DataType'
    BY <1>a, <1>3 DEF DropSchema, DataType
  <2>2. SiteType'
    BY <1>a, <1>3 DEF DropSchema, SiteType
  <2>3. CommandType'
    BY <1>a, <1>3 DEF DropSchema, CommandType, SiteType, Commands, States, Places, Late,
         Actions, Idle, NoState, NoManifest, Manifests
  <2>4. Waiting'
    BY <1>a, <1>3 DEF DropSchema, Waiting
  <2>5. Checkpoints'
    BY <1>a, <1>3 DEF DropSchema, Checkpoints, StateOK
  <2>6. Preserved'
    BY <1>a, <1>3, <2>0 DEF DropSchema, Preserved, Done
  <2>7. Up'
    BY <1>a, <1>3, <2>0 DEF DropSchema, Up, Done
  <2>8. Positions'
    BY <1>a, <1>3 DEF DropSchema, Positions, Where
  <2>9. Pausing'
    BY <1>a, <1>3 DEF DropSchema, Pausing
  <2>10. Restoring'
    BY <1>a, <1>3 DEF DropSchema, Restoring
  <2>11. Resuming'
    BY <1>a, <1>3 DEF DropSchema, Resuming, Where
  <2>12. Mirrored'
    BY <1>a, <1>3, <2>0 DEF DropSchema, Mirrored, Done
  <2>13. QED
    BY <2>1, <2>2, <2>3, <2>4, <2>5, <2>6, <2>7, <2>8, <2>9, <2>10, <2>11, <2>12 DEF RInv,
         ResetTypeOK
<1>4. ASSUME Import PROVE RInv'
  <2>0. Done => Done'
    BY <1>a, <1>4 DEF Import, Done, Importing, Resuming, Where, Positions, Waiting, Late,
         Idle, Checkpoints, StateOK, Preserved, Restoring, CommandType, Commands
  <2>1. DataType'
    BY <1>a, <1>4 DEF Import, DataType, CommandType, Commands, States, Manifests
  <2>2. SiteType'
    BY <1>a, <1>4 DEF Import, SiteType
  <2>3. CommandType'
    BY <1>a, <1>4 DEF Import, CommandType, SiteType, Commands, States, Places, Late,
         Actions, Idle, NoState, NoManifest, Manifests
  <2>4. Waiting'
    BY <1>a, <1>4 DEF Import, Waiting
  <2>5. Checkpoints'
    BY <1>a, <1>4 DEF Import, Checkpoints, StateOK
  <2>6. Preserved'
    BY <1>a, <1>4, <2>0 DEF Import, Preserved, Done
  <2>7. Up'
    BY <1>a, <1>4, <2>0 DEF Import, Up, Done
  <2>8. Positions'
    BY <1>a, <1>4 DEF Import, Positions, Where
  <2>9. Pausing'
    BY <1>a, <1>4 DEF Import, Pausing
  <2>10. Restoring'
    BY <1>a, <1>4 DEF Import, Restoring
  <2>11. Resuming'
    BY <1>a, <1>4 DEF Import, Resuming, Where
  <2>12. Mirrored'
    BY <1>a, <1>4, <2>0 DEF Import, Mirrored, Done
  <2>13. QED
    BY <2>1, <2>2, <2>3, <2>4, <2>5, <2>6, <2>7, <2>8, <2>9, <2>10, <2>11, <2>12 DEF RInv,
         ResetTypeOK
<1>5. ASSUME RefenceSource PROVE RInv'
  <2>f. /\ cur.act = "restore-source" /\ cur.at \in {"drop", "import", "refence"}
        /\ \/ cur' = Idle
           \/ /\ cur' \in Commands /\ cur'.act = cur.act /\ cur'.at = "compare"
              /\ cur'.st = cur.st /\ cur'.then = cur.then
    <3>1. CASE cur.at = "refence"
      <4>1. Goto("compare")
        BY <1>5, <3>1 DEF RefenceSource
      <4>2. QED
        BY <1>a, <3>1, <1>5, <4>1, Moved DEF RefenceSource, Places
    <3>2. CASE cur.at # "refence"
      BY <1>5, <3>2 DEF RefenceSource, Ends
    <3>3. QED
      BY <3>1, <3>2
  <2>0. Done => Done'
    BY <1>a, <1>5, <2>f DEF RefenceSource, Done, Importing, Resuming, Where, Positions,
         Waiting, Late, Idle, Checkpoints, StateOK, Preserved, Restoring, CommandType,
         Commands
  <2>1. DataType'
    BY <1>a, <1>5 DEF RefenceSource, DataType
  <2>2. SiteType'
    BY <1>a, <1>5 DEF RefenceSource, SiteType
  <2>3. CommandType'
    BY <1>a, <1>5, <2>f DEF RefenceSource, CommandType, Commands, States
  <2>4. Waiting'
    BY <1>a, <1>5 DEF RefenceSource, Waiting
  <2>5. Checkpoints'
    BY <1>a, <1>5, <2>f DEF RefenceSource, Checkpoints, StateOK, Late, Idle, NoState,
         CommandType, Commands, States
  <2>6. Preserved'
    BY <1>a, <1>5, <2>f, <2>0 DEF RefenceSource, Preserved, Done
  <2>7. Up'
    BY <1>a, <1>5, <2>f, <2>0 DEF RefenceSource, Up, Done
  <2>8. Positions'
    BY <1>a, <1>5, <2>f DEF RefenceSource, Positions, Where, Waiting, Idle, Actions,
         CommandType, Commands
  <2>9. Pausing'
    BY <1>a, <1>5, <2>f DEF RefenceSource, Pausing, Waiting, Idle, CommandType, Commands
  <2>10. Restoring'
    BY <1>a, <1>5, <2>f DEF RefenceSource, Restoring, Waiting, Late, Idle, CommandType,
         Commands
  <2>11. Resuming'
    BY <1>a, <1>5, <2>f, <2>0 DEF RefenceSource, Resuming, Where, Positions, Waiting, Late,
         Idle, Checkpoints, StateOK, Preserved, CommandType, Commands, Done, Importing
  <2>12. Mirrored'
    BY <1>a, <1>5, <2>f, <2>0 DEF RefenceSource, Mirrored, Done
  <2>13. QED
    BY <2>1, <2>2, <2>3, <2>4, <2>5, <2>6, <2>7, <2>8, <2>9, <2>10, <2>11, <2>12 DEF RInv,
         ResetTypeOK
<1>6. ASSUME SaveRestored PROVE RInv'
  <2>f. cur.act = "restore-source" /\ cur.at = "compare" /\ cur' \in Commands /\ cur'.act = "restore-source"
          /\ cur'.at = "mirror" /\ cur'.then = "end" /\ disk' = cur'.st /\ cur'.st \in States
          /\ cur'.st.phase = "source_restored" /\ cur'.st.manifest = cur.st.manifest /\ UNCHANGED mirror
    <3>1. PICK s : s = Phase("source_restored")
      OBVIOUS
    <3>2. s \in States /\ s.phase = "source_restored" /\ s.manifest = cur.st.manifest
      BY <1>a, <3>1, PhaseOf DEF CommandType, Commands, Late
    <3>3. Save(s, "end") /\ At("restore-source", "compare")
      BY <1>6, <3>1 DEF SaveRestored
    <3>4. QED
      BY <1>a, <3>2, <3>3, Saved DEF Places
  <2>0. Done => Done'
    BY <1>a, <1>6, <2>f DEF SaveRestored, Done, Importing, Resuming, Where, Positions,
         Waiting, Late, Idle, Checkpoints, StateOK, Preserved, Restoring, CommandType,
         Commands
  <2>1. DataType'
    BY <1>a, <1>6 DEF SaveRestored, DataType
  <2>2. SiteType'
    BY <1>a, <1>6 DEF SaveRestored, SiteType
  <2>3. CommandType'
    BY <1>a, <1>6, <2>f DEF SaveRestored, CommandType, Commands, States
  <2>4. Waiting'
    BY <1>a, <1>6 DEF SaveRestored, Waiting
  <2>5. Checkpoints'
    BY <1>a, <1>6, <2>f DEF SaveRestored, Checkpoints, StateOK, Late, Restoring, Resuming,
         Where, Idle, NoState, CommandType, Commands, States
  <2>6. Preserved'
    BY <1>a, <1>6, <2>f, <2>0 DEF SaveRestored, Preserved, Done
  <2>7. Up'
    BY <1>a, <1>6, <2>f, <2>0 DEF SaveRestored, Up, Done
  <2>8. Positions'
    BY <1>a, <1>6 DEF SaveRestored, Positions, Where
  <2>9. Pausing'
    BY <1>a, <1>6 DEF SaveRestored, Pausing
  <2>10. Restoring'
    BY <1>a, <1>6, <2>f DEF SaveRestored, Restoring, Waiting, Late, Idle, CommandType,
         Commands
  <2>11. Resuming'
    BY <1>a, <1>6 DEF SaveRestored, Resuming, Where
  <2>12. Mirrored'
    BY <1>a, <1>6, <2>f, <2>0 DEF SaveRestored, Mirrored, Done
  <2>13. QED
    BY <2>1, <2>2, <2>3, <2>4, <2>5, <2>6, <2>7, <2>8, <2>9, <2>10, <2>11, <2>12 DEF RInv,
         ResetTypeOK
<1>7. ASSUME AllowInitialize PROVE RInv'
  <2>0. Done => Done'
    BY <1>a, <1>7 DEF AllowInitialize, Done, Importing, Resuming, Where, Positions, Waiting,
         Late, Idle, Checkpoints, StateOK, Preserved, Restoring, CommandType, Commands
  <2>1. DataType'
    BY <1>a, <1>7 DEF AllowInitialize, DataType
  <2>2. SiteType'
    BY <1>a, <1>7 DEF AllowInitialize, SiteType
  <2>3. CommandType'
    BY <1>a, <1>7 DEF AllowInitialize, CommandType, Commands
  <2>4. Waiting'
    BY <1>a, <1>7 DEF AllowInitialize, Waiting
  <2>5. Checkpoints'
    BY <1>a, <1>7 DEF AllowInitialize, Checkpoints, StateOK, Late, Idle, NoState,
         CommandType, Commands, States
  <2>6. Preserved'
    BY <1>a, <1>7, <2>0 DEF AllowInitialize, Preserved, Done, Importing, Checkpoints,
         StateOK, Late, Up
  <2>7. Up'
    BY <1>a, <1>7 DEF AllowInitialize, Up
  <2>8. Positions'
    BY <1>a, <1>7 DEF AllowInitialize, Positions, Where, Waiting, Idle, Actions,
         CommandType, Commands
  <2>9. Pausing'
    BY <1>a, <1>7 DEF AllowInitialize, Pausing, Waiting, Idle, CommandType, Commands
  <2>10. Restoring'
    BY <1>a, <1>7 DEF AllowInitialize, Restoring, Waiting, Late, Idle, CommandType, Commands
  <2>11. Resuming'
    BY <1>a, <1>7, <2>0 DEF AllowInitialize, Resuming, Where, Positions, Waiting, Late,
         Idle, Checkpoints, StateOK, Preserved, CommandType, Commands, Done, Importing
  <2>12. Mirrored'
    BY <1>a, <1>7, <2>0 DEF AllowInitialize, Mirrored, Done
  <2>13. QED
    BY <2>1, <2>2, <2>3, <2>4, <2>5, <2>6, <2>7, <2>8, <2>9, <2>10, <2>11, <2>12 DEF RInv,
         ResetTypeOK
<1>8. QED
  BY <1>1, <1>2, <1>3, <1>4, <1>5, <1>6, <1>7

LEMMA StepResume ==
  ASSUME RInv, Resume \/ ResumeChecks \/ SaveResume \/ RouteToSource \/ OpenSource \/ ArchiveJournal \/ StartBackend \/ SaveCompleted
  PROVE  RInv'
<1> USE IdleType DEF dataVars, siteVars, savedVars, At, Goto, Ends, Save, Phase, Others
<1>a. /\ DataType /\ SiteType /\ CommandType
      /\ Waiting /\ Checkpoints /\ Preserved /\ Up /\ Positions
      /\ Pausing /\ Restoring /\ Resuming /\ Mirrored
  BY DEF RInv, ResetTypeOK
<1>1. ASSUME Resume PROVE RInv'
  <2>0. Done => Done'
    BY <1>a, <1>1 DEF Resume, Done, Importing, Resuming, Where, Positions, Waiting, Late,
         Idle, Checkpoints, StateOK, Preserved, Restoring, CommandType, Commands
  <2>1. DataType'
    BY <1>a, <1>1 DEF Resume, DataType
  <2>2. SiteType'
    BY <1>a, <1>1 DEF Resume, SiteType
  <2>3. CommandType'
    BY <1>a, <1>1 DEF Resume, CommandType, SiteType, Commands, States, Places, Late,
         Actions, Idle, NoState, NoManifest, Manifests
  <2>4. Waiting'
    BY <1>a, <1>1 DEF Resume, Waiting
  <2>5. Checkpoints'
    BY <1>a, <1>1 DEF Resume, Checkpoints, StateOK
  <2>6. Preserved'
    BY <1>a, <1>1, <2>0 DEF Resume, Preserved, Done
  <2>7. Up'
    BY <1>a, <1>1 DEF Resume, Up
  <2>8. Positions'
    BY <1>a, <1>1 DEF Resume, Positions, Where
  <2>9. Pausing'
    BY <1>a, <1>1 DEF Resume, Pausing
  <2>10. Restoring'
    BY <1>a, <1>1 DEF Resume, Restoring
  <2>11. Resuming'
    BY <1>a, <1>1, <2>0 DEF Resume, Resuming, Where, Positions, Waiting, Late, Idle,
         Checkpoints, StateOK, Preserved, CommandType, Commands, Done, Importing
  <2>12. Mirrored'
    BY <1>a, <1>1, <2>0 DEF Resume, Mirrored, Done
  <2>13. QED
    BY <2>1, <2>2, <2>3, <2>4, <2>5, <2>6, <2>7, <2>8, <2>9, <2>10, <2>11, <2>12 DEF RInv,
         ResetTypeOK
<1>2. ASSUME ResumeChecks PROVE RInv'
  <2>0. Done => Done'
    BY <1>a, <1>2 DEF ResumeChecks, Done, Importing, Resuming, Where, Positions, Waiting,
         Late, Idle, Checkpoints, StateOK, Preserved, Restoring, CommandType, Commands
  <2>1. DataType'
    BY <1>a, <1>2 DEF ResumeChecks, DataType
  <2>2. SiteType'
    BY <1>a, <1>2 DEF ResumeChecks, SiteType
  <2>3. CommandType'
    BY <1>a, <1>2 DEF ResumeChecks, CommandType, SiteType, Commands, States, Places, Late,
         Actions, Idle, NoState, NoManifest, Manifests
  <2>4. Waiting'
    BY <1>a, <1>2 DEF ResumeChecks, Waiting
  <2>5. Checkpoints'
    BY <1>a, <1>2 DEF ResumeChecks, Checkpoints, StateOK
  <2>6. Preserved'
    BY <1>a, <1>2, <2>0 DEF ResumeChecks, Preserved, Done
  <2>7. Up'
    BY <1>a, <1>2, <2>0 DEF ResumeChecks, Up, Done
  <2>8. Positions'
    BY <1>a, <1>2 DEF ResumeChecks, Positions, Where
  <2>9. Pausing'
    BY <1>a, <1>2 DEF ResumeChecks, Pausing
  <2>10. Restoring'
    BY <1>a, <1>2 DEF ResumeChecks, Restoring
  <2>11. Resuming'
    BY <1>a, <1>2, <2>0 DEF ResumeChecks, Resuming, Where, Positions, Waiting, Late, Idle,
         Checkpoints, StateOK, Preserved, CommandType, Commands, Done, Importing
  <2>12. Mirrored'
    BY <1>a, <1>2, <2>0 DEF ResumeChecks, Mirrored, Done
  <2>13. QED
    BY <2>1, <2>2, <2>3, <2>4, <2>5, <2>6, <2>7, <2>8, <2>9, <2>10, <2>11, <2>12 DEF RInv,
         ResetTypeOK
<1>3. ASSUME SaveResume PROVE RInv'
  <2>f. cur.act = "resume-source" /\ cur.at = "intent" /\ cur' \in Commands /\ cur'.act = "resume-source"
          /\ cur'.at = "mirror" /\ cur'.then = "route" /\ disk' = cur'.st /\ cur'.st \in States
          /\ cur'.st.phase = "resume_intent" /\ cur'.st.manifest = cur.st.manifest /\ UNCHANGED mirror
    <3>1. PICK s : s = Phase("resume_intent")
      OBVIOUS
    <3>2. s \in States /\ s.phase = "resume_intent" /\ s.manifest = cur.st.manifest
      BY <1>a, <3>1, PhaseOf DEF CommandType, Commands, Late
    <3>3. Save(s, "route") /\ At("resume-source", "intent")
      BY <1>3, <3>1 DEF SaveResume
    <3>4. QED
      BY <1>a, <3>2, <3>3, Saved DEF Places
  <2>0. Done => Done'
    BY <1>a, <1>3, <2>f DEF SaveResume, Done, Importing, Resuming, Where, Positions,
         Waiting, Late, Idle, Checkpoints, StateOK, Preserved, Restoring, CommandType,
         Commands
  <2>1. DataType'
    BY <1>a, <1>3 DEF SaveResume, DataType
  <2>2. SiteType'
    BY <1>a, <1>3 DEF SaveResume, SiteType
  <2>3. CommandType'
    BY <1>a, <1>3, <2>f DEF SaveResume, CommandType, Commands, States
  <2>4. Waiting'
    BY <1>a, <1>3 DEF SaveResume, Waiting
  <2>5. Checkpoints'
    BY <1>a, <1>3, <2>f DEF SaveResume, Checkpoints, StateOK, Late, Restoring, Resuming,
         Where, Idle, NoState, CommandType, Commands, States
  <2>6. Preserved'
    BY <1>a, <1>3, <2>f, <2>0 DEF SaveResume, Preserved, Done
  <2>7. Up'
    BY <1>a, <1>3, <2>f, <2>0 DEF SaveResume, Up, Done
  <2>8. Positions'
    BY <1>a, <1>3 DEF SaveResume, Positions, Where
  <2>9. Pausing'
    BY <1>a, <1>3 DEF SaveResume, Pausing
  <2>10. Restoring'
    BY <1>a, <1>3 DEF SaveResume, Restoring
  <2>11. Resuming'
    BY <1>a, <1>3, <2>f, <2>0 DEF SaveResume, Resuming, Where, Positions, Waiting, Late,
         Idle, Checkpoints, StateOK, Preserved, CommandType, Commands, Done, Importing
  <2>12. Mirrored'
    BY <1>a, <1>3, <2>f, <2>0 DEF SaveResume, Mirrored, Done
  <2>13. QED
    BY <2>1, <2>2, <2>3, <2>4, <2>5, <2>6, <2>7, <2>8, <2>9, <2>10, <2>11, <2>12 DEF RInv,
         ResetTypeOK
<1>4. ASSUME RouteToSource PROVE RInv'
  <2>0. Done => Done'
    BY <1>a, <1>4 DEF RouteToSource, Done, Importing, Resuming, Where, Positions, Waiting,
         Late, Idle, Checkpoints, StateOK, Preserved, Restoring, CommandType, Commands
  <2>1. DataType'
    BY <1>a, <1>4 DEF RouteToSource, DataType
  <2>2. SiteType'
    BY <1>a, <1>4 DEF RouteToSource, SiteType
  <2>3. CommandType'
    BY <1>a, <1>4 DEF RouteToSource, CommandType, SiteType, Commands, States, Places, Late,
         Actions, Idle, NoState, NoManifest, Manifests
  <2>4. Waiting'
    BY <1>a, <1>4 DEF RouteToSource, Waiting
  <2>5. Checkpoints'
    BY <1>a, <1>4 DEF RouteToSource, Checkpoints, StateOK
  <2>6. Preserved'
    BY <1>a, <1>4, <2>0 DEF RouteToSource, Preserved, Done, Importing, Resuming, Where,
         Checkpoints, StateOK
  <2>7. Up'
    BY <1>a, <1>4, <2>0 DEF RouteToSource, Up, Done
  <2>8. Positions'
    BY <1>a, <1>4 DEF RouteToSource, Positions, Where
  <2>9. Pausing'
    BY <1>a, <1>4 DEF RouteToSource, Pausing
  <2>10. Restoring'
    BY <1>a, <1>4 DEF RouteToSource, Restoring
  <2>11. Resuming'
    BY <1>a, <1>4 DEF RouteToSource, Resuming, Where
  <2>12. Mirrored'
    BY <1>a, <1>4, <2>0 DEF RouteToSource, Mirrored, Done
  <2>13. QED
    BY <2>1, <2>2, <2>3, <2>4, <2>5, <2>6, <2>7, <2>8, <2>9, <2>10, <2>11, <2>12 DEF RInv,
         ResetTypeOK
<1>5. ASSUME OpenSource PROVE RInv'
  <2>0. Done => Done'
    BY <1>a, <1>5 DEF OpenSource, Done, Importing, Resuming, Where, Positions, Waiting,
         Late, Idle, Checkpoints, StateOK, Preserved, Restoring, CommandType, Commands
  <2>1. DataType'
    BY <1>a, <1>5 DEF OpenSource, DataType
  <2>2. SiteType'
    BY <1>a, <1>5 DEF OpenSource, SiteType
  <2>3. CommandType'
    BY <1>a, <1>5 DEF OpenSource, CommandType, SiteType, Commands, States, Places, Late,
         Actions, Idle, NoState, NoManifest, Manifests
  <2>4. Waiting'
    BY <1>a, <1>5 DEF OpenSource, Waiting
  <2>5. Checkpoints'
    BY <1>a, <1>5 DEF OpenSource, Checkpoints, StateOK
  <2>6. Preserved'
    BY <1>a, <1>5, <2>0 DEF OpenSource, Preserved, Done
  <2>7. Up'
    BY <1>a, <1>5, <2>0 DEF OpenSource, Up, Done
  <2>8. Positions'
    BY <1>a, <1>5 DEF OpenSource, Positions, Where
  <2>9. Pausing'
    BY <1>a, <1>5 DEF OpenSource, Pausing
  <2>10. Restoring'
    BY <1>a, <1>5 DEF OpenSource, Restoring
  <2>11. Resuming'
    <3>1. cur.act = "resume-source" /\ cur.at = "open" /\ Goto("archive")
      BY <1>5 DEF OpenSource
    <3>2. /\ cur'.act = "resume-source" /\ cur'.at = "archive" /\ cur'.st = cur.st
      BY <1>a, <3>1, Moved DEF Places
    <3>3. cur.st.phase \in Late /\ app = "down" /\ whole /\ acked \subseteq srcData /\ route = "source"
      BY <1>a, <3>1 DEF Resuming, Where
    <3>4. manifest.ready /\ tgt = "fenced"
      BY <1>a, <3>3 DEF Checkpoints, StateOK, Preserved, DataType
    <3>5. Done'
      BY <1>5, <3>2, <3>3, <3>4 DEF OpenSource, Done, Importing
    <3>6. QED
      BY <1>5, <3>2, <3>3, <3>5 DEF OpenSource, Resuming, Where
  <2>12. Mirrored'
    BY <1>a, <1>5, <2>0 DEF OpenSource, Mirrored, Done
  <2>13. QED
    BY <2>1, <2>2, <2>3, <2>4, <2>5, <2>6, <2>7, <2>8, <2>9, <2>10, <2>11, <2>12 DEF RInv,
         ResetTypeOK
<1>6. ASSUME ArchiveJournal PROVE RInv'
  <2>0. Done => Done'
    BY <1>a, <1>6 DEF ArchiveJournal, Done, Importing, Resuming, Where, Positions, Waiting,
         Late, Idle, Checkpoints, StateOK, Preserved, Restoring, CommandType, Commands
  <2>1. DataType'
    BY <1>a, <1>6 DEF ArchiveJournal, DataType
  <2>2. SiteType'
    BY <1>a, <1>6 DEF ArchiveJournal, SiteType
  <2>3. CommandType'
    BY <1>a, <1>6 DEF ArchiveJournal, CommandType, SiteType, Commands, States, Places, Late,
         Actions, Idle, NoState, NoManifest, Manifests
  <2>4. Waiting'
    BY <1>a, <1>6 DEF ArchiveJournal, Waiting
  <2>5. Checkpoints'
    BY <1>a, <1>6 DEF ArchiveJournal, Checkpoints, StateOK
  <2>6. Preserved'
    BY <1>a, <1>6, <2>0 DEF ArchiveJournal, Preserved, Done
  <2>7. Up'
    BY <1>a, <1>6, <2>0 DEF ArchiveJournal, Up, Done
  <2>8. Positions'
    BY <1>a, <1>6 DEF ArchiveJournal, Positions, Where
  <2>9. Pausing'
    BY <1>a, <1>6 DEF ArchiveJournal, Pausing
  <2>10. Restoring'
    BY <1>a, <1>6 DEF ArchiveJournal, Restoring
  <2>11. Resuming'
    BY <1>a, <1>6, <2>0 DEF ArchiveJournal, Resuming, Where, Done
  <2>12. Mirrored'
    BY <1>a, <1>6, <2>0 DEF ArchiveJournal, Mirrored, Done
  <2>13. QED
    BY <2>1, <2>2, <2>3, <2>4, <2>5, <2>6, <2>7, <2>8, <2>9, <2>10, <2>11, <2>12 DEF RInv,
         ResetTypeOK
<1>7. ASSUME StartBackend PROVE RInv'
  <2>0. Done => Done'
    BY <1>a, <1>7 DEF StartBackend, Done, Importing, Resuming, Where, Positions, Waiting,
         Late, Idle, Checkpoints, StateOK, Preserved, Restoring, CommandType, Commands
  <2>1. DataType'
    BY <1>a, <1>7 DEF StartBackend, DataType
  <2>2. SiteType'
    BY <1>a, <1>7 DEF StartBackend, SiteType
  <2>3. CommandType'
    BY <1>a, <1>7 DEF StartBackend, CommandType, SiteType, Commands, States, Places, Late,
         Actions, Idle, NoState, NoManifest, Manifests
  <2>4. Waiting'
    BY <1>a, <1>7 DEF StartBackend, Waiting
  <2>5. Checkpoints'
    BY <1>a, <1>7 DEF StartBackend, Checkpoints, StateOK
  <2>6. Preserved'
    BY <1>a, <1>7, <2>0 DEF StartBackend, Preserved, Done
  <2>7. Up'
    BY <1>a, <1>7, <2>0 DEF StartBackend, Up, Preserved, Pausing, Resuming, Where, Done,
         Importing
  <2>8. Positions'
    BY <1>a, <1>7 DEF StartBackend, Positions, Where
  <2>9. Pausing'
    BY <1>a, <1>7 DEF StartBackend, Pausing
  <2>10. Restoring'
    BY <1>a, <1>7 DEF StartBackend, Restoring
  <2>11. Resuming'
    BY <1>a, <1>7, <2>0 DEF StartBackend, Resuming, Where, Done
  <2>12. Mirrored'
    BY <1>a, <1>7, <2>0 DEF StartBackend, Mirrored, Done
  <2>13. QED
    BY <2>1, <2>2, <2>3, <2>4, <2>5, <2>6, <2>7, <2>8, <2>9, <2>10, <2>11, <2>12 DEF RInv,
         ResetTypeOK
<1>8. ASSUME SaveCompleted PROVE RInv'
  <2>f. cur.act = "resume-source" /\ cur.at = "health" /\ cur' \in Commands /\ cur'.act = "resume-source"
          /\ cur'.at = "mirror" /\ cur'.then = "end" /\ disk' = cur'.st /\ cur'.st \in States
          /\ cur'.st.phase = "completed" /\ cur'.st.manifest = cur.st.manifest /\ UNCHANGED mirror
    <3>1. PICK s : s = Phase("completed")
      OBVIOUS
    <3>2. s \in States /\ s.phase = "completed" /\ s.manifest = cur.st.manifest
      BY <1>a, <3>1, PhaseOf DEF CommandType, Commands, Late
    <3>3. Save(s, "end") /\ At("resume-source", "health")
      BY <1>8, <3>1 DEF SaveCompleted
    <3>4. QED
      BY <1>a, <3>2, <3>3, Saved DEF Places
  <2>0. Done => Done'
    BY <1>a, <1>8, <2>f DEF SaveCompleted, Done, Importing, Resuming, Where, Positions,
         Waiting, Late, Idle, Checkpoints, StateOK, Preserved, Restoring, CommandType,
         Commands
  <2>1. DataType'
    BY <1>a, <1>8 DEF SaveCompleted, DataType
  <2>2. SiteType'
    BY <1>a, <1>8 DEF SaveCompleted, SiteType
  <2>3. CommandType'
    BY <1>a, <1>8, <2>f DEF SaveCompleted, CommandType, Commands, States
  <2>4. Waiting'
    BY <1>a, <1>8 DEF SaveCompleted, Waiting
  <2>5. Checkpoints'
    BY <1>a, <1>8, <2>f DEF SaveCompleted, Checkpoints, StateOK, Late, Restoring, Resuming,
         Where, Idle, NoState, CommandType, Commands, States
  <2>6. Preserved'
    BY <1>a, <1>8, <2>f, <2>0 DEF SaveCompleted, Preserved, Done
  <2>7. Up'
    BY <1>a, <1>8, <2>f, <2>0 DEF SaveCompleted, Up, Done
  <2>8. Positions'
    BY <1>a, <1>8 DEF SaveCompleted, Positions, Where
  <2>9. Pausing'
    BY <1>a, <1>8 DEF SaveCompleted, Pausing
  <2>10. Restoring'
    BY <1>a, <1>8 DEF SaveCompleted, Restoring
  <2>11. Resuming'
    BY <1>a, <1>8, <2>f, <2>0 DEF SaveCompleted, Resuming, Where, Positions, Waiting, Late,
         Idle, Checkpoints, StateOK, Preserved, CommandType, Commands, Done, Importing
  <2>12. Mirrored'
    BY <1>a, <1>8, <2>f, <2>0 DEF SaveCompleted, Mirrored, Done
  <2>13. QED
    BY <2>1, <2>2, <2>3, <2>4, <2>5, <2>6, <2>7, <2>8, <2>9, <2>10, <2>11, <2>12 DEF RInv,
         ResetTypeOK
<1>9. QED
  BY <1>1, <1>2, <1>3, <1>4, <1>5, <1>6, <1>7, <1>8

LEMMA RInvStep ==
  ASSUME RInv, [Next]_resetVars
  PROVE  RInv'
<1>1. ASSUME NEW a \in Actions, Ask(a) PROVE RInv'
  BY <1>1, StepLock
<1>2. CASE Command
  <2> USE DEF Actions
  <2>1. CASE Acquire \/ SaveMirror \/ Fail \/ Die
    BY <2>1, StepLock
  <2>2. CASE Pause \/ StopBackend \/ FenceTarget \/ ParkTarget \/ SavePaused
    BY <2>2, StepPause
  <2>3. CASE \/ Restore \/ OpenForImport \/ DropSchema \/ Import \/ RefenceSource
             \/ SaveRestored \/ AllowInitialize
    BY <2>3, StepRestore
  <2>4. CASE \/ Resume \/ ResumeChecks \/ SaveResume \/ RouteToSource \/ OpenSource
             \/ ArchiveJournal \/ StartBackend \/ SaveCompleted
    BY <2>4, StepResume
  <2>5. QED
    BY <1>2, <2>1, <2>2, <2>3, <2>4 DEF Command
<1>3. CASE \/ Commit \/ Replicate \/ AppStops \/ SnapshotTarget \/ VerifyTarget
           \/ InitializeReplica \/ OperatorFences
  BY <1>3, StepWorld
<1>4. CASE UNCHANGED resetVars
  BY <1>4 DEF resetVars, dataVars, siteVars, savedVars, RInv, ResetTypeOK, DataType,
       SiteType,
     CommandType, Waiting, Checkpoints, StateOK, Preserved, Up, Positions, Pausing, Restoring,
     Resuming, Mirrored, Where, Done, Importing
<1>5. QED
  BY <1>1, <1>2, <1>3, <1>4 DEF Next

LEMMA RInvInvariance == ResetSpec => []RInv
BY RInvInit, RInvStep, PTL DEF ResetSpec

-----------------------------------------------------------------------------
(* ResetTypeOK: every variable keeps its type. *)
THEOREM ResetTypesKept == ResetSpec => []ResetTypeOK
<1>1. RInv => ResetTypeOK
  BY DEF RInv
<1>2. QED
  BY <1>1, RInvInvariance, PTL

(* ServedDataComplete: the database V1 is served from has every commit, through imports *)
(* that are killed, checkpoints that are stale and commands that are repeated.          *)
THEOREM ServedIsComplete == ResetSpec => []ServedDataComplete
<1>1. RInv => ServedDataComplete
  BY DEF RInv, ServedDataComplete, Up, Preserved, Done
<1>2. QED
  BY <1>1, RInvInvariance, PTL

(* CompletedMeansReset: a mirror that says "completed" is true, and V1 never writes to  *)
(* the source beside the record of the old handoff.                                     *)
THEOREM CompletedIsTrue == ResetSpec => []CompletedMeansReset
<1>1. RInv => CompletedMeansReset
  BY DEF RInv, CompletedMeansReset, Mirrored, Up, Preserved, Done
<1>2. QED
  BY <1>1, RInvInvariance, PTL
=============================================================================
