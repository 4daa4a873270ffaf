--------------------------- MODULE CdcHandoffProofs ---------------------------
(***************************************************************************)
(* Proofs about CdcHandoff, for any number of commits, requests and        *)
(* restarts of a connector's task: what is promoted has every commit, what *)
(* is reopened has every commit, and every request takes effect once.      *)
(***************************************************************************)
EXTENDS CdcHandoff, TLAPS

-----------------------------------------------------------------------------
(* The inductive invariant. *)

TypeInv == CdcTypeOK /\ (taken /\ consumer = "source" => offset < MaxRequests)

Promoting == {"openTarget", "route", "saveSwitched", "enable"}
Reopening == {"routeBack", "openSource", "saveReopened"}
Returning == {"dump", "restore", "import", "resume"}

\* The source's log: commits in their order, and markers.
LogOK ==
  /\ \A i \in 1..Len(log) : log[i] <= acked
  /\ \A i, j \in 1..Len(log) : i < j /\ log[j] # Marker => log[i] <= log[j]
Home == acked = 0 \/ \E i \in 1..Len(log) :
          log[i] = acked /\ \A j \in 1..Len(log) : j > i => log[j] = Marker

\* Who is under way, and who comes after whom.
Sequence ==
  /\ ctl # "end" => orch = "wait" /\ late = {} /\ result = "none"
  /\ ctl \in Promoting => intent
  /\ ctl \notin Promoting \cup {"end"} => ~intent
  /\ ctl \in Promoting \ {"openTarget"} => tgt = "open"
  /\ late # {} => intent /\ result # "switched"
  /\ result = "switched" => intent
  /\ tgt = "open" => intent
  /\ orch \in {"park", "snapshot"} \cup Returning => intent /\ result = "switched"
  /\ orch = "recover" => result # "switched"
  /\ orch \in Returning \cup Reopening => tgt = "fenced" /\ late = {}

\* The source is out of the way wherever the target is, or may become, the writer.
SourceShut ==
  /\ tgt = "open" \/ late # {} \/ ctl \in Promoting => src = "fenced"
  /\ orch \in {"snapshot", "dump", "restore", "import", "resume"} => route = "parked"

\* What a connector produced, and what a sink wrote, while the source is the writer.
LastOf(s) == IF topic[s] = <<>> THEN 0 ELSE topic[s][Len(topic[s])]
Streamed(s) ==
  /\ pos[s] <= Len(log)
  /\ \A i \in 1..pos[s] : log[i] <= LastOf(s)
  /\ LastOf(s) <= acked
  /\ rows[s] = IF done[s] = 0 THEN 0 ELSE topic[s][done[s]]

\* Both connectors have stopped and both groups are at the ends of their topics.
AllStopped == \A c \in Connectors : conn[c] = "stopped"
Emptied == AllStopped /\ \A s \in Connectors : done[s] = Len(topic[s])

Proven ==
  /\ kc \in {"tails", "publish"} => AllStopped /\ \A s \in Connectors : tails[s] = Len(topic[s])
  /\ kc = "publish" => done = tails
  /\ proof.equal => Emptied /\ proof.gtids = pos
  /\ stored.equal => Emptied /\ stored.gtids = pos

\* No commit follows the moment the source became read-only.
FrozenOK ==
  ctl \in {"marker", "super", "proof", "promote"} =>
    /\ src # "open"
    /\ \A i \in 1..Len(log) : i > frozen.gtids => log[i] = Marker

\* The target has everything from the promise on, until the source serves again.
Quiet == intent => Emptied
Handed == intent /\ ~(src = "open" /\ route = "source") => \A s \in Connectors : rows[s] = acked
Copied == orch \in {"restore", "import"} => copy = acked
Owned == ~intent \/ orch \in {"resume"} \cup Reopening \/ (src = "open" /\ route = "source") => Home

\* The application: what the fence waited for, and each request's one effect.
Fenced == ctl = "readOnly" => fencing /\ ~active /\ consumer = "none"
Once(r) ==
  /\ journal[r] <= acked
  /\ times[r] <= 1
  /\ r <= offset => times[r] = 1
  /\ r > offset => (times[r] = 1 <=> journal[r] # 0)
  /\ r > offset + 1 => times[r] = 0
  /\ r = offset + 1 /\ consumer = "source" => (taken <=> times[r] = 1)
Consuming == consumer = "target" => tgt = "open" /\ orch = "wait"

Streaming == \A s \in Connectors : done[s] <= Len(topic[s]) /\ (~intent => Streamed(s))
Requested == \A r \in Requests : Once(r)

CInv ==
  /\ TypeInv /\ LogOK /\ Sequence /\ SourceShut /\ Streaming /\ Proven /\ FrozenOK
  /\ Quiet /\ Handed /\ Copied /\ Owned
  /\ Fenced /\ Consuming /\ Requested

-----------------------------------------------------------------------------
(* Types. *)

DbType ==
  /\ src \in Flags /\ tgt \in Flags /\ route \in {"source", "target", "parked"}
  /\ log \in Seq(Nat) /\ rows \in [Connectors -> Nat] /\ acked \in 0..MaxCommits /\ copy \in Nat
StreamType ==
  /\ conn \in [Connectors -> {"running", "stopping", "stopped"}] /\ pos \in [Connectors -> Nat]
  /\ seen \subseteq Connectors /\ restarts \in 0..MaxRestarts
  /\ topic \in [Connectors -> Seq(Nat)] /\ done \in [Connectors -> Nat] /\ sinksUp \subseteq Connectors
AppType ==
  /\ fencing \in BOOLEAN /\ active \in BOOLEAN
  /\ offset \in 0..MaxRequests /\ journal \in [Requests -> Nat] /\ times \in [Requests -> Nat]
  /\ consumer \in {"source", "target", "none"} /\ taken \in BOOLEAN
  /\ taken /\ consumer = "source" => offset < MaxRequests
StepType ==
  /\ ctl \in {"ready", "watermark", "fence", "drain", "readOnly", "marker", "super", "proof",
             "promote", "openTarget", "route", "saveSwitched", "enable", "end"}
  /\ kc \in {"markers", "stopping", "tails", "publish", "end"}
  /\ orch \in {"wait", "recover", "routeBack", "openSource", "saveReopened",
              "park", "snapshot", "dump", "restore", "import", "resume", "end"}
  /\ clock \in 0..5 /\ intent \in BOOLEAN
  /\ phase \in {"preflight", "requests_queued", "source_drained", "write_drain_failed",
               "source_read_only", "source_fenced", "promotion_intent", "switched",
               "source_reopened"}
  /\ late \subseteq {"openTarget", "route"} /\ result \in {"none", "failed", "switched"}
ProofSet == [equal : BOOLEAN, gtids : [Connectors -> Nat], inTime : BOOLEAN, sent : BOOLEAN]
NoteType ==
  /\ frozen \in [gtids : Nat, position : Nat]
  /\ frontier \in [Connectors -> Nat] /\ tails \in [Connectors -> Nat]
  /\ proof \in ProofSet /\ stored \in ProofSet

LEMMA TypeParts == TypeInv <=> DbType /\ StreamType /\ AppType /\ StepType /\ NoteType
BY DEF TypeInv, CdcTypeOK, DbType, StreamType, AppType, StepType, NoteType, ProofSet

LEMMA TypePartsNext == TypeInv' <=> DbType' /\ StreamType' /\ AppType' /\ StepType' /\ NoteType'
BY DEF TypeInv, CdcTypeOK, DbType, StreamType, AppType, StepType, NoteType, ProofSet

LEMMA TypeInit == Init => TypeInv
<1> SUFFICES ASSUME Init PROVE TypeInv
  OBVIOUS
<1>1. NoProof \in ProofSet
  BY DEF NoProof, ProofSet
<1>2. DbType
  BY CdcAssumption DEF Init, DbType, Flags
<1>3. StreamType
  BY CdcAssumption DEF Init, StreamType
<1>4. AppType
  <2>1. journal \in [Requests -> Nat] /\ times = journal /\ offset = 0 /\ taken = FALSE
    BY DEF Init
  <2>2. 0 \in 0..MaxRequests
    BY CdcAssumption
  <2>3. fencing = FALSE /\ active = FALSE /\ consumer = "source"
    BY DEF Init
  <2>4. QED
    BY <2>1, <2>2, <2>3 DEF AppType
<1>5. StepType
  <2>1. ctl = "ready" /\ kc = "markers" /\ orch = "wait" /\ clock = 0 /\ phase = "preflight"
    BY DEF Init
  <2>2. intent = FALSE /\ late = {} /\ result = "none"
    BY DEF Init
  <2>3. late \subseteq {"openTarget", "route"}
    BY <2>2
  <2>4. clock \in 0..5
    BY <2>1
  <2>5. intent \in BOOLEAN
    BY <2>2
  <2>6. QED
    BY <2>1, <2>2, <2>3, <2>4, <2>5 DEF StepType
<1>6. NoteType
  BY <1>1 DEF Init, NoteType
<1>7. QED
  BY <1>2, <1>3, <1>4, <1>5, <1>6, TypeParts

LEMMA TypeApp ==
  ASSUME TypeInv, Application
  PROVE  TypeInv'
<1> USE CdcAssumption DEF Flags, Marker,
            dbVars, streamVars, appVars, saved, proofVars, ctlVars, elsewhere, beside, kcKeeps, outside,
            orchKeeps, Ctl, End, Save, Orch
<1>a. DbType /\ StreamType /\ AppType /\ StepType /\ NoteType
  BY TypeParts
<1>1. ASSUME DirectStarts PROVE DbType' /\ StreamType' /\ AppType' /\ StepType' /\ NoteType'
  <2>1. DbType'
    BY <1>a, <1>1 DEF DirectStarts, DbType
  <2>2. StreamType'
    BY <1>a, <1>1 DEF DirectStarts, StreamType
  <2>3. AppType'
    BY <1>a, <1>1 DEF DirectStarts, AppType
  <2>4. StepType'
    BY <1>a, <1>1 DEF DirectStarts, StepType
  <2>5. NoteType'
    BY <1>a, <1>1 DEF DirectStarts, NoteType
  <2>6. QED
    BY <2>1, <2>2, <2>3, <2>4, <2>5
<1>2. ASSUME DirectCommits PROVE DbType' /\ StreamType' /\ AppType' /\ StepType' /\ NoteType'
  <2>1. DbType'
    BY <1>a, <1>2 DEF DirectCommits, CommitInSource, DbType
  <2>2. StreamType'
    BY <1>a, <1>2 DEF DirectCommits, CommitInSource, StreamType
  <2>3. AppType'
    BY <1>a, <1>2 DEF DirectCommits, CommitInSource, AppType
  <2>4. StepType'
    BY <1>a, <1>2 DEF DirectCommits, CommitInSource, StepType
  <2>5. NoteType'
    BY <1>a, <1>2 DEF DirectCommits, CommitInSource, NoteType
  <2>6. QED
    BY <2>1, <2>2, <2>3, <2>4, <2>5
<1>3. ASSUME DirectEnds PROVE DbType' /\ StreamType' /\ AppType' /\ StepType' /\ NoteType'
  <2>1. DbType'
    BY <1>a, <1>3 DEF DirectEnds, DbType
  <2>2. StreamType'
    BY <1>a, <1>3 DEF DirectEnds, StreamType
  <2>3. AppType'
    BY <1>a, <1>3 DEF DirectEnds, AppType
  <2>4. StepType'
    BY <1>a, <1>3 DEF DirectEnds, StepType
  <2>5. NoteType'
    BY <1>a, <1>3 DEF DirectEnds, NoteType
  <2>6. QED
    BY <2>1, <2>2, <2>3, <2>4, <2>5
<1>4. ASSUME V2Commits PROVE DbType' /\ StreamType' /\ AppType' /\ StepType' /\ NoteType'
  <2>1. DbType'
    BY <1>a, <1>4 DEF V2Commits, CommitInTarget, DbType
  <2>2. StreamType'
    BY <1>a, <1>4 DEF V2Commits, CommitInTarget, StreamType
  <2>3. AppType'
    BY <1>a, <1>4 DEF V2Commits, CommitInTarget, AppType
  <2>4. StepType'
    BY <1>a, <1>4 DEF V2Commits, CommitInTarget, StepType
  <2>5. NoteType'
    BY <1>a, <1>4 DEF V2Commits, CommitInTarget, NoteType
  <2>6. QED
    BY <2>1, <2>2, <2>3, <2>4, <2>5
<1>5. ASSUME SourceApplies PROVE DbType' /\ StreamType' /\ AppType' /\ StepType' /\ NoteType'
  <2>1. DbType'
    BY <1>a, <1>5 DEF SourceApplies, CommitInSource, DbType
  <2>2. StreamType'
    BY <1>a, <1>5 DEF SourceApplies, CommitInSource, StreamType
  <2>3. AppType'
    <3>1. offset < MaxRequests /\ offset \in Nat /\ offset + 1 \in Requests
      BY <1>a, <1>5 DEF SourceApplies, AppType, Requests
    <3>2. acked' \in Nat
      BY <1>a, <1>5 DEF SourceApplies, CommitInSource, DbType
    <3>3. journal' \in [Requests -> Nat] /\ times' \in [Requests -> Nat]
      BY <1>a, <1>5, <3>1, <3>2 DEF SourceApplies, AppType
    <3>4. QED
      BY <1>a, <1>5, <3>1, <3>3 DEF SourceApplies, AppType
  <2>4. StepType'
    BY <1>a, <1>5 DEF SourceApplies, CommitInSource, StepType
  <2>5. NoteType'
    BY <1>a, <1>5 DEF SourceApplies, CommitInSource, NoteType
  <2>6. QED
    BY <2>1, <2>2, <2>3, <2>4, <2>5
<1>6. ASSUME SourceCommitsOffset PROVE DbType' /\ StreamType' /\ AppType' /\ StepType' /\ NoteType'
  <2>1. DbType'
    BY <1>a, <1>6 DEF SourceCommitsOffset, DbType
  <2>2. StreamType'
    BY <1>a, <1>6 DEF SourceCommitsOffset, StreamType
  <2>3. AppType'
    <3>1. offset < MaxRequests /\ offset \in 0..MaxRequests
      BY <1>a, <1>6 DEF SourceCommitsOffset, AppType
    <3>2. offset' = offset + 1 /\ taken' = FALSE
      BY <1>6 DEF SourceCommitsOffset
    <3>3. offset' \in 0..MaxRequests
      BY <3>1, <3>2
    <3>4. QED
      BY <1>a, <1>6, <3>2, <3>3 DEF SourceCommitsOffset, AppType
  <2>4. StepType'
    BY <1>a, <1>6 DEF SourceCommitsOffset, StepType
  <2>5. NoteType'
    BY <1>a, <1>6 DEF SourceCommitsOffset, NoteType
  <2>6. QED
    BY <2>1, <2>2, <2>3, <2>4, <2>5
<1>7. ASSUME ListenerStops PROVE DbType' /\ StreamType' /\ AppType' /\ StepType' /\ NoteType'
  <2>1. DbType'
    BY <1>a, <1>7 DEF ListenerStops, DbType
  <2>2. StreamType'
    BY <1>a, <1>7 DEF ListenerStops, StreamType
  <2>3. AppType'
    BY <1>a, <1>7 DEF ListenerStops, AppType
  <2>4. StepType'
    BY <1>a, <1>7 DEF ListenerStops, StepType
  <2>5. NoteType'
    BY <1>a, <1>7 DEF ListenerStops, NoteType
  <2>6. QED
    BY <2>1, <2>2, <2>3, <2>4, <2>5
<1>8. ASSUME TargetApplies PROVE DbType' /\ StreamType' /\ AppType' /\ StepType' /\ NoteType'
  <2>1. DbType'
    BY <1>a, <1>8 DEF TargetApplies, CommitInTarget, DbType
  <2>2. StreamType'
    BY <1>a, <1>8 DEF TargetApplies, CommitInTarget, StreamType
  <2>3. AppType'
    <3>1. offset < MaxRequests /\ offset \in 0..MaxRequests /\ offset' = offset + 1
      BY <1>a, <1>8 DEF TargetApplies, AppType
    <3>2. offset' \in 0..MaxRequests /\ offset + 1 \in Requests
      BY <3>1 DEF Requests
    <3>3. times' = times \/ times' = [times EXCEPT ![offset + 1] = @ + 1]
      BY <1>8 DEF TargetApplies
    <3>4. times' \in [Requests -> Nat]
      BY <1>a, <3>2, <3>3 DEF AppType
    <3>5. UNCHANGED <<fencing, active, journal, consumer, taken>> /\ consumer = "target"
      BY <1>8 DEF TargetApplies
    <3>6. QED
      BY <1>a, <3>2, <3>4, <3>5 DEF AppType
  <2>4. StepType'
    BY <1>a, <1>8 DEF TargetApplies, CommitInTarget, StepType
  <2>5. NoteType'
    BY <1>a, <1>8 DEF TargetApplies, CommitInTarget, NoteType
  <2>6. QED
    BY <2>1, <2>2, <2>3, <2>4, <2>5
<1>9. DbType' /\ StreamType' /\ AppType' /\ StepType' /\ NoteType'
  BY <1>1, <1>2, <1>3, <1>4, <1>5, <1>6, <1>7, <1>8 DEF Application
<1>10. QED
  BY <1>9, TypePartsNext

LEMMA TypeStreams ==
  ASSUME TypeInv, NEW c \in Connectors, Produce(c) \/ TaskRestarts(c) \/ Stops(c) \/ SinkApplies(c)
  PROVE  TypeInv'
<1> USE CdcAssumption DEF Flags, Marker,
            dbVars, streamVars, appVars, saved, proofVars, ctlVars, elsewhere, beside, kcKeeps, outside,
            orchKeeps, Ctl, End, Save, Orch
<1>a. DbType /\ StreamType /\ AppType /\ StepType /\ NoteType
  BY TypeParts
<1>1. ASSUME Produce(c) PROVE DbType' /\ StreamType' /\ AppType' /\ StepType' /\ NoteType'
  <2>1. DbType'
    BY <1>a, <1>1 DEF Produce, DbType
  <2>2. StreamType'
    <3>1. log[pos[c] + 1] \in Nat /\ pos[c] + 1 \in Nat
      BY SMTT(30), <1>a, <1>1 DEF Produce, StreamType, DbType
    <3>2. topic' \in [Connectors -> Seq(Nat)]
      <4>1. topic' = topic \/ topic' = [topic EXCEPT ![c] = Append(@, log[pos[c] + 1])]
        BY <1>1 DEF Produce
      <4>2. Append(topic[c], log[pos[c] + 1]) \in Seq(Nat)
        BY <1>a, <3>1 DEF StreamType
      <4>3. QED
        BY <1>a, <4>1, <4>2 DEF StreamType
    <3>3. pos' \in [Connectors -> Nat] /\ seen' \subseteq Connectors
      BY <1>a, <1>1, <3>1 DEF Produce, StreamType
    <3>4. QED
      BY <1>a, <1>1, <3>2, <3>3 DEF Produce, StreamType
  <2>3. AppType'
    BY <1>a, <1>1 DEF Produce, AppType
  <2>4. StepType'
    BY <1>a, <1>1 DEF Produce, StepType
  <2>5. NoteType'
    BY <1>a, <1>1 DEF Produce, NoteType
  <2>6. QED
    BY <2>1, <2>2, <2>3, <2>4, <2>5
<1>2. ASSUME TaskRestarts(c) PROVE DbType' /\ StreamType' /\ AppType' /\ StepType' /\ NoteType'
  <2>1. DbType'
    BY <1>a, <1>2 DEF TaskRestarts, DbType
  <2>2. StreamType'
    BY <1>a, <1>2 DEF TaskRestarts, StreamType
  <2>3. AppType'
    BY <1>a, <1>2 DEF TaskRestarts, AppType
  <2>4. StepType'
    BY <1>a, <1>2 DEF TaskRestarts, StepType
  <2>5. NoteType'
    BY <1>a, <1>2 DEF TaskRestarts, NoteType
  <2>6. QED
    BY <2>1, <2>2, <2>3, <2>4, <2>5
<1>3. ASSUME Stops(c) PROVE DbType' /\ StreamType' /\ AppType' /\ StepType' /\ NoteType'
  <2>1. DbType'
    BY <1>a, <1>3 DEF Stops, DbType
  <2>2. StreamType'
    BY <1>a, <1>3 DEF Stops, StreamType
  <2>3. AppType'
    BY <1>a, <1>3 DEF Stops, AppType
  <2>4. StepType'
    BY <1>a, <1>3 DEF Stops, StepType
  <2>5. NoteType'
    BY <1>a, <1>3 DEF Stops, NoteType
  <2>6. QED
    BY <2>1, <2>2, <2>3, <2>4, <2>5
<1>4. ASSUME SinkApplies(c) PROVE DbType' /\ StreamType' /\ AppType' /\ StepType' /\ NoteType'
  <2>1. DbType'
    BY <1>a, <1>4 DEF SinkApplies, DbType, StreamType
  <2>2. StreamType'
    BY <1>a, <1>4 DEF SinkApplies, StreamType
  <2>3. AppType'
    BY <1>a, <1>4 DEF SinkApplies, AppType
  <2>4. StepType'
    BY <1>a, <1>4 DEF SinkApplies, StepType
  <2>5. NoteType'
    BY <1>a, <1>4 DEF SinkApplies, NoteType
  <2>6. QED
    BY <2>1, <2>2, <2>3, <2>4, <2>5
<1>5. DbType' /\ StreamType' /\ AppType' /\ StepType' /\ NoteType'
  BY <1>1, <1>2, <1>3, <1>4
<1>6. QED
  BY <1>5, TypePartsNext

LEMMA TypeBoundary ==
  ASSUME TypeInv, Boundary
  PROVE  TypeInv'
<1> USE CdcAssumption DEF Flags, Marker,
            dbVars, streamVars, appVars, saved, proofVars, ctlVars, elsewhere, beside, kcKeeps, outside,
            orchKeeps, Ctl, End, Save, Orch
<1>a. DbType /\ StreamType /\ AppType /\ StepType /\ NoteType
  BY TypeParts
<1>1. ASSUME StopSources PROVE DbType' /\ StreamType' /\ AppType' /\ StepType' /\ NoteType'
  <2>1. DbType'
    BY <1>a, <1>1 DEF StopSources, DbType
  <2>2. StreamType'
    BY <1>a, <1>1 DEF StopSources, StreamType
  <2>3. AppType'
    BY <1>a, <1>1 DEF StopSources, AppType
  <2>4. StepType'
    BY <1>a, <1>1 DEF StopSources, StepType
  <2>5. NoteType'
    BY <1>a, <1>1 DEF StopSources, NoteType
  <2>6. QED
    BY <2>1, <2>2, <2>3, <2>4, <2>5
<1>2. ASSUME FreezeTails PROVE DbType' /\ StreamType' /\ AppType' /\ StepType' /\ NoteType'
  <2>1. DbType'
    BY <1>a, <1>2 DEF FreezeTails, DbType
  <2>2. StreamType'
    BY <1>a, <1>2 DEF FreezeTails, StreamType
  <2>3. AppType'
    BY <1>a, <1>2 DEF FreezeTails, AppType
  <2>4. StepType'
    BY <1>a, <1>2 DEF FreezeTails, StepType
  <2>5. NoteType'
    BY <1>a, <1>2 DEF FreezeTails, NoteType, StreamType
  <2>6. QED
    BY <2>1, <2>2, <2>3, <2>4, <2>5
<1>3. ASSUME Caught PROVE DbType' /\ StreamType' /\ AppType' /\ StepType' /\ NoteType'
  <2>1. DbType'
    BY <1>a, <1>3 DEF Caught, DbType
  <2>2. StreamType'
    BY <1>a, <1>3 DEF Caught, StreamType
  <2>3. AppType'
    BY <1>a, <1>3 DEF Caught, AppType
  <2>4. StepType'
    BY <1>a, <1>3 DEF Caught, StepType
  <2>5. NoteType'
    BY <1>a, <1>3 DEF Caught, NoteType
  <2>6. QED
    BY <2>1, <2>2, <2>3, <2>4, <2>5
<1>4. ASSUME PublishProof PROVE DbType' /\ StreamType' /\ AppType' /\ StepType' /\ NoteType'
  <2>1. DbType'
    BY <1>a, <1>4 DEF PublishProof, DbType
  <2>2. StreamType'
    BY <1>a, <1>4 DEF PublishProof, StreamType
  <2>3. AppType'
    BY <1>a, <1>4 DEF PublishProof, AppType
  <2>4. StepType'
    BY <1>a, <1>4 DEF PublishProof, StepType
  <2>5. NoteType'
    BY <1>a, <1>4 DEF PublishProof, NoteType, StreamType, ProofSet, Validating
  <2>6. QED
    BY <2>1, <2>2, <2>3, <2>4, <2>5
<1>5. ASSUME PublishFailure PROVE DbType' /\ StreamType' /\ AppType' /\ StepType' /\ NoteType'
  <2>1. DbType'
    BY <1>a, <1>5 DEF PublishFailure, DbType
  <2>2. StreamType'
    BY <1>a, <1>5 DEF PublishFailure, StreamType
  <2>3. AppType'
    BY <1>a, <1>5 DEF PublishFailure, AppType
  <2>4. StepType'
    BY <1>a, <1>5 DEF PublishFailure, StepType
  <2>5. NoteType'
    BY <1>a, <1>5 DEF PublishFailure, NoteType, ProofSet, NoProof
  <2>6. QED
    BY <2>1, <2>2, <2>3, <2>4, <2>5
<1>6. DbType' /\ StreamType' /\ AppType' /\ StepType' /\ NoteType'
  BY <1>1, <1>2, <1>3, <1>4, <1>5 DEF Boundary
<1>7. QED
  BY <1>6, TypePartsNext

LEMMA TypeControl ==
  ASSUME TypeInv, Control \/ CtlFails \/ LateStatement \/ TimePasses
  PROVE  TypeInv'
<1> USE CdcAssumption DEF Flags, Marker,
            dbVars, streamVars, appVars, saved, proofVars, ctlVars, elsewhere, beside, kcKeeps, outside,
            orchKeeps, Ctl, End, Save, Orch
<1>a. DbType /\ StreamType /\ AppType /\ StepType /\ NoteType
  BY TypeParts
<1>1. ASSUME NoteFrontier PROVE DbType' /\ StreamType' /\ AppType' /\ StepType' /\ NoteType'
  <2>1. DbType'
    BY <1>a, <1>1 DEF NoteFrontier, DbType
  <2>2. StreamType'
    BY <1>a, <1>1 DEF NoteFrontier, StreamType
  <2>3. AppType'
    BY <1>a, <1>1 DEF NoteFrontier, AppType
  <2>4. StepType'
    BY <1>a, <1>1 DEF NoteFrontier, StepType
  <2>5. NoteType'
    BY <1>a, <1>1 DEF NoteFrontier, NoteType, StreamType
  <2>6. QED
    BY <2>1, <2>2, <2>3, <2>4, <2>5
<1>2. ASSUME Ready PROVE DbType' /\ StreamType' /\ AppType' /\ StepType' /\ NoteType'
  <2>1. DbType'
    BY <1>a, <1>2 DEF Ready, DbType
  <2>2. StreamType'
    BY <1>a, <1>2 DEF Ready, StreamType
  <2>3. AppType'
    BY <1>a, <1>2 DEF Ready, AppType
  <2>4. StepType'
    BY <1>a, <1>2 DEF Ready, StepType
  <2>5. NoteType'
    BY <1>a, <1>2 DEF Ready, NoteType
  <2>6. QED
    BY <2>1, <2>2, <2>3, <2>4, <2>5
<1>3. ASSUME NotReady PROVE DbType' /\ StreamType' /\ AppType' /\ StepType' /\ NoteType'
  <2>1. DbType'
    BY <1>a, <1>3 DEF NotReady, DbType
  <2>2. StreamType'
    BY <1>a, <1>3 DEF NotReady, StreamType
  <2>3. AppType'
    BY <1>a, <1>3 DEF NotReady, AppType
  <2>4. StepType'
    BY <1>a, <1>3 DEF NotReady, StepType
  <2>5. NoteType'
    BY <1>a, <1>3 DEF NotReady, NoteType
  <2>6. QED
    BY <2>1, <2>2, <2>3, <2>4, <2>5
<1>4. ASSUME FenceApp PROVE DbType' /\ StreamType' /\ AppType' /\ StepType' /\ NoteType'
  <2>1. DbType'
    BY <1>a, <1>4 DEF FenceApp, DbType
  <2>2. StreamType'
    BY <1>a, <1>4 DEF FenceApp, StreamType
  <2>3. AppType'
    BY <1>a, <1>4 DEF FenceApp, AppType
  <2>4. StepType'
    BY <1>a, <1>4 DEF FenceApp, StepType
  <2>5. NoteType'
    BY <1>a, <1>4 DEF FenceApp, NoteType
  <2>6. QED
    BY <2>1, <2>2, <2>3, <2>4, <2>5
<1>5. ASSUME Drained PROVE DbType' /\ StreamType' /\ AppType' /\ StepType' /\ NoteType'
  <2>1. DbType'
    BY <1>a, <1>5 DEF Drained, DbType
  <2>2. StreamType'
    BY <1>a, <1>5 DEF Drained, StreamType
  <2>3. AppType'
    BY <1>a, <1>5 DEF Drained, AppType
  <2>4. StepType'
    BY <1>a, <1>5 DEF Drained, StepType
  <2>5. NoteType'
    BY <1>a, <1>5 DEF Drained, NoteType
  <2>6. QED
    BY <2>1, <2>2, <2>3, <2>4, <2>5
<1>6. ASSUME DrainFails PROVE DbType' /\ StreamType' /\ AppType' /\ StepType' /\ NoteType'
  <2>1. DbType'
    BY <1>a, <1>6 DEF DrainFails, DbType
  <2>2. StreamType'
    BY <1>a, <1>6 DEF DrainFails, StreamType
  <2>3. AppType'
    BY <1>a, <1>6 DEF DrainFails, AppType
  <2>4. StepType'
    BY <1>a, <1>6 DEF DrainFails, StepType
  <2>5. NoteType'
    BY <1>a, <1>6 DEF DrainFails, NoteType
  <2>6. QED
    BY <2>1, <2>2, <2>3, <2>4, <2>5
<1>7. ASSUME SetReadOnly PROVE DbType' /\ StreamType' /\ AppType' /\ StepType' /\ NoteType'
  <2>1. DbType'
    BY <1>a, <1>7 DEF SetReadOnly, DbType
  <2>2. StreamType'
    BY <1>a, <1>7 DEF SetReadOnly, StreamType
  <2>3. AppType'
    BY <1>a, <1>7 DEF SetReadOnly, AppType
  <2>4. StepType'
    BY <1>a, <1>7 DEF SetReadOnly, StepType
  <2>5. NoteType'
    <3>1. Len(log) \in Nat
      BY <1>a DEF DbType
    <3>2. frozen' \in [gtids : Nat, position : Nat]
      BY <1>a, <1>7, <3>1 DEF SetReadOnly, NoteType
    <3>3. QED
      BY <1>a, <1>7, <3>2 DEF SetReadOnly, NoteType
  <2>6. QED
    BY <2>1, <2>2, <2>3, <2>4, <2>5
<1>8. ASSUME InsertMarker PROVE DbType' /\ StreamType' /\ AppType' /\ StepType' /\ NoteType'
  <2>1. DbType'
    BY <1>a, <1>8 DEF InsertMarker, DbType
  <2>2. StreamType'
    BY <1>a, <1>8 DEF InsertMarker, StreamType
  <2>3. AppType'
    BY <1>a, <1>8 DEF InsertMarker, AppType
  <2>4. StepType'
    BY <1>a, <1>8 DEF InsertMarker, StepType
  <2>5. NoteType'
    BY <1>a, <1>8 DEF InsertMarker, NoteType
  <2>6. QED
    BY <2>1, <2>2, <2>3, <2>4, <2>5
<1>9. ASSUME SetSuperReadOnly PROVE DbType' /\ StreamType' /\ AppType' /\ StepType' /\ NoteType'
  <2>1. DbType'
    BY <1>a, <1>9 DEF SetSuperReadOnly, DbType
  <2>2. StreamType'
    BY <1>a, <1>9 DEF SetSuperReadOnly, StreamType
  <2>3. AppType'
    BY <1>a, <1>9 DEF SetSuperReadOnly, AppType
  <2>4. StepType'
    BY <1>a, <1>9 DEF SetSuperReadOnly, StepType
  <2>5. NoteType'
    <3>1. Len(log) \in Nat
      BY <1>a DEF DbType
    <3>2. frozen' \in [gtids : Nat, position : Nat]
      BY <1>a, <1>9, <3>1 DEF SetSuperReadOnly, NoteType
    <3>3. QED
      BY <1>a, <1>9, <3>2 DEF SetSuperReadOnly, NoteType
  <2>6. QED
    BY <2>1, <2>2, <2>3, <2>4, <2>5
<1>10. ASSUME ReceiveProof PROVE DbType' /\ StreamType' /\ AppType' /\ StepType' /\ NoteType'
  <2>1. DbType'
    BY <1>a, <1>10 DEF ReceiveProof, DbType
  <2>2. StreamType'
    BY <1>a, <1>10 DEF ReceiveProof, StreamType
  <2>3. AppType'
    BY <1>a, <1>10 DEF ReceiveProof, AppType
  <2>4. StepType'
    BY <1>a, <1>10 DEF ReceiveProof, StepType
  <2>5. NoteType'
    BY <1>a, <1>10 DEF ReceiveProof, NoteType
  <2>6. QED
    BY <2>1, <2>2, <2>3, <2>4, <2>5
<1>11. ASSUME NoValidProof PROVE DbType' /\ StreamType' /\ AppType' /\ StepType' /\ NoteType'
  <2>1. DbType'
    BY <1>a, <1>11 DEF NoValidProof, DbType
  <2>2. StreamType'
    BY <1>a, <1>11 DEF NoValidProof, StreamType
  <2>3. AppType'
    BY <1>a, <1>11 DEF NoValidProof, AppType
  <2>4. StepType'
    BY <1>a, <1>11 DEF NoValidProof, StepType
  <2>5. NoteType'
    BY <1>a, <1>11 DEF NoValidProof, NoteType
  <2>6. QED
    BY <2>1, <2>2, <2>3, <2>4, <2>5
<1>12. ASSUME Promise PROVE DbType' /\ StreamType' /\ AppType' /\ StepType' /\ NoteType'
  <2>1. DbType'
    BY <1>a, <1>12 DEF Promise, DbType
  <2>2. StreamType'
    BY <1>a, <1>12 DEF Promise, StreamType
  <2>3. AppType'
    BY <1>a, <1>12 DEF Promise, AppType
  <2>4. StepType'
    BY <1>a, <1>12 DEF Promise, StepType
  <2>5. NoteType'
    BY <1>a, <1>12 DEF Promise, NoteType
  <2>6. QED
    BY <2>1, <2>2, <2>3, <2>4, <2>5
<1>13. ASSUME PromoteRefused PROVE DbType' /\ StreamType' /\ AppType' /\ StepType' /\ NoteType'
  <2>1. DbType'
    BY <1>a, <1>13 DEF PromoteRefused, DbType
  <2>2. StreamType'
    BY <1>a, <1>13 DEF PromoteRefused, StreamType
  <2>3. AppType'
    BY <1>a, <1>13 DEF PromoteRefused, AppType
  <2>4. StepType'
    BY <1>a, <1>13 DEF PromoteRefused, StepType
  <2>5. NoteType'
    BY <1>a, <1>13 DEF PromoteRefused, NoteType
  <2>6. QED
    BY <2>1, <2>2, <2>3, <2>4, <2>5
<1>14. ASSUME OpenTarget PROVE DbType' /\ StreamType' /\ AppType' /\ StepType' /\ NoteType'
  <2>1. DbType'
    BY <1>a, <1>14 DEF OpenTarget, DbType
  <2>2. StreamType'
    BY <1>a, <1>14 DEF OpenTarget, StreamType
  <2>3. AppType'
    BY <1>a, <1>14 DEF OpenTarget, AppType
  <2>4. StepType'
    BY <1>a, <1>14 DEF OpenTarget, StepType
  <2>5. NoteType'
    BY <1>a, <1>14 DEF OpenTarget, NoteType
  <2>6. QED
    BY <2>1, <2>2, <2>3, <2>4, <2>5
<1>15. ASSUME RouteToTarget PROVE DbType' /\ StreamType' /\ AppType' /\ StepType' /\ NoteType'
  <2>1. DbType'
    BY <1>a, <1>15 DEF RouteToTarget, DbType
  <2>2. StreamType'
    BY <1>a, <1>15 DEF RouteToTarget, StreamType
  <2>3. AppType'
    BY <1>a, <1>15 DEF RouteToTarget, AppType
  <2>4. StepType'
    BY <1>a, <1>15 DEF RouteToTarget, StepType
  <2>5. NoteType'
    BY <1>a, <1>15 DEF RouteToTarget, NoteType
  <2>6. QED
    BY <2>1, <2>2, <2>3, <2>4, <2>5
<1>16. ASSUME SaveSwitched PROVE DbType' /\ StreamType' /\ AppType' /\ StepType' /\ NoteType'
  <2>1. DbType'
    BY <1>a, <1>16 DEF SaveSwitched, DbType
  <2>2. StreamType'
    BY <1>a, <1>16 DEF SaveSwitched, StreamType
  <2>3. AppType'
    BY <1>a, <1>16 DEF SaveSwitched, AppType
  <2>4. StepType'
    BY <1>a, <1>16 DEF SaveSwitched, StepType
  <2>5. NoteType'
    BY <1>a, <1>16 DEF SaveSwitched, NoteType
  <2>6. QED
    BY <2>1, <2>2, <2>3, <2>4, <2>5
<1>17. ASSUME EnableConsumer PROVE DbType' /\ StreamType' /\ AppType' /\ StepType' /\ NoteType'
  <2>1. DbType'
    BY <1>a, <1>17 DEF EnableConsumer, DbType
  <2>2. StreamType'
    BY <1>a, <1>17 DEF EnableConsumer, StreamType
  <2>3. AppType'
    BY <1>a, <1>17 DEF EnableConsumer, AppType
  <2>4. StepType'
    BY <1>a, <1>17 DEF EnableConsumer, StepType
  <2>5. NoteType'
    BY <1>a, <1>17 DEF EnableConsumer, NoteType
  <2>6. QED
    BY <2>1, <2>2, <2>3, <2>4, <2>5
<1>18. ASSUME CtlFails PROVE DbType' /\ StreamType' /\ AppType' /\ StepType' /\ NoteType'
  <2>1. DbType'
    BY <1>a, <1>18 DEF CtlFails, DbType
  <2>2. StreamType'
    BY <1>a, <1>18 DEF CtlFails, StreamType
  <2>3. AppType'
    BY <1>a, <1>18 DEF CtlFails, AppType
  <2>4. StepType'
    BY <1>a, <1>18 DEF CtlFails, StepType
  <2>5. NoteType'
    BY <1>a, <1>18 DEF CtlFails, NoteType
  <2>6. QED
    BY <2>1, <2>2, <2>3, <2>4, <2>5
<1>19. ASSUME LateStatement PROVE DbType' /\ StreamType' /\ AppType' /\ StepType' /\ NoteType'
  <2>1. DbType'
    BY <1>a, <1>19 DEF LateStatement, DbType
  <2>2. StreamType'
    BY <1>a, <1>19 DEF LateStatement, StreamType
  <2>3. AppType'
    BY <1>a, <1>19 DEF LateStatement, AppType
  <2>4. StepType'
    BY <1>a, <1>19 DEF LateStatement, StepType
  <2>5. NoteType'
    BY <1>a, <1>19 DEF LateStatement, NoteType
  <2>6. QED
    BY <2>1, <2>2, <2>3, <2>4, <2>5
<1>20. ASSUME TimePasses PROVE DbType' /\ StreamType' /\ AppType' /\ StepType' /\ NoteType'
  <2>1. DbType'
    BY <1>a, <1>20 DEF TimePasses, DbType
  <2>2. StreamType'
    BY <1>a, <1>20 DEF TimePasses, StreamType
  <2>3. AppType'
    BY <1>a, <1>20 DEF TimePasses, AppType
  <2>4. StepType'
    BY <1>a, <1>20 DEF TimePasses, StepType
  <2>5. NoteType'
    BY <1>a, <1>20 DEF TimePasses, NoteType
  <2>6. QED
    BY <2>1, <2>2, <2>3, <2>4, <2>5
<1>21. DbType' /\ StreamType' /\ AppType' /\ StepType' /\ NoteType'
  BY <1>1, <1>2, <1>3, <1>4, <1>5, <1>6, <1>7, <1>8, <1>9, <1>10, <1>11, <1>12, <1>13,
       <1>14, <1>15, <1>16, <1>17, <1>18, <1>19, <1>20 DEF Control
<1>22. QED
  BY <1>21, TypePartsNext

LEMMA TypeOrch ==
  ASSUME TypeInv, Orchestrate
  PROVE  TypeInv'
<1> USE CdcAssumption DEF Flags, Marker,
            dbVars, streamVars, appVars, saved, proofVars, ctlVars, elsewhere, beside, kcKeeps, outside,
            orchKeeps, Ctl, End, Save, Orch
<1>a. DbType /\ StreamType /\ AppType /\ StepType /\ NoteType
  BY TypeParts
<1>1. ASSUME StopAll PROVE DbType' /\ StreamType' /\ AppType' /\ StepType' /\ NoteType'
  <2>1. DbType'
    BY <1>a, <1>1 DEF StopAll, DbType
  <2>2. StreamType'
    BY <1>a, <1>1 DEF StopAll, StreamType
  <2>3. AppType'
    BY <1>a, <1>1 DEF StopAll, AppType
  <2>4. StepType'
    BY <1>a, <1>1 DEF StopAll, StepType
  <2>5. NoteType'
    BY <1>a, <1>1 DEF StopAll, NoteType
  <2>6. QED
    BY <2>1, <2>2, <2>3, <2>4, <2>5
<1>2. ASSUME Recover PROVE DbType' /\ StreamType' /\ AppType' /\ StepType' /\ NoteType'
  <2>1. DbType'
    BY <1>a, <1>2 DEF Recover, MayRecover, DbType
  <2>2. StreamType'
    BY <1>a, <1>2 DEF Recover, MayRecover, StreamType
  <2>3. AppType'
    BY <1>a, <1>2 DEF Recover, MayRecover, AppType
  <2>4. StepType'
    BY <1>a, <1>2 DEF Recover, MayRecover, StepType
  <2>5. NoteType'
    BY <1>a, <1>2 DEF Recover, MayRecover, NoteType
  <2>6. QED
    BY <2>1, <2>2, <2>3, <2>4, <2>5
<1>3. ASSUME RouteBack PROVE DbType' /\ StreamType' /\ AppType' /\ StepType' /\ NoteType'
  <2>1. DbType'
    BY <1>a, <1>3 DEF RouteBack, DbType
  <2>2. StreamType'
    BY <1>a, <1>3 DEF RouteBack, StreamType
  <2>3. AppType'
    BY <1>a, <1>3 DEF RouteBack, AppType
  <2>4. StepType'
    BY <1>a, <1>3 DEF RouteBack, StepType
  <2>5. NoteType'
    BY <1>a, <1>3 DEF RouteBack, NoteType
  <2>6. QED
    BY <2>1, <2>2, <2>3, <2>4, <2>5
<1>4. ASSUME OpenSource PROVE DbType' /\ StreamType' /\ AppType' /\ StepType' /\ NoteType'
  <2>1. DbType'
    BY <1>a, <1>4 DEF OpenSource, DbType
  <2>2. StreamType'
    BY <1>a, <1>4 DEF OpenSource, StreamType
  <2>3. AppType'
    BY <1>a, <1>4 DEF OpenSource, AppType
  <2>4. StepType'
    BY <1>a, <1>4 DEF OpenSource, StepType
  <2>5. NoteType'
    BY <1>a, <1>4 DEF OpenSource, NoteType
  <2>6. QED
    BY <2>1, <2>2, <2>3, <2>4, <2>5
<1>5. ASSUME SaveReopened PROVE DbType' /\ StreamType' /\ AppType' /\ StepType' /\ NoteType'
  <2>1. DbType'
    BY <1>a, <1>5 DEF SaveReopened, DbType
  <2>2. StreamType'
    BY <1>a, <1>5 DEF SaveReopened, StreamType
  <2>3. AppType'
    BY <1>a, <1>5 DEF SaveReopened, AppType
  <2>4. StepType'
    BY <1>a, <1>5 DEF SaveReopened, StepType
  <2>5. NoteType'
    BY <1>a, <1>5 DEF SaveReopened, NoteType
  <2>6. QED
    BY <2>1, <2>2, <2>3, <2>4, <2>5
<1>6. ASSUME Park PROVE DbType' /\ StreamType' /\ AppType' /\ StepType' /\ NoteType'
  <2>1. DbType'
    BY <1>a, <1>6 DEF Park, DbType
  <2>2. StreamType'
    BY <1>a, <1>6 DEF Park, StreamType
  <2>3. AppType'
    BY <1>a, <1>6 DEF Park, AppType
  <2>4. StepType'
    BY <1>a, <1>6 DEF Park, StepType
  <2>5. NoteType'
    BY <1>a, <1>6 DEF Park, NoteType
  <2>6. QED
    BY <2>1, <2>2, <2>3, <2>4, <2>5
<1>7. ASSUME PreserveTarget PROVE DbType' /\ StreamType' /\ AppType' /\ StepType' /\ NoteType'
  <2>1. DbType'
    BY <1>a, <1>7 DEF PreserveTarget, DbType
  <2>2. StreamType'
    BY <1>a, <1>7 DEF PreserveTarget, StreamType
  <2>3. AppType'
    BY <1>a, <1>7 DEF PreserveTarget, AppType
  <2>4. StepType'
    BY <1>a, <1>7 DEF PreserveTarget, StepType
  <2>5. NoteType'
    BY <1>a, <1>7 DEF PreserveTarget, NoteType
  <2>6. QED
    BY <2>1, <2>2, <2>3, <2>4, <2>5
<1>8. ASSUME DumpTarget PROVE DbType' /\ StreamType' /\ AppType' /\ StepType' /\ NoteType'
  <2>1. DbType'
    <3>1. copy' \in Nat
      BY <1>a, <1>8 DEF DumpTarget, DbType, Connectors
    <3>2. QED
      BY <1>a, <1>8, <3>1 DEF DumpTarget, DbType
  <2>2. StreamType'
    BY <1>a, <1>8 DEF DumpTarget, StreamType
  <2>3. AppType'
    BY <1>a, <1>8 DEF DumpTarget, AppType
  <2>4. StepType'
    BY <1>a, <1>8 DEF DumpTarget, StepType
  <2>5. NoteType'
    BY <1>a, <1>8 DEF DumpTarget, NoteType
  <2>6. QED
    BY <2>1, <2>2, <2>3, <2>4, <2>5
<1>9. ASSUME RestoreStarts PROVE DbType' /\ StreamType' /\ AppType' /\ StepType' /\ NoteType'
  <2>1. DbType'
    BY <1>a, <1>9 DEF RestoreStarts, DbType
  <2>2. StreamType'
    BY <1>a, <1>9 DEF RestoreStarts, StreamType
  <2>3. AppType'
    BY <1>a, <1>9 DEF RestoreStarts, AppType
  <2>4. StepType'
    BY <1>a, <1>9 DEF RestoreStarts, StepType
  <2>5. NoteType'
    BY <1>a, <1>9 DEF RestoreStarts, NoteType
  <2>6. QED
    BY <2>1, <2>2, <2>3, <2>4, <2>5
<1>10. ASSUME RestoreEnds PROVE DbType' /\ StreamType' /\ AppType' /\ StepType' /\ NoteType'
  <2>1. DbType'
    BY <1>a, <1>10 DEF RestoreEnds, DbType
  <2>2. StreamType'
    BY <1>a, <1>10 DEF RestoreEnds, StreamType
  <2>3. AppType'
    BY <1>a, <1>10 DEF RestoreEnds, AppType
  <2>4. StepType'
    BY <1>a, <1>10 DEF RestoreEnds, StepType
  <2>5. NoteType'
    BY <1>a, <1>10 DEF RestoreEnds, NoteType
  <2>6. QED
    BY <2>1, <2>2, <2>3, <2>4, <2>5
<1>11. ASSUME Resume PROVE DbType' /\ StreamType' /\ AppType' /\ StepType' /\ NoteType'
  <2>1. DbType'
    BY <1>a, <1>11 DEF Resume, DbType
  <2>2. StreamType'
    BY <1>a, <1>11 DEF Resume, StreamType
  <2>3. AppType'
    BY <1>a, <1>11 DEF Resume, AppType
  <2>4. StepType'
    BY <1>a, <1>11 DEF Resume, StepType
  <2>5. NoteType'
    BY <1>a, <1>11 DEF Resume, NoteType
  <2>6. QED
    BY <2>1, <2>2, <2>3, <2>4, <2>5
<1>12. ASSUME OrchFails PROVE DbType' /\ StreamType' /\ AppType' /\ StepType' /\ NoteType'
  <2>1. DbType'
    BY <1>a, <1>12 DEF OrchFails, DbType
  <2>2. StreamType'
    BY <1>a, <1>12 DEF OrchFails, StreamType
  <2>3. AppType'
    BY <1>a, <1>12 DEF OrchFails, AppType
  <2>4. StepType'
    BY <1>a, <1>12 DEF OrchFails, StepType
  <2>5. NoteType'
    BY <1>a, <1>12 DEF OrchFails, NoteType
  <2>6. QED
    BY <2>1, <2>2, <2>3, <2>4, <2>5
<1>13. DbType' /\ StreamType' /\ AppType' /\ StepType' /\ NoteType'
  BY <1>1, <1>2, <1>3, <1>4, <1>5, <1>6, <1>7, <1>8, <1>9, <1>10, <1>11, <1>12 DEF
       Orchestrate
<1>14. QED
  BY <1>13, TypePartsNext

-----------------------------------------------------------------------------
(* The invariant. *)

LEMMA CInvInit == Init => CInv
<1> SUFFICES ASSUME Init PROVE CInv
  OBVIOUS
<1>1. TypeInv
  BY TypeInit
<1>2. LogOK /\ Streaming
  BY DEF Init, LogOK, Streaming, Streamed, LastOf
<1>3. Sequence /\ SourceShut
  BY DEF Init, Sequence, SourceShut, Promoting, Reopening, Returning
<1>4. Proven /\ FrozenOK
  BY DEF Init, Proven, FrozenOK, NoProof
<1>5. Quiet /\ Handed /\ Copied /\ Owned
  BY DEF Init, Quiet, Handed, Copied, Owned, Home
<1>6. Fenced /\ Consuming
  BY DEF Init, Fenced, Consuming
<1>7. Requested
  BY DEF Init, Requested, Once, Requests
<1>8. QED
  BY <1>1, <1>2, <1>3, <1>4, <1>5, <1>6, <1>7 DEF CInv

\* A log that grows leaves what a connector produced of it alone.
LEMMA Appended ==
  ASSUME DbType, NEW n \in Nat, log' = Append(log, n)
  PROVE  /\ Len(log') = Len(log) + 1 /\ Len(log) \in Nat /\ log'[Len(log) + 1] = n
         /\ \A i \in 1..Len(log) : log'[i] = log[i]
BY DEF DbType

LEMMA StreamingLog ==
  ASSUME DbType, DbType', StreamType, Streaming, UNCHANGED <<pos, topic, done, rows, intent>>,
         acked <= acked', NEW n \in Nat, log' = Append(log, n)
  PROVE  Streaming'
<1>1. /\ Len(log') = Len(log) + 1 /\ Len(log) \in Nat
      /\ \A i \in 1..Len(log) : log'[i] = log[i]
  BY Appended
<1>2. SUFFICES ASSUME NEW s \in Connectors, ~intent PROVE Streamed(s)'
  BY DEF Streaming
<1>3. pos[s] \in Nat /\ acked \in Nat /\ acked' \in Nat /\ Streamed(s) /\ LastOf(s)' = LastOf(s)
  BY <1>2 DEF Streaming, StreamType, DbType, LastOf
<1>4. LastOf(s) \in Nat
  BY DEF LastOf, StreamType
<1>5. \A i \in 1..pos[s] : log'[i] <= LastOf(s)
  BY <1>1, <1>3 DEF Streamed
<1>6. QED
  BY <1>1, <1>3, <1>4, <1>5 DEF Streamed

\* Each request's effect, when one is applied: the one after the offset.
LEMMA Applied ==
  ASSUME DbType, DbType', AppType, Requested, offset < MaxRequests, acked <= acked',
         times[offset + 1] = 0, times' = [times EXCEPT ![offset + 1] = @ + 1],
         NEW n \in 0..acked', journal' = [journal EXCEPT ![offset + 1] = n],
         \/ offset' = offset /\ n # 0 /\ taken'
         \/ offset' = offset + 1 /\ n = 0 /\ journal' = journal /\ consumer' # "source"
  PROVE  Requested'
<1> SUFFICES ASSUME NEW r \in Requests PROVE Once(r)'
  BY DEF Requested
<1>1. /\ offset \in Nat /\ MaxRequests \in Nat /\ r \in Nat /\ acked \in Nat /\ acked' \in Nat
      /\ journal \in [Requests -> Nat] /\ times \in [Requests -> Nat] /\ offset + 1 \in Requests
  BY CdcAssumption DEF DbType, AppType, Requests
<1>2. Once(r)
  BY DEF Requested
<1>3. CASE r = offset + 1
  <2>1. times'[r] = 1 /\ journal'[r] = n
    BY <1>1, <1>3
  <2>2. QED
    BY <1>1, <1>3, <2>1 DEF Once
<1>4. CASE r # offset + 1
  <2>1. times'[r] = times[r] /\ journal'[r] = journal[r]
    BY <1>1, <1>4
  <2>2. QED
    BY <1>1, <1>2, <1>4, <2>1 DEF Once
<1>5. QED
  BY <1>3, <1>4

\* The next request has its effect, and the offset passes it.
LEMMA Passed ==
  ASSUME DbType, AppType, Requested, offset < MaxRequests, UNCHANGED <<acked, journal, times>>,
         times[offset + 1] = 1, offset' = offset + 1, consumer' # "source" \/ ~taken'
  PROVE  Requested'
<1> SUFFICES ASSUME NEW r \in Requests PROVE Once(r)'
  BY DEF Requested
<1>1. offset \in Nat /\ r \in Nat /\ Once(r)
  BY DEF AppType, Requests, Requested
<1>2. QED
  BY <1>1 DEF Once

LEMMA StepApp ==
  ASSUME CInv, TypeInv', Application
  PROVE  CInv'
<1> USE CdcAssumption DEF Marker,
            dbVars, streamVars, appVars, saved, proofVars, ctlVars, elsewhere, beside, kcKeeps, outside,
            orchKeeps, Ctl, End, Save, Orch
<1>a. /\ DbType /\ StreamType /\ AppType /\ StepType /\ NoteType
      /\ LogOK /\ Sequence /\ SourceShut /\ Streaming /\ Proven /\ FrozenOK /\ Quiet
      /\ Handed /\ Copied /\ Owned /\ Fenced /\ Consuming /\ Requested
  BY TypeParts DEF CInv
<1>b. DbType' /\ StreamType' /\ AppType' /\ StepType' /\ NoteType'
  BY TypePartsNext
<1>1. ASSUME DirectStarts PROVE CInv'
  <2>1. LogOK'
    BY <1>a, <1>1 DEF DirectStarts, LogOK, DbType
  <2>2. Sequence'
    BY <1>a, <1>1 DEF DirectStarts, Sequence, Promoting, Reopening, Returning, StepType
  <2>3. SourceShut'
    BY <1>a, <1>1 DEF DirectStarts, SourceShut, Sequence, Promoting, Reopening, Returning
  <2>4. Streaming'
    BY <1>a, <1>1 DEF DirectStarts, Streaming, Streamed, LastOf
  <2>5. Proven'
    BY <1>a, <1>1 DEF DirectStarts, Proven, AllStopped, Emptied
  <2>6. FrozenOK'
    BY <1>a, <1>1 DEF DirectStarts, FrozenOK, Sequence
  <2>7. Quiet'
    BY <1>a, <1>1 DEF DirectStarts, Quiet, Emptied, AllStopped
  <2>8. Handed'
    BY <1>a, <1>1 DEF DirectStarts, Handed
  <2>9. Copied'
    BY <1>a, <1>1 DEF DirectStarts, Copied
  <2>10. Owned'
    BY <1>a, <1>1 DEF DirectStarts, Owned, Home, Reopening
  <2>11. Fenced'
    BY <1>a, <1>1 DEF DirectStarts, Fenced
  <2>12. Consuming'
    BY <1>a, <1>1 DEF DirectStarts, Consuming
  <2>13. Requested'
    BY <1>a, <1>1 DEF DirectStarts, Requested, Once
  <2>14. QED
    BY <2>1, <2>2, <2>3, <2>4, <2>5, <2>6, <2>7, <2>8, <2>9, <2>10, <2>11, <2>12, <2>13 DEF
         CInv
<1>2. ASSUME DirectCommits PROVE CInv'
  <2>1. LogOK'
    BY SMTT(30), <1>a, <1>2 DEF DirectCommits, CommitInSource, LogOK, DbType
  <2>2. Sequence'
    BY <1>a, <1>2 DEF DirectCommits, CommitInSource, Sequence, Promoting, Reopening,
         Returning, StepType
  <2>3. SourceShut'
    BY <1>a, <1>2 DEF DirectCommits, CommitInSource, SourceShut, Sequence, Promoting,
         Reopening, Returning
  <2>4. Streaming'
    <3>1. acked' \in Nat /\ log' = Append(log, acked') /\ acked <= acked' /\ UNCHANGED <<pos, topic, done, rows, intent>>
      BY <1>a, <1>b, <1>2 DEF DirectCommits, CommitInSource, DbType
    <3>2. QED
      BY <1>a, <1>b, <3>1, StreamingLog
  <2>5. Proven'
    BY <1>a, <1>2 DEF DirectCommits, CommitInSource, Proven, AllStopped, Emptied
  <2>6. FrozenOK'
    BY <1>a, <1>2 DEF DirectCommits, CommitInSource, FrozenOK, Sequence
  <2>7. Quiet'
    BY <1>a, <1>2 DEF DirectCommits, CommitInSource, Quiet, Emptied, AllStopped
  <2>8. Handed'
    BY <1>a, <1>2 DEF DirectCommits, CommitInSource, Handed
  <2>9. Copied'
    BY <1>a, <1>2 DEF DirectCommits, CommitInSource, Copied, SourceShut
  <2>10. Owned'
    BY <1>a, <1>2 DEF DirectCommits, CommitInSource, Owned, Home, Reopening
  <2>11. Fenced'
    BY <1>a, <1>2 DEF DirectCommits, CommitInSource, Fenced
  <2>12. Consuming'
    BY <1>a, <1>2 DEF DirectCommits, CommitInSource, Consuming
  <2>13. Requested'
    BY <1>a, <1>2 DEF DirectCommits, CommitInSource, Requested, Once, DbType, AppType
  <2>14. QED
    BY <2>1, <2>2, <2>3, <2>4, <2>5, <2>6, <2>7, <2>8, <2>9, <2>10, <2>11, <2>12, <2>13 DEF
         CInv
<1>3. ASSUME DirectEnds PROVE CInv'
  <2>1. LogOK'
    BY <1>a, <1>3 DEF DirectEnds, LogOK, DbType
  <2>2. Sequence'
    BY <1>a, <1>3 DEF DirectEnds, Sequence, Promoting, Reopening, Returning, StepType
  <2>3. SourceShut'
    BY <1>a, <1>3 DEF DirectEnds, SourceShut, Sequence, Promoting, Reopening, Returning
  <2>4. Streaming'
    BY <1>a, <1>3 DEF DirectEnds, Streaming, Streamed, LastOf
  <2>5. Proven'
    BY <1>a, <1>3 DEF DirectEnds, Proven, AllStopped, Emptied
  <2>6. FrozenOK'
    BY <1>a, <1>3 DEF DirectEnds, FrozenOK, Sequence
  <2>7. Quiet'
    BY <1>a, <1>3 DEF DirectEnds, Quiet, Emptied, AllStopped
  <2>8. Handed'
    BY <1>a, <1>3 DEF DirectEnds, Handed
  <2>9. Copied'
    BY <1>a, <1>3 DEF DirectEnds, Copied
  <2>10. Owned'
    BY <1>a, <1>3 DEF DirectEnds, Owned, Home, Reopening
  <2>11. Fenced'
    BY <1>a, <1>3 DEF DirectEnds, Fenced
  <2>12. Consuming'
    BY <1>a, <1>3 DEF DirectEnds, Consuming
  <2>13. Requested'
    BY <1>a, <1>3 DEF DirectEnds, Requested, Once
  <2>14. QED
    BY <2>1, <2>2, <2>3, <2>4, <2>5, <2>6, <2>7, <2>8, <2>9, <2>10, <2>11, <2>12, <2>13 DEF
         CInv
<1>4. ASSUME V2Commits PROVE CInv'
  <2>1. LogOK'
    BY <1>a, <1>4 DEF V2Commits, CommitInTarget, LogOK, DbType
  <2>2. Sequence'
    BY <1>a, <1>4 DEF V2Commits, CommitInTarget, Sequence, Promoting, Reopening, Returning,
         StepType
  <2>3. SourceShut'
    BY <1>a, <1>4 DEF V2Commits, CommitInTarget, SourceShut, Sequence, Promoting, Reopening,
         Returning
  <2>4. Streaming'
    BY <1>a, <1>4 DEF V2Commits, CommitInTarget, Streaming, Streamed, LastOf, Sequence,
         Consuming
  <2>5. Proven'
    BY <1>a, <1>4 DEF V2Commits, CommitInTarget, Proven, AllStopped, Emptied
  <2>6. FrozenOK'
    BY <1>a, <1>4 DEF V2Commits, CommitInTarget, FrozenOK, Sequence
  <2>7. Quiet'
    BY <1>a, <1>4 DEF V2Commits, CommitInTarget, Quiet, Emptied, AllStopped
  <2>8. Handed'
    BY <1>a, <1>4 DEF V2Commits, CommitInTarget, Handed
  <2>9. Copied'
    BY <1>a, <1>4 DEF V2Commits, CommitInTarget, Copied, Sequence, Returning, Consuming
  <2>10. Owned'
    BY <1>a, <1>4 DEF V2Commits, CommitInTarget, Owned, Home, Reopening, Sequence,
         SourceShut, Returning, Promoting, Consuming
  <2>11. Fenced'
    BY <1>a, <1>4 DEF V2Commits, CommitInTarget, Fenced
  <2>12. Consuming'
    BY <1>a, <1>4 DEF V2Commits, CommitInTarget, Consuming
  <2>13. Requested'
    BY <1>a, <1>4 DEF V2Commits, CommitInTarget, Requested, Once, DbType, AppType
  <2>14. QED
    BY <2>1, <2>2, <2>3, <2>4, <2>5, <2>6, <2>7, <2>8, <2>9, <2>10, <2>11, <2>12, <2>13 DEF
         CInv
<1>5. ASSUME SourceApplies PROVE CInv'
  <2>1. LogOK'
    BY SMTT(30), <1>a, <1>5 DEF SourceApplies, CommitInSource, LogOK, DbType
  <2>2. Sequence'
    BY <1>a, <1>5 DEF SourceApplies, CommitInSource, Sequence, Promoting, Reopening,
         Returning, StepType
  <2>3. SourceShut'
    BY <1>a, <1>5 DEF SourceApplies, CommitInSource, SourceShut, Sequence, Promoting,
         Reopening, Returning
  <2>4. Streaming'
    <3>1. acked' \in Nat /\ log' = Append(log, acked') /\ acked <= acked' /\ UNCHANGED <<pos, topic, done, rows, intent>>
      BY <1>a, <1>b, <1>5 DEF SourceApplies, CommitInSource, DbType
    <3>2. QED
      BY <1>a, <1>b, <3>1, StreamingLog
  <2>5. Proven'
    BY <1>a, <1>5 DEF SourceApplies, CommitInSource, Proven, AllStopped, Emptied
  <2>6. FrozenOK'
    BY <1>a, <1>5 DEF SourceApplies, CommitInSource, FrozenOK, Sequence
  <2>7. Quiet'
    BY <1>a, <1>5 DEF SourceApplies, CommitInSource, Quiet, Emptied, AllStopped
  <2>8. Handed'
    BY <1>a, <1>5 DEF SourceApplies, CommitInSource, Handed
  <2>9. Copied'
    BY <1>a, <1>5 DEF SourceApplies, CommitInSource, Copied, SourceShut
  <2>10. Owned'
    BY <1>a, <1>5 DEF SourceApplies, CommitInSource, Owned, Home, Reopening
  <2>11. Fenced'
    BY <1>a, <1>5 DEF SourceApplies, CommitInSource, Fenced
  <2>12. Consuming'
    BY <1>a, <1>5 DEF SourceApplies, CommitInSource, Consuming
  <2>13. Requested'
    <3>1. /\ offset < MaxRequests /\ offset \in Nat /\ offset + 1 \in Requests /\ taken' = TRUE /\ acked \in Nat
          /\ acked' = acked + 1 /\ acked' \in 0..acked' /\ acked <= acked' /\ offset' = offset
      BY <1>a, <1>5 DEF SourceApplies, CommitInSource, AppType, DbType, Requests
    <3>2. times[offset + 1] = 0
      BY <1>a, <1>5, <3>1 DEF SourceApplies, Requested, Once, AppType
    <3>3. PICK n : n = acked'
      OBVIOUS
    <3>4. n \in 0..acked' /\ n # 0 /\ journal' = [journal EXCEPT ![offset + 1] = n]
          /\ times' = [times EXCEPT ![offset + 1] = @ + 1]
      BY <1>5, <3>1, <3>3 DEF SourceApplies
    <3>5. QED
      BY <1>a, <1>b, <3>1, <3>2, <3>4, Applied
  <2>14. QED
    BY <2>1, <2>2, <2>3, <2>4, <2>5, <2>6, <2>7, <2>8, <2>9, <2>10, <2>11, <2>12, <2>13 DEF
         CInv
<1>6. ASSUME SourceCommitsOffset PROVE CInv'
  <2>1. LogOK'
    BY <1>a, <1>6 DEF SourceCommitsOffset, LogOK, DbType
  <2>2. Sequence'
    BY <1>a, <1>6 DEF SourceCommitsOffset, Sequence, Promoting, Reopening, Returning,
         StepType
  <2>3. SourceShut'
    BY <1>a, <1>6 DEF SourceCommitsOffset, SourceShut, Sequence, Promoting, Reopening,
         Returning
  <2>4. Streaming'
    BY <1>a, <1>6 DEF SourceCommitsOffset, Streaming, Streamed, LastOf
  <2>5. Proven'
    BY <1>a, <1>6 DEF SourceCommitsOffset, Proven, AllStopped, Emptied
  <2>6. FrozenOK'
    BY <1>a, <1>6 DEF SourceCommitsOffset, FrozenOK, Sequence
  <2>7. Quiet'
    BY <1>a, <1>6 DEF SourceCommitsOffset, Quiet, Emptied, AllStopped
  <2>8. Handed'
    BY <1>a, <1>6 DEF SourceCommitsOffset, Handed
  <2>9. Copied'
    BY <1>a, <1>6 DEF SourceCommitsOffset, Copied
  <2>10. Owned'
    BY <1>a, <1>6 DEF SourceCommitsOffset, Owned, Home, Reopening
  <2>11. Fenced'
    BY <1>a, <1>6 DEF SourceCommitsOffset, Fenced
  <2>12. Consuming'
    BY <1>a, <1>6 DEF SourceCommitsOffset, Consuming
  <2>13. Requested'
    <3>1. offset < MaxRequests /\ offset + 1 \in Requests
      BY <1>a, <1>6 DEF SourceCommitsOffset, AppType, Requests
    <3>2. times[offset + 1] = 1
      BY <1>a, <1>6, <3>1 DEF SourceCommitsOffset, Requested, Once, AppType
    <3>3. QED
      BY <1>a, <1>6, <3>1, <3>2, Passed DEF SourceCommitsOffset
  <2>14. QED
    BY <2>1, <2>2, <2>3, <2>4, <2>5, <2>6, <2>7, <2>8, <2>9, <2>10, <2>11, <2>12, <2>13 DEF
         CInv
<1>7. ASSUME ListenerStops PROVE CInv'
  <2>1. LogOK'
    BY <1>a, <1>7 DEF ListenerStops, LogOK, DbType
  <2>2. Sequence'
    BY <1>a, <1>7 DEF ListenerStops, Sequence, Promoting, Reopening, Returning, StepType
  <2>3. SourceShut'
    BY <1>a, <1>7 DEF ListenerStops, SourceShut, Sequence, Promoting, Reopening, Returning
  <2>4. Streaming'
    BY <1>a, <1>7 DEF ListenerStops, Streaming, Streamed, LastOf
  <2>5. Proven'
    BY <1>a, <1>7 DEF ListenerStops, Proven, AllStopped, Emptied
  <2>6. FrozenOK'
    BY <1>a, <1>7 DEF ListenerStops, FrozenOK, Sequence
  <2>7. Quiet'
    BY <1>a, <1>7 DEF ListenerStops, Quiet, Emptied, AllStopped
  <2>8. Handed'
    BY <1>a, <1>7 DEF ListenerStops, Handed
  <2>9. Copied'
    BY <1>a, <1>7 DEF ListenerStops, Copied
  <2>10. Owned'
    BY <1>a, <1>7 DEF ListenerStops, Owned, Home, Reopening
  <2>11. Fenced'
    BY <1>a, <1>7 DEF ListenerStops, Fenced
  <2>12. Consuming'
    BY <1>a, <1>7 DEF ListenerStops, Consuming
  <2>13. Requested'
    BY <1>a, <1>7 DEF ListenerStops, Requested, Once
  <2>14. QED
    BY <2>1, <2>2, <2>3, <2>4, <2>5, <2>6, <2>7, <2>8, <2>9, <2>10, <2>11, <2>12, <2>13 DEF
         CInv
<1>8. ASSUME TargetApplies PROVE CInv'
  <2>1. LogOK'
    BY SMTT(30), <1>a, <1>8 DEF TargetApplies, CommitInTarget, LogOK, DbType
  <2>2. Sequence'
    BY <1>a, <1>8 DEF TargetApplies, CommitInTarget, Sequence, Promoting, Reopening,
         Returning, StepType
  <2>3. SourceShut'
    BY <1>a, <1>8 DEF TargetApplies, CommitInTarget, SourceShut, Sequence, Promoting,
         Reopening, Returning
  <2>4. Streaming'
    BY <1>a, <1>8 DEF TargetApplies, CommitInTarget, Streaming, Streamed, LastOf, Sequence,
         Consuming
  <2>5. Proven'
    BY <1>a, <1>8 DEF TargetApplies, CommitInTarget, Proven, AllStopped, Emptied
  <2>6. FrozenOK'
    BY <1>a, <1>8 DEF TargetApplies, CommitInTarget, FrozenOK, Sequence
  <2>7. Quiet'
    BY <1>a, <1>8 DEF TargetApplies, CommitInTarget, Quiet, Emptied, AllStopped
  <2>8. Handed'
    BY <1>a, <1>8 DEF TargetApplies, CommitInTarget, Handed
  <2>9. Copied'
    BY <1>a, <1>8 DEF TargetApplies, CommitInTarget, Copied, Sequence, Returning, Consuming
  <2>10. Owned'
    BY <1>a, <1>8 DEF TargetApplies, CommitInTarget, Owned, Home, Reopening, Sequence,
         SourceShut, Returning, Promoting, Consuming
  <2>11. Fenced'
    BY <1>a, <1>8 DEF TargetApplies, CommitInTarget, Fenced
  <2>12. Consuming'
    BY <1>a, <1>8 DEF TargetApplies, CommitInTarget, Consuming
  <2>13. Requested'
    <3>1. /\ offset < MaxRequests /\ offset \in Nat /\ offset + 1 \in Requests /\ offset' = offset + 1
          /\ consumer' # "source" /\ journal' = journal /\ tgt = "open"
      BY <1>a, <1>8 DEF TargetApplies, AppType, Requests, Consuming
    <3>2. rows["trips"] = acked /\ Once(offset + 1) /\ acked \in Nat
      BY <1>a, <3>1 DEF Handed, Sequence, SourceShut, Requested, Connectors, DbType
    <3>3. journal[offset + 1] \in Nat /\ times[offset + 1] \in Nat
      BY <1>a, <3>1 DEF AppType
    <3>4. CASE journal[offset + 1] # 0
      <4>1. times[offset + 1] = 1
        BY <3>1, <3>2, <3>4 DEF Once
      <4>2. UNCHANGED <<acked, journal, times>>
        BY <1>8, <3>2, <3>3, <3>4 DEF TargetApplies, Once
      <4>3. QED
        BY <1>a, <3>1, <4>1, <4>2, Passed
    <3>5. CASE journal[offset + 1] = 0
      <4>1. times[offset + 1] = 0
        BY <3>1, <3>2, <3>3, <3>5 DEF Once
      <4>2. CommitInTarget /\ times' = [times EXCEPT ![offset + 1] = @ + 1]
        BY <1>8, <3>5 DEF TargetApplies
      <4>3. acked <= acked' /\ 0 \in 0..acked' /\ journal' = [journal EXCEPT ![offset + 1] = 0]
        BY <1>a, <3>1, <3>2, <3>5, <4>2 DEF CommitInTarget, AppType
      <4>4. QED
        BY <1>a, <1>b, <3>1, <4>1, <4>2, <4>3, Applied
    <3>6. QED
      BY <3>4, <3>5
  <2>14. QED
    BY <2>1, <2>2, <2>3, <2>4, <2>5, <2>6, <2>7, <2>8, <2>9, <2>10, <2>11, <2>12, <2>13 DEF
         CInv
<1>9. QED
  BY <1>1, <1>2, <1>3, <1>4, <1>5, <1>6, <1>7, <1>8 DEF Application

LEMMA StepStreams ==
  ASSUME CInv, TypeInv', NEW c \in Connectors, Produce(c) \/ TaskRestarts(c) \/ Stops(c) \/ SinkApplies(c)
  PROVE  CInv'
<1> USE CdcAssumption DEF Marker,
            dbVars, streamVars, appVars, saved, proofVars, ctlVars, elsewhere, beside, kcKeeps, outside,
            orchKeeps, Ctl, End, Save, Orch
<1>a. /\ DbType /\ StreamType /\ AppType /\ StepType /\ NoteType
      /\ LogOK /\ Sequence /\ SourceShut /\ Streaming /\ Proven /\ FrozenOK /\ Quiet
      /\ Handed /\ Copied /\ Owned /\ Fenced /\ Consuming /\ Requested
  BY TypeParts DEF CInv
<1>b. DbType' /\ StreamType' /\ AppType' /\ StepType' /\ NoteType'
  BY TypePartsNext
<1>1. ASSUME Produce(c) PROVE CInv'
  <2>1. LogOK'
    BY <1>a, <1>1 DEF Produce, LogOK, DbType
  <2>2. Sequence'
    BY <1>a, <1>1 DEF Produce, Sequence, Promoting, Reopening, Returning, StepType
  <2>3. SourceShut'
    BY <1>a, <1>1 DEF Produce, SourceShut, Sequence, Promoting, Reopening, Returning
  <2>4. Streaming'
    <3>1. /\ pos[c] \in Nat /\ pos[c] < Len(log) /\ Len(log) \in Nat /\ log[pos[c] + 1] \in Nat
          /\ pos' = [pos EXCEPT ![c] = @ + 1] /\ UNCHANGED <<log, done, rows, intent, acked>>
      BY SMTT(30), <1>a, <1>1 DEF Produce, StreamType, DbType
    <3>2. SUFFICES ASSUME NEW s \in Connectors PROVE (done[s] <= Len(topic[s]) /\ (~intent => Streamed(s)))'
      BY DEF Streaming
    <3>3. CASE s # c
      <4>1. topic'[s] = topic[s] /\ pos'[s] = pos[s]
        BY <1>a, <1>1, <3>1, <3>3 DEF Produce, StreamType
      <4>2. QED
        BY <1>a, <3>1, <4>1 DEF Streaming, Streamed, LastOf
    <3>4. CASE s = c /\ log[pos[c] + 1] = 0
      <4>1. topic' = topic /\ pos'[s] = pos[s] + 1
        BY <1>a, <1>1, <3>1, <3>4 DEF Produce, StreamType
      <4>2. LastOf(s) \in Nat /\ LastOf(s)' = LastOf(s)
        BY <1>a, <4>1 DEF LastOf, StreamType
      <4>3. QED
        BY <1>a, <3>1, <3>4, <4>1, <4>2 DEF Streaming, Streamed
    <3>5. CASE s = c /\ log[pos[c] + 1] # 0
      <4>1. topic' = [topic EXCEPT ![c] = Append(@, log[pos[c] + 1])] /\ pos'[s] = pos[s] + 1
        BY <1>a, <1>1, <3>1, <3>5 DEF Produce, StreamType
      <4>2. topic'[s] = Append(topic[s], log[pos[s] + 1]) /\ topic[s] \in Seq(Nat)
        BY <1>a, <3>5, <4>1 DEF StreamType
      <4>3. /\ Len(topic'[s]) = Len(topic[s]) + 1 /\ Len(topic[s]) \in Nat
            /\ topic'[s][Len(topic[s]) + 1] = log[pos[s] + 1]
            /\ \A i \in 1..Len(topic[s]) : topic'[s][i] = topic[s][i]
        BY SMTT(30), <3>1, <3>5, <4>2
      <4>4. LastOf(s)' = log[pos[s] + 1]
        BY <4>3 DEF LastOf
      <4>5. done[s] \in Nat /\ done[s] <= Len(topic[s])
        BY <1>a DEF Streaming, StreamType
      <4>6. ASSUME ~intent PROVE Streamed(s)'
        <5>1. Streamed(s)
          BY <1>a, <4>6 DEF Streaming
        <5>2. pos'[s] <= Len(log') /\ LastOf(s)' <= acked'
          BY <1>a, <3>1, <3>5, <4>1, <4>4 DEF LogOK
        <5>3. \A i \in 1..pos'[s] : log'[i] <= LastOf(s)'
          <6>1. \A i \in 1..Len(log) : log[i] \in Nat
            BY <1>a DEF DbType
          <6>2. SUFFICES ASSUME NEW i \in 1..(pos[s] + 1) PROVE log[i] <= log[pos[s] + 1]
            BY <3>1, <4>1, <4>4
          <6>3. pos[s] + 1 \in 1..Len(log) /\ i \in 1..Len(log)
            BY <3>1, <3>5
          <6>4. QED
            BY <1>a, <3>5, <6>1, <6>3 DEF LogOK
        <5>4. rows'[s] = IF done'[s] = 0 THEN 0 ELSE topic'[s][done'[s]]
          BY SMTT(30), <3>1, <4>3, <4>5, <5>1 DEF Streamed
        <5>5. QED
          BY <5>2, <5>3, <5>4 DEF Streamed
      <4>7. QED
        BY <3>1, <4>3, <4>5, <4>6
    <3>6. QED
      BY <3>3, <3>4, <3>5
  <2>5. Proven'
    BY <1>a, <1>1 DEF Produce, Proven, AllStopped, Emptied
  <2>6. FrozenOK'
    BY <1>a, <1>1 DEF Produce, FrozenOK, Sequence
  <2>7. Quiet'
    BY <1>a, <1>1 DEF Produce, Quiet, Emptied, AllStopped
  <2>8. Handed'
    BY <1>a, <1>1 DEF Produce, Handed
  <2>9. Copied'
    BY <1>a, <1>1 DEF Produce, Copied
  <2>10. Owned'
    BY <1>a, <1>1 DEF Produce, Owned, Home, Reopening
  <2>11. Fenced'
    BY <1>a, <1>1 DEF Produce, Fenced
  <2>12. Consuming'
    BY <1>a, <1>1 DEF Produce, Consuming
  <2>13. Requested'
    BY <1>a, <1>1 DEF Produce, Requested, Once
  <2>14. QED
    BY <2>1, <2>2, <2>3, <2>4, <2>5, <2>6, <2>7, <2>8, <2>9, <2>10, <2>11, <2>12, <2>13 DEF
         CInv
<1>2. ASSUME TaskRestarts(c) PROVE CInv'
  <2>1. LogOK'
    BY <1>a, <1>2 DEF TaskRestarts, LogOK, DbType
  <2>2. Sequence'
    BY <1>a, <1>2 DEF TaskRestarts, Sequence, Promoting, Reopening, Returning, StepType
  <2>3. SourceShut'
    BY <1>a, <1>2 DEF TaskRestarts, SourceShut, Sequence, Promoting, Reopening, Returning
  <2>4. Streaming'
    <3>1. PICK flushed \in 0..(pos[c] - 1) : pos' = [pos EXCEPT ![c] = flushed]
      BY <1>2 DEF TaskRestarts
    <3>2. UNCHANGED <<log, done, topic, rows, intent, acked>>
      BY <1>2 DEF TaskRestarts
    <3>3. SUFFICES ASSUME NEW s \in Connectors, ~intent PROVE Streamed(s)'
      BY <1>a, <3>2 DEF Streaming
    <3>4. pos[s] \in Nat /\ pos'[s] \in Nat /\ pos'[s] <= pos[s] /\ Len(log) \in Nat
      BY SMTT(30), <1>a, <3>1 DEF StreamType, DbType
    <3>5. LastOf(s)' = LastOf(s) /\ Streamed(s)
      BY <1>a, <3>2, <3>3 DEF LastOf, Streaming
    <3>6. QED
      BY <3>2, <3>4, <3>5 DEF Streamed
  <2>5. Proven'
    BY <1>a, <1>2 DEF TaskRestarts, Proven, AllStopped, Emptied
  <2>6. FrozenOK'
    BY <1>a, <1>2 DEF TaskRestarts, FrozenOK, Sequence
  <2>7. Quiet'
    BY <1>a, <1>2 DEF TaskRestarts, Quiet, Emptied, AllStopped
  <2>8. Handed'
    BY <1>a, <1>2 DEF TaskRestarts, Handed
  <2>9. Copied'
    BY <1>a, <1>2 DEF TaskRestarts, Copied
  <2>10. Owned'
    BY <1>a, <1>2 DEF TaskRestarts, Owned, Home, Reopening
  <2>11. Fenced'
    BY <1>a, <1>2 DEF TaskRestarts, Fenced
  <2>12. Consuming'
    BY <1>a, <1>2 DEF TaskRestarts, Consuming
  <2>13. Requested'
    BY <1>a, <1>2 DEF TaskRestarts, Requested, Once
  <2>14. QED
    BY <2>1, <2>2, <2>3, <2>4, <2>5, <2>6, <2>7, <2>8, <2>9, <2>10, <2>11, <2>12, <2>13 DEF
         CInv
<1>3. ASSUME Stops(c) PROVE CInv'
  <2>1. LogOK'
    BY <1>a, <1>3 DEF Stops, LogOK, DbType
  <2>2. Sequence'
    BY <1>a, <1>3 DEF Stops, Sequence, Promoting, Reopening, Returning, StepType
  <2>3. SourceShut'
    BY <1>a, <1>3 DEF Stops, SourceShut, Sequence, Promoting, Reopening, Returning
  <2>4. Streaming'
    BY <1>a, <1>3 DEF Stops, Streaming, Streamed, LastOf
  <2>5. Proven'
    BY <1>a, <1>3 DEF Stops, Proven, AllStopped, Emptied
  <2>6. FrozenOK'
    BY <1>a, <1>3 DEF Stops, FrozenOK, Sequence
  <2>7. Quiet'
    BY <1>a, <1>3 DEF Stops, Quiet, Emptied, AllStopped
  <2>8. Handed'
    BY <1>a, <1>3 DEF Stops, Handed
  <2>9. Copied'
    BY <1>a, <1>3 DEF Stops, Copied
  <2>10. Owned'
    BY <1>a, <1>3 DEF Stops, Owned, Home, Reopening
  <2>11. Fenced'
    BY <1>a, <1>3 DEF Stops, Fenced
  <2>12. Consuming'
    BY <1>a, <1>3 DEF Stops, Consuming
  <2>13. Requested'
    BY <1>a, <1>3 DEF Stops, Requested, Once
  <2>14. QED
    BY <2>1, <2>2, <2>3, <2>4, <2>5, <2>6, <2>7, <2>8, <2>9, <2>10, <2>11, <2>12, <2>13 DEF
         CInv
<1>4. ASSUME SinkApplies(c) PROVE CInv'
  <2>1. LogOK'
    BY <1>a, <1>4 DEF SinkApplies, LogOK, DbType
  <2>2. Sequence'
    BY <1>a, <1>4 DEF SinkApplies, Sequence, Promoting, Reopening, Returning, StepType
  <2>3. SourceShut'
    BY <1>a, <1>4 DEF SinkApplies, SourceShut, Sequence, Promoting, Reopening, Returning
  <2>4. Streaming'
    <3>1. /\ done[c] < Len(topic[c]) /\ done[c] \in Nat /\ Len(topic[c]) \in Nat
          /\ done' = [done EXCEPT ![c] = @ + 1] /\ rows' = [rows EXCEPT ![c] = topic[c][done[c] + 1]]
          /\ UNCHANGED <<log, pos, topic, intent, acked>>
      BY <1>a, <1>4 DEF SinkApplies, StreamType
    <3>2. SUFFICES ASSUME NEW s \in Connectors PROVE (done[s] <= Len(topic[s]) /\ (~intent => Streamed(s)))'
      BY DEF Streaming
    <3>3. LastOf(s)' = LastOf(s) /\ (done[s] <= Len(topic[s]) /\ (~intent => Streamed(s)))
      BY <1>a, <3>1 DEF LastOf, Streaming
    <3>4. CASE s = c
      <4>1. done'[s] = done[s] + 1 /\ rows'[s] = topic[s][done[s] + 1]
        BY <1>a, <3>1, <3>4 DEF StreamType, DbType
      <4>2. QED
        BY <3>1, <3>3, <3>4, <4>1 DEF Streamed
    <3>5. CASE s # c
      <4>1. done'[s] = done[s] /\ rows'[s] = rows[s]
        BY <1>a, <3>1, <3>5 DEF StreamType, DbType
      <4>2. QED
        BY <3>1, <3>3, <4>1 DEF Streamed
    <3>6. QED
      BY <3>4, <3>5
  <2>5. Proven'
    BY <1>a, <1>4 DEF SinkApplies, Proven, AllStopped, Emptied
  <2>6. FrozenOK'
    BY <1>a, <1>4 DEF SinkApplies, FrozenOK, Sequence
  <2>7. Quiet'
    BY <1>a, <1>4 DEF SinkApplies, Quiet, Emptied, AllStopped
  <2>8. Handed'
    BY <1>a, <1>4 DEF SinkApplies, Handed, Quiet, Emptied, StreamType
  <2>9. Copied'
    BY <1>a, <1>4 DEF SinkApplies, Copied
  <2>10. Owned'
    BY <1>a, <1>4 DEF SinkApplies, Owned, Home, Reopening
  <2>11. Fenced'
    BY <1>a, <1>4 DEF SinkApplies, Fenced
  <2>12. Consuming'
    BY <1>a, <1>4 DEF SinkApplies, Consuming
  <2>13. Requested'
    BY <1>a, <1>4 DEF SinkApplies, Requested, Once
  <2>14. QED
    BY <2>1, <2>2, <2>3, <2>4, <2>5, <2>6, <2>7, <2>8, <2>9, <2>10, <2>11, <2>12, <2>13 DEF
         CInv
<1>5. QED
  BY <1>1, <1>2, <1>3, <1>4

LEMMA StepBoundary ==
  ASSUME CInv, TypeInv', Boundary
  PROVE  CInv'
<1> USE CdcAssumption DEF Marker,
            dbVars, streamVars, appVars, saved, proofVars, ctlVars, elsewhere, beside, kcKeeps, outside,
            orchKeeps, Ctl, End, Save, Orch
<1>a. /\ DbType /\ StreamType /\ AppType /\ StepType /\ NoteType
      /\ LogOK /\ Sequence /\ SourceShut /\ Streaming /\ Proven /\ FrozenOK /\ Quiet
      /\ Handed /\ Copied /\ Owned /\ Fenced /\ Consuming /\ Requested
  BY TypeParts DEF CInv
<1>b. DbType' /\ StreamType' /\ AppType' /\ StepType' /\ NoteType'
  BY TypePartsNext
<1>1. ASSUME StopSources PROVE CInv'
  <2>1. LogOK'
    BY <1>a, <1>1 DEF StopSources, LogOK, DbType
  <2>2. Sequence'
    BY <1>a, <1>1 DEF StopSources, Sequence, Promoting, Reopening, Returning, StepType
  <2>3. SourceShut'
    BY <1>a, <1>1 DEF StopSources, SourceShut, Sequence, Promoting, Reopening, Returning
  <2>4. Streaming'
    BY <1>a, <1>1 DEF StopSources, Streaming, Streamed, LastOf
  <2>5. Proven'
    BY <1>a, <1>1 DEF StopSources, Proven, AllStopped, Emptied
  <2>6. FrozenOK'
    BY <1>a, <1>1 DEF StopSources, FrozenOK, Sequence
  <2>7. Quiet'
    BY <1>a, <1>1 DEF StopSources, Quiet, Emptied, AllStopped
  <2>8. Handed'
    BY <1>a, <1>1 DEF StopSources, Handed
  <2>9. Copied'
    BY <1>a, <1>1 DEF StopSources, Copied
  <2>10. Owned'
    BY <1>a, <1>1 DEF StopSources, Owned, Home, Reopening
  <2>11. Fenced'
    BY <1>a, <1>1 DEF StopSources, Fenced
  <2>12. Consuming'
    BY <1>a, <1>1 DEF StopSources, Consuming
  <2>13. Requested'
    BY <1>a, <1>1 DEF StopSources, Requested, Once
  <2>14. QED
    BY <2>1, <2>2, <2>3, <2>4, <2>5, <2>6, <2>7, <2>8, <2>9, <2>10, <2>11, <2>12, <2>13 DEF
         CInv
<1>2. ASSUME FreezeTails PROVE CInv'
  <2>1. LogOK'
    BY <1>a, <1>2 DEF FreezeTails, LogOK, DbType
  <2>2. Sequence'
    BY <1>a, <1>2 DEF FreezeTails, Sequence, Promoting, Reopening, Returning, StepType
  <2>3. SourceShut'
    BY <1>a, <1>2 DEF FreezeTails, SourceShut, Sequence, Promoting, Reopening, Returning
  <2>4. Streaming'
    BY <1>a, <1>2 DEF FreezeTails, Streaming, Streamed, LastOf
  <2>5. Proven'
    BY <1>a, <1>2 DEF FreezeTails, Proven, AllStopped, Emptied
  <2>6. FrozenOK'
    BY <1>a, <1>2 DEF FreezeTails, FrozenOK, Sequence
  <2>7. Quiet'
    BY <1>a, <1>2 DEF FreezeTails, Quiet, Emptied, AllStopped
  <2>8. Handed'
    BY <1>a, <1>2 DEF FreezeTails, Handed
  <2>9. Copied'
    BY <1>a, <1>2 DEF FreezeTails, Copied
  <2>10. Owned'
    BY <1>a, <1>2 DEF FreezeTails, Owned, Home, Reopening
  <2>11. Fenced'
    BY <1>a, <1>2 DEF FreezeTails, Fenced
  <2>12. Consuming'
    BY <1>a, <1>2 DEF FreezeTails, Consuming
  <2>13. Requested'
    BY <1>a, <1>2 DEF FreezeTails, Requested, Once
  <2>14. QED
    BY <2>1, <2>2, <2>3, <2>4, <2>5, <2>6, <2>7, <2>8, <2>9, <2>10, <2>11, <2>12, <2>13 DEF
         CInv
<1>3. ASSUME Caught PROVE CInv'
  <2>1. LogOK'
    BY <1>a, <1>3 DEF Caught, LogOK, DbType
  <2>2. Sequence'
    BY <1>a, <1>3 DEF Caught, Sequence, Promoting, Reopening, Returning, StepType
  <2>3. SourceShut'
    BY <1>a, <1>3 DEF Caught, SourceShut, Sequence, Promoting, Reopening, Returning
  <2>4. Streaming'
    BY <1>a, <1>3 DEF Caught, Streaming, Streamed, LastOf
  <2>5. Proven'
    BY <1>a, <1>3 DEF Caught, Proven, AllStopped, Emptied
  <2>6. FrozenOK'
    BY <1>a, <1>3 DEF Caught, FrozenOK, Sequence
  <2>7. Quiet'
    BY <1>a, <1>3 DEF Caught, Quiet, Emptied, AllStopped
  <2>8. Handed'
    BY <1>a, <1>3 DEF Caught, Handed
  <2>9. Copied'
    BY <1>a, <1>3 DEF Caught, Copied
  <2>10. Owned'
    BY <1>a, <1>3 DEF Caught, Owned, Home, Reopening
  <2>11. Fenced'
    BY <1>a, <1>3 DEF Caught, Fenced
  <2>12. Consuming'
    BY <1>a, <1>3 DEF Caught, Consuming
  <2>13. Requested'
    BY <1>a, <1>3 DEF Caught, Requested, Once
  <2>14. QED
    BY <2>1, <2>2, <2>3, <2>4, <2>5, <2>6, <2>7, <2>8, <2>9, <2>10, <2>11, <2>12, <2>13 DEF
         CInv
<1>4. ASSUME PublishProof PROVE CInv'
  <2>1. LogOK'
    BY <1>a, <1>4 DEF PublishProof, LogOK, DbType
  <2>2. Sequence'
    BY <1>a, <1>4 DEF PublishProof, Sequence, Promoting, Reopening, Returning, StepType
  <2>3. SourceShut'
    BY <1>a, <1>4 DEF PublishProof, SourceShut, Sequence, Promoting, Reopening, Returning
  <2>4. Streaming'
    BY <1>a, <1>4 DEF PublishProof, Streaming, Streamed, LastOf
  <2>5. Proven'
    BY <1>a, <1>4 DEF PublishProof, Proven, AllStopped, Emptied
  <2>6. FrozenOK'
    BY <1>a, <1>4 DEF PublishProof, FrozenOK, Sequence
  <2>7. Quiet'
    BY <1>a, <1>4 DEF PublishProof, Quiet, Emptied, AllStopped
  <2>8. Handed'
    BY <1>a, <1>4 DEF PublishProof, Handed
  <2>9. Copied'
    BY <1>a, <1>4 DEF PublishProof, Copied
  <2>10. Owned'
    BY <1>a, <1>4 DEF PublishProof, Owned, Home, Reopening
  <2>11. Fenced'
    BY <1>a, <1>4 DEF PublishProof, Fenced
  <2>12. Consuming'
    BY <1>a, <1>4 DEF PublishProof, Consuming
  <2>13. Requested'
    BY <1>a, <1>4 DEF PublishProof, Requested, Once
  <2>14. QED
    BY <2>1, <2>2, <2>3, <2>4, <2>5, <2>6, <2>7, <2>8, <2>9, <2>10, <2>11, <2>12, <2>13 DEF
         CInv
<1>5. ASSUME PublishFailure PROVE CInv'
  <2>1. LogOK'
    BY <1>a, <1>5 DEF PublishFailure, LogOK, DbType
  <2>2. Sequence'
    BY <1>a, <1>5 DEF PublishFailure, Sequence, Promoting, Reopening, Returning, StepType
  <2>3. SourceShut'
    BY <1>a, <1>5 DEF PublishFailure, SourceShut, Sequence, Promoting, Reopening, Returning
  <2>4. Streaming'
    BY <1>a, <1>5 DEF PublishFailure, Streaming, Streamed, LastOf
  <2>5. Proven'
    BY <1>a, <1>5 DEF PublishFailure, Proven, AllStopped, Emptied, NoProof
  <2>6. FrozenOK'
    BY <1>a, <1>5 DEF PublishFailure, FrozenOK, Sequence
  <2>7. Quiet'
    BY <1>a, <1>5 DEF PublishFailure, Quiet, Emptied, AllStopped
  <2>8. Handed'
    BY <1>a, <1>5 DEF PublishFailure, Handed
  <2>9. Copied'
    BY <1>a, <1>5 DEF PublishFailure, Copied
  <2>10. Owned'
    BY <1>a, <1>5 DEF PublishFailure, Owned, Home, Reopening
  <2>11. Fenced'
    BY <1>a, <1>5 DEF PublishFailure, Fenced
  <2>12. Consuming'
    BY <1>a, <1>5 DEF PublishFailure, Consuming
  <2>13. Requested'
    BY <1>a, <1>5 DEF PublishFailure, Requested, Once
  <2>14. QED
    BY <2>1, <2>2, <2>3, <2>4, <2>5, <2>6, <2>7, <2>8, <2>9, <2>10, <2>11, <2>12, <2>13 DEF
         CInv
<1>6. QED
  BY <1>1, <1>2, <1>3, <1>4, <1>5 DEF Boundary

LEMMA StepControl ==
  ASSUME CInv, TypeInv', Control \/ CtlFails \/ LateStatement \/ TimePasses
  PROVE  CInv'
<1> USE CdcAssumption DEF Marker,
            dbVars, streamVars, appVars, saved, proofVars, ctlVars, elsewhere, beside, kcKeeps, outside,
            orchKeeps, Ctl, End, Save, Orch
<1>a. /\ DbType /\ StreamType /\ AppType /\ StepType /\ NoteType
      /\ LogOK /\ Sequence /\ SourceShut /\ Streaming /\ Proven /\ FrozenOK /\ Quiet
      /\ Handed /\ Copied /\ Owned /\ Fenced /\ Consuming /\ Requested
  BY TypeParts DEF CInv
<1>b. DbType' /\ StreamType' /\ AppType' /\ StepType' /\ NoteType'
  BY TypePartsNext
<1>1. ASSUME NoteFrontier PROVE CInv'
  <2>1. LogOK'
    BY <1>a, <1>1 DEF NoteFrontier, LogOK, DbType
  <2>2. Sequence'
    BY <1>a, <1>1 DEF NoteFrontier, Sequence, Promoting, Reopening, Returning, StepType
  <2>3. SourceShut'
    BY <1>a, <1>1 DEF NoteFrontier, SourceShut, Sequence, Promoting, Reopening, Returning
  <2>4. Streaming'
    BY <1>a, <1>1 DEF NoteFrontier, Streaming, Streamed, LastOf
  <2>5. Proven'
    BY <1>a, <1>1 DEF NoteFrontier, Proven, AllStopped, Emptied
  <2>6. FrozenOK'
    BY <1>a, <1>1 DEF NoteFrontier, FrozenOK, Sequence
  <2>7. Quiet'
    BY <1>a, <1>1 DEF NoteFrontier, Quiet, Emptied, AllStopped
  <2>8. Handed'
    BY <1>a, <1>1 DEF NoteFrontier, Handed
  <2>9. Copied'
    BY <1>a, <1>1 DEF NoteFrontier, Copied
  <2>10. Owned'
    BY <1>a, <1>1 DEF NoteFrontier, Owned, Home, Reopening
  <2>11. Fenced'
    BY <1>a, <1>1 DEF NoteFrontier, Fenced
  <2>12. Consuming'
    BY <1>a, <1>1 DEF NoteFrontier, Consuming
  <2>13. Requested'
    BY <1>a, <1>1 DEF NoteFrontier, Requested, Once
  <2>14. QED
    BY <2>1, <2>2, <2>3, <2>4, <2>5, <2>6, <2>7, <2>8, <2>9, <2>10, <2>11, <2>12, <2>13 DEF
         CInv
<1>2. ASSUME Ready PROVE CInv'
  <2>1. LogOK'
    BY <1>a, <1>2 DEF Ready, LogOK, DbType
  <2>2. Sequence'
    BY <1>a, <1>2 DEF Ready, Sequence, Promoting, Reopening, Returning, StepType
  <2>3. SourceShut'
    BY <1>a, <1>2 DEF Ready, SourceShut, Sequence, Promoting, Reopening, Returning
  <2>4. Streaming'
    BY <1>a, <1>2 DEF Ready, Streaming, Streamed, LastOf
  <2>5. Proven'
    BY <1>a, <1>2 DEF Ready, Proven, AllStopped, Emptied
  <2>6. FrozenOK'
    BY <1>a, <1>2 DEF Ready, FrozenOK, Sequence
  <2>7. Quiet'
    BY <1>a, <1>2 DEF Ready, Quiet, Emptied, AllStopped
  <2>8. Handed'
    BY <1>a, <1>2 DEF Ready, Handed
  <2>9. Copied'
    BY <1>a, <1>2 DEF Ready, Copied
  <2>10. Owned'
    BY <1>a, <1>2 DEF Ready, Owned, Home, Reopening
  <2>11. Fenced'
    BY <1>a, <1>2 DEF Ready, Fenced
  <2>12. Consuming'
    BY <1>a, <1>2 DEF Ready, Consuming
  <2>13. Requested'
    BY <1>a, <1>2 DEF Ready, Requested, Once
  <2>14. QED
    BY <2>1, <2>2, <2>3, <2>4, <2>5, <2>6, <2>7, <2>8, <2>9, <2>10, <2>11, <2>12, <2>13 DEF
         CInv
<1>3. ASSUME NotReady PROVE CInv'
  <2>1. LogOK'
    BY <1>a, <1>3 DEF NotReady, LogOK, DbType
  <2>2. Sequence'
    BY <1>a, <1>3 DEF NotReady, Sequence, Promoting, Reopening, Returning, StepType
  <2>3. SourceShut'
    BY <1>a, <1>3 DEF NotReady, SourceShut, Sequence, Promoting, Reopening, Returning
  <2>4. Streaming'
    BY <1>a, <1>3 DEF NotReady, Streaming, Streamed, LastOf
  <2>5. Proven'
    BY <1>a, <1>3 DEF NotReady, Proven, AllStopped, Emptied
  <2>6. FrozenOK'
    BY <1>a, <1>3 DEF NotReady, FrozenOK, Sequence
  <2>7. Quiet'
    BY <1>a, <1>3 DEF NotReady, Quiet, Emptied, AllStopped
  <2>8. Handed'
    BY <1>a, <1>3 DEF NotReady, Handed
  <2>9. Copied'
    BY <1>a, <1>3 DEF NotReady, Copied
  <2>10. Owned'
    BY <1>a, <1>3 DEF NotReady, Owned, Home, Reopening
  <2>11. Fenced'
    BY <1>a, <1>3 DEF NotReady, Fenced
  <2>12. Consuming'
    BY <1>a, <1>3 DEF NotReady, Consuming
  <2>13. Requested'
    BY <1>a, <1>3 DEF NotReady, Requested, Once
  <2>14. QED
    BY <2>1, <2>2, <2>3, <2>4, <2>5, <2>6, <2>7, <2>8, <2>9, <2>10, <2>11, <2>12, <2>13 DEF
         CInv
<1>4. ASSUME FenceApp PROVE CInv'
  <2>1. LogOK'
    BY <1>a, <1>4 DEF FenceApp, LogOK, DbType
  <2>2. Sequence'
    BY <1>a, <1>4 DEF FenceApp, Sequence, Promoting, Reopening, Returning, StepType
  <2>3. SourceShut'
    BY <1>a, <1>4 DEF FenceApp, SourceShut, Sequence, Promoting, Reopening, Returning
  <2>4. Streaming'
    BY <1>a, <1>4 DEF FenceApp, Streaming, Streamed, LastOf
  <2>5. Proven'
    BY <1>a, <1>4 DEF FenceApp, Proven, AllStopped, Emptied
  <2>6. FrozenOK'
    BY <1>a, <1>4 DEF FenceApp, FrozenOK, Sequence
  <2>7. Quiet'
    BY <1>a, <1>4 DEF FenceApp, Quiet, Emptied, AllStopped
  <2>8. Handed'
    BY <1>a, <1>4 DEF FenceApp, Handed
  <2>9. Copied'
    BY <1>a, <1>4 DEF FenceApp, Copied
  <2>10. Owned'
    BY <1>a, <1>4 DEF FenceApp, Owned, Home, Reopening
  <2>11. Fenced'
    BY <1>a, <1>4 DEF FenceApp, Fenced
  <2>12. Consuming'
    BY <1>a, <1>4 DEF FenceApp, Consuming
  <2>13. Requested'
    BY <1>a, <1>4 DEF FenceApp, Requested, Once
  <2>14. QED
    BY <2>1, <2>2, <2>3, <2>4, <2>5, <2>6, <2>7, <2>8, <2>9, <2>10, <2>11, <2>12, <2>13 DEF
         CInv
<1>5. ASSUME Drained PROVE CInv'
  <2>1. LogOK'
    BY <1>a, <1>5 DEF Drained, LogOK, DbType
  <2>2. Sequence'
    BY <1>a, <1>5 DEF Drained, Sequence, Promoting, Reopening, Returning, StepType
  <2>3. SourceShut'
    BY <1>a, <1>5 DEF Drained, SourceShut, Sequence, Promoting, Reopening, Returning
  <2>4. Streaming'
    BY <1>a, <1>5 DEF Drained, Streaming, Streamed, LastOf
  <2>5. Proven'
    BY <1>a, <1>5 DEF Drained, Proven, AllStopped, Emptied
  <2>6. FrozenOK'
    BY <1>a, <1>5 DEF Drained, FrozenOK, Sequence
  <2>7. Quiet'
    BY <1>a, <1>5 DEF Drained, Quiet, Emptied, AllStopped
  <2>8. Handed'
    BY <1>a, <1>5 DEF Drained, Handed
  <2>9. Copied'
    BY <1>a, <1>5 DEF Drained, Copied
  <2>10. Owned'
    BY <1>a, <1>5 DEF Drained, Owned, Home, Reopening
  <2>11. Fenced'
    BY <1>a, <1>5 DEF Drained, Fenced
  <2>12. Consuming'
    BY <1>a, <1>5 DEF Drained, Consuming
  <2>13. Requested'
    BY <1>a, <1>5 DEF Drained, Requested, Once
  <2>14. QED
    BY <2>1, <2>2, <2>3, <2>4, <2>5, <2>6, <2>7, <2>8, <2>9, <2>10, <2>11, <2>12, <2>13 DEF
         CInv
<1>6. ASSUME DrainFails PROVE CInv'
  <2>1. LogOK'
    BY <1>a, <1>6 DEF DrainFails, LogOK, DbType
  <2>2. Sequence'
    BY <1>a, <1>6 DEF DrainFails, Sequence, Promoting, Reopening, Returning, StepType
  <2>3. SourceShut'
    BY <1>a, <1>6 DEF DrainFails, SourceShut, Sequence, Promoting, Reopening, Returning
  <2>4. Streaming'
    BY <1>a, <1>6 DEF DrainFails, Streaming, Streamed, LastOf
  <2>5. Proven'
    BY <1>a, <1>6 DEF DrainFails, Proven, AllStopped, Emptied
  <2>6. FrozenOK'
    BY <1>a, <1>6 DEF DrainFails, FrozenOK, Sequence
  <2>7. Quiet'
    BY <1>a, <1>6 DEF DrainFails, Quiet, Emptied, AllStopped
  <2>8. Handed'
    BY <1>a, <1>6 DEF DrainFails, Handed
  <2>9. Copied'
    BY <1>a, <1>6 DEF DrainFails, Copied
  <2>10. Owned'
    BY <1>a, <1>6 DEF DrainFails, Owned, Home, Reopening
  <2>11. Fenced'
    BY <1>a, <1>6 DEF DrainFails, Fenced
  <2>12. Consuming'
    BY <1>a, <1>6 DEF DrainFails, Consuming
  <2>13. Requested'
    BY <1>a, <1>6 DEF DrainFails, Requested, Once
  <2>14. QED
    BY <2>1, <2>2, <2>3, <2>4, <2>5, <2>6, <2>7, <2>8, <2>9, <2>10, <2>11, <2>12, <2>13 DEF
         CInv
<1>7. ASSUME SetReadOnly PROVE CInv'
  <2>1. LogOK'
    BY <1>a, <1>7 DEF SetReadOnly, LogOK, DbType
  <2>2. Sequence'
    BY <1>a, <1>7 DEF SetReadOnly, Sequence, Promoting, Reopening, Returning, StepType
  <2>3. SourceShut'
    BY <1>a, <1>7 DEF SetReadOnly, SourceShut, Sequence, Promoting, Reopening, Returning
  <2>4. Streaming'
    BY <1>a, <1>7 DEF SetReadOnly, Streaming, Streamed, LastOf
  <2>5. Proven'
    BY <1>a, <1>7 DEF SetReadOnly, Proven, AllStopped, Emptied
  <2>6. FrozenOK'
    BY <1>a, <1>7 DEF SetReadOnly, FrozenOK, Sequence
  <2>7. Quiet'
    BY <1>a, <1>7 DEF SetReadOnly, Quiet, Emptied, AllStopped
  <2>8. Handed'
    BY <1>a, <1>7 DEF SetReadOnly, Handed, Sequence, Promoting
  <2>9. Copied'
    BY <1>a, <1>7 DEF SetReadOnly, Copied
  <2>10. Owned'
    BY <1>a, <1>7 DEF SetReadOnly, Owned, Home, Reopening
  <2>11. Fenced'
    BY <1>a, <1>7 DEF SetReadOnly, Fenced
  <2>12. Consuming'
    BY <1>a, <1>7 DEF SetReadOnly, Consuming
  <2>13. Requested'
    BY <1>a, <1>7 DEF SetReadOnly, Requested, Once
  <2>14. QED
    BY <2>1, <2>2, <2>3, <2>4, <2>5, <2>6, <2>7, <2>8, <2>9, <2>10, <2>11, <2>12, <2>13 DEF
         CInv
<1>8. ASSUME InsertMarker PROVE CInv'
  <2>1. LogOK'
    BY SMTT(30), <1>a, <1>8 DEF InsertMarker, LogOK, DbType
  <2>2. Sequence'
    BY <1>a, <1>8 DEF InsertMarker, Sequence, Promoting, Reopening, Returning, StepType
  <2>3. SourceShut'
    BY <1>a, <1>8 DEF InsertMarker, SourceShut, Sequence, Promoting, Reopening, Returning
  <2>4. Streaming'
    <3>1. 0 \in Nat /\ log' = Append(log, 0) /\ acked <= acked' /\ UNCHANGED <<pos, topic, done, rows, intent>>
      BY <1>a, <1>b, <1>8 DEF InsertMarker, DbType
    <3>2. QED
      BY <1>a, <1>b, <3>1, StreamingLog
  <2>5. Proven'
    BY <1>a, <1>8 DEF InsertMarker, Proven, AllStopped, Emptied
  <2>6. FrozenOK'
    BY <1>a, <1>8 DEF InsertMarker, FrozenOK, Sequence
  <2>7. Quiet'
    BY <1>a, <1>8 DEF InsertMarker, Quiet, Emptied, AllStopped
  <2>8. Handed'
    BY <1>a, <1>8 DEF InsertMarker, Handed
  <2>9. Copied'
    BY <1>a, <1>8 DEF InsertMarker, Copied
  <2>10. Owned'
    BY <1>a, <1>8 DEF InsertMarker, Owned, Home, Reopening
  <2>11. Fenced'
    BY <1>a, <1>8 DEF InsertMarker, Fenced
  <2>12. Consuming'
    BY <1>a, <1>8 DEF InsertMarker, Consuming
  <2>13. Requested'
    BY <1>a, <1>8 DEF InsertMarker, Requested, Once
  <2>14. QED
    BY <2>1, <2>2, <2>3, <2>4, <2>5, <2>6, <2>7, <2>8, <2>9, <2>10, <2>11, <2>12, <2>13 DEF
         CInv
<1>9. ASSUME SetSuperReadOnly PROVE CInv'
  <2>1. LogOK'
    BY <1>a, <1>9 DEF SetSuperReadOnly, LogOK, DbType
  <2>2. Sequence'
    BY <1>a, <1>9 DEF SetSuperReadOnly, Sequence, Promoting, Reopening, Returning, StepType
  <2>3. SourceShut'
    BY <1>a, <1>9 DEF SetSuperReadOnly, SourceShut, Sequence, Promoting, Reopening,
         Returning
  <2>4. Streaming'
    BY <1>a, <1>9 DEF SetSuperReadOnly, Streaming, Streamed, LastOf
  <2>5. Proven'
    BY <1>a, <1>9 DEF SetSuperReadOnly, Proven, AllStopped, Emptied
  <2>6. FrozenOK'
    BY <1>a, <1>9 DEF SetSuperReadOnly, FrozenOK, Sequence
  <2>7. Quiet'
    BY <1>a, <1>9 DEF SetSuperReadOnly, Quiet, Emptied, AllStopped
  <2>8. Handed'
    BY <1>a, <1>9 DEF SetSuperReadOnly, Handed, Sequence, Promoting
  <2>9. Copied'
    BY <1>a, <1>9 DEF SetSuperReadOnly, Copied
  <2>10. Owned'
    BY <1>a, <1>9 DEF SetSuperReadOnly, Owned, Home, Reopening
  <2>11. Fenced'
    BY <1>a, <1>9 DEF SetSuperReadOnly, Fenced
  <2>12. Consuming'
    BY <1>a, <1>9 DEF SetSuperReadOnly, Consuming
  <2>13. Requested'
    BY <1>a, <1>9 DEF SetSuperReadOnly, Requested, Once
  <2>14. QED
    BY <2>1, <2>2, <2>3, <2>4, <2>5, <2>6, <2>7, <2>8, <2>9, <2>10, <2>11, <2>12, <2>13 DEF
         CInv
<1>10. ASSUME ReceiveProof PROVE CInv'
  <2>1. LogOK'
    BY <1>a, <1>10 DEF ReceiveProof, LogOK, DbType
  <2>2. Sequence'
    BY <1>a, <1>10 DEF ReceiveProof, Sequence, Promoting, Reopening, Returning, StepType
  <2>3. SourceShut'
    BY <1>a, <1>10 DEF ReceiveProof, SourceShut, Sequence, Promoting, Reopening, Returning
  <2>4. Streaming'
    BY <1>a, <1>10 DEF ReceiveProof, Streaming, Streamed, LastOf
  <2>5. Proven'
    BY <1>a, <1>10 DEF ReceiveProof, Proven, AllStopped, Emptied
  <2>6. FrozenOK'
    BY <1>a, <1>10 DEF ReceiveProof, FrozenOK, Sequence
  <2>7. Quiet'
    BY <1>a, <1>10 DEF ReceiveProof, Quiet, Emptied, AllStopped
  <2>8. Handed'
    BY <1>a, <1>10 DEF ReceiveProof, Handed
  <2>9. Copied'
    BY <1>a, <1>10 DEF ReceiveProof, Copied
  <2>10. Owned'
    BY <1>a, <1>10 DEF ReceiveProof, Owned, Home, Reopening
  <2>11. Fenced'
    BY <1>a, <1>10 DEF ReceiveProof, Fenced
  <2>12. Consuming'
    BY <1>a, <1>10 DEF ReceiveProof, Consuming
  <2>13. Requested'
    BY <1>a, <1>10 DEF ReceiveProof, Requested, Once
  <2>14. QED
    BY <2>1, <2>2, <2>3, <2>4, <2>5, <2>6, <2>7, <2>8, <2>9, <2>10, <2>11, <2>12, <2>13 DEF
         CInv
<1>11. ASSUME NoValidProof PROVE CInv'
  <2>1. LogOK'
    BY <1>a, <1>11 DEF NoValidProof, LogOK, DbType
  <2>2. Sequence'
    BY <1>a, <1>11 DEF NoValidProof, Sequence, Promoting, Reopening, Returning, StepType
  <2>3. SourceShut'
    BY <1>a, <1>11 DEF NoValidProof, SourceShut, Sequence, Promoting, Reopening, Returning
  <2>4. Streaming'
    BY <1>a, <1>11 DEF NoValidProof, Streaming, Streamed, LastOf
  <2>5. Proven'
    BY <1>a, <1>11 DEF NoValidProof, Proven, AllStopped, Emptied
  <2>6. FrozenOK'
    BY <1>a, <1>11 DEF NoValidProof, FrozenOK, Sequence
  <2>7. Quiet'
    BY <1>a, <1>11 DEF NoValidProof, Quiet, Emptied, AllStopped
  <2>8. Handed'
    BY <1>a, <1>11 DEF NoValidProof, Handed
  <2>9. Copied'
    BY <1>a, <1>11 DEF NoValidProof, Copied
  <2>10. Owned'
    BY <1>a, <1>11 DEF NoValidProof, Owned, Home, Reopening
  <2>11. Fenced'
    BY <1>a, <1>11 DEF NoValidProof, Fenced
  <2>12. Consuming'
    BY <1>a, <1>11 DEF NoValidProof, Consuming
  <2>13. Requested'
    BY <1>a, <1>11 DEF NoValidProof, Requested, Once
  <2>14. QED
    BY <2>1, <2>2, <2>3, <2>4, <2>5, <2>6, <2>7, <2>8, <2>9, <2>10, <2>11, <2>12, <2>13 DEF
         CInv
<1>12. ASSUME Promise PROVE CInv'
  <2>1. LogOK'
    BY <1>a, <1>12 DEF Promise, LogOK, DbType
  <2>2. Sequence'
    BY <1>a, <1>12 DEF Promise, Sequence, Promoting, Reopening, Returning, StepType
  <2>3. SourceShut'
    BY <1>a, <1>12 DEF Promise, SourceShut, Sequence, Promoting, Reopening, Returning,
         PromoteChecks
  <2>4. Streaming'
    BY <1>a, <1>12 DEF Promise, Streaming, Streamed, LastOf
  <2>5. Proven'
    BY <1>a, <1>12 DEF Promise, Proven, AllStopped, Emptied
  <2>6. FrozenOK'
    BY <1>a, <1>12 DEF Promise, FrozenOK, Sequence
  <2>7. Quiet'
    BY <1>a, <1>12 DEF Promise, Quiet, Emptied, AllStopped, PromoteChecks, Proven
  <2>8. Handed'
    <3>1. /\ stored.equal /\ frozen' = frozen /\ UNCHANGED <<rows, acked, log>> /\ ~intent
          /\ \A c \in Connectors : frozen.gtids <= stored.gtids[c]
      BY <1>a, <1>12 DEF Promise, PromoteChecks, Sequence, Promoting
    <3>2. Emptied /\ stored.gtids = pos /\ Home
      BY <1>a, <3>1 DEF Proven, Owned
    <3>3. SUFFICES ASSUME NEW s \in Connectors PROVE rows[s] = acked
      BY <3>1 DEF Handed
    <3>4. /\ Streamed(s) /\ done[s] = Len(topic[s]) /\ pos[s] \in Nat /\ topic[s] \in Seq(Nat)
          /\ frozen.gtids <= pos[s] /\ frozen.gtids \in Nat /\ acked \in Nat
      BY <1>a, <3>1, <3>2 DEF Streaming, Emptied, StreamType, NoteType, DbType
    <3>5. rows[s] = LastOf(s) /\ LastOf(s) \in Nat
      BY <3>4 DEF Streamed, LastOf
    <3>6. LastOf(s) >= acked
      <4>1. CASE acked = 0
        BY <3>5, <4>1
      <4>2. CASE acked # 0
        <5>1. PICK i \in 1..Len(log) : log[i] = acked
          BY <3>2, <4>2 DEF Home
        <5>2. i <= frozen.gtids
          BY SMTT(30), <1>a, <1>12, <3>4, <4>2, <5>1 DEF FrozenOK, Promise, DbType
        <5>3. i \in 1..pos[s]
          BY <3>4, <5>2
        <5>4. QED
          BY <3>4, <5>1, <5>3 DEF Streamed
      <4>3. QED
        BY <4>1, <4>2
    <3>7. QED
      BY <3>4, <3>5, <3>6 DEF Streamed
  <2>9. Copied'
    BY <1>a, <1>12 DEF Promise, Copied
  <2>10. Owned'
    BY <1>a, <1>12 DEF Promise, Owned, Home, Reopening
  <2>11. Fenced'
    BY <1>a, <1>12 DEF Promise, Fenced
  <2>12. Consuming'
    BY <1>a, <1>12 DEF Promise, Consuming
  <2>13. Requested'
    BY <1>a, <1>12 DEF Promise, Requested, Once
  <2>14. QED
    BY <2>1, <2>2, <2>3, <2>4, <2>5, <2>6, <2>7, <2>8, <2>9, <2>10, <2>11, <2>12, <2>13 DEF
         CInv
<1>13. ASSUME PromoteRefused PROVE CInv'
  <2>1. LogOK'
    BY <1>a, <1>13 DEF PromoteRefused, LogOK, DbType
  <2>2. Sequence'
    BY <1>a, <1>13 DEF PromoteRefused, Sequence, Promoting, Reopening, Returning, StepType
  <2>3. SourceShut'
    BY <1>a, <1>13 DEF PromoteRefused, SourceShut, Sequence, Promoting, Reopening, Returning
  <2>4. Streaming'
    BY <1>a, <1>13 DEF PromoteRefused, Streaming, Streamed, LastOf
  <2>5. Proven'
    BY <1>a, <1>13 DEF PromoteRefused, Proven, AllStopped, Emptied
  <2>6. FrozenOK'
    BY <1>a, <1>13 DEF PromoteRefused, FrozenOK, Sequence
  <2>7. Quiet'
    BY <1>a, <1>13 DEF PromoteRefused, Quiet, Emptied, AllStopped
  <2>8. Handed'
    BY <1>a, <1>13 DEF PromoteRefused, Handed
  <2>9. Copied'
    BY <1>a, <1>13 DEF PromoteRefused, Copied
  <2>10. Owned'
    BY <1>a, <1>13 DEF PromoteRefused, Owned, Home, Reopening
  <2>11. Fenced'
    BY <1>a, <1>13 DEF PromoteRefused, Fenced
  <2>12. Consuming'
    BY <1>a, <1>13 DEF PromoteRefused, Consuming
  <2>13. Requested'
    BY <1>a, <1>13 DEF PromoteRefused, Requested, Once
  <2>14. QED
    BY <2>1, <2>2, <2>3, <2>4, <2>5, <2>6, <2>7, <2>8, <2>9, <2>10, <2>11, <2>12, <2>13 DEF
         CInv
<1>14. ASSUME OpenTarget PROVE CInv'
  <2>1. LogOK'
    BY <1>a, <1>14 DEF OpenTarget, LogOK, DbType
  <2>2. Sequence'
    BY <1>a, <1>14 DEF OpenTarget, Sequence, Promoting, Reopening, Returning, StepType
  <2>3. SourceShut'
    BY <1>a, <1>14 DEF OpenTarget, SourceShut, Sequence, Promoting, Reopening, Returning
  <2>4. Streaming'
    BY <1>a, <1>14 DEF OpenTarget, Streaming, Streamed, LastOf
  <2>5. Proven'
    BY <1>a, <1>14 DEF OpenTarget, Proven, AllStopped, Emptied
  <2>6. FrozenOK'
    BY <1>a, <1>14 DEF OpenTarget, FrozenOK, Sequence
  <2>7. Quiet'
    BY <1>a, <1>14 DEF OpenTarget, Quiet, Emptied, AllStopped
  <2>8. Handed'
    BY <1>a, <1>14 DEF OpenTarget, Handed
  <2>9. Copied'
    BY <1>a, <1>14 DEF OpenTarget, Copied
  <2>10. Owned'
    BY <1>a, <1>14 DEF OpenTarget, Owned, Home, Reopening
  <2>11. Fenced'
    BY <1>a, <1>14 DEF OpenTarget, Fenced
  <2>12. Consuming'
    BY <1>a, <1>14 DEF OpenTarget, Consuming
  <2>13. Requested'
    BY <1>a, <1>14 DEF OpenTarget, Requested, Once
  <2>14. QED
    BY <2>1, <2>2, <2>3, <2>4, <2>5, <2>6, <2>7, <2>8, <2>9, <2>10, <2>11, <2>12, <2>13 DEF
         CInv
<1>15. ASSUME RouteToTarget PROVE CInv'
  <2>1. LogOK'
    BY <1>a, <1>15 DEF RouteToTarget, LogOK, DbType
  <2>2. Sequence'
    BY <1>a, <1>15 DEF RouteToTarget, Sequence, Promoting, Reopening, Returning, StepType
  <2>3. SourceShut'
    BY <1>a, <1>15 DEF RouteToTarget, SourceShut, Sequence, Promoting, Reopening, Returning
  <2>4. Streaming'
    BY <1>a, <1>15 DEF RouteToTarget, Streaming, Streamed, LastOf
  <2>5. Proven'
    BY <1>a, <1>15 DEF RouteToTarget, Proven, AllStopped, Emptied
  <2>6. FrozenOK'
    BY <1>a, <1>15 DEF RouteToTarget, FrozenOK, Sequence
  <2>7. Quiet'
    BY <1>a, <1>15 DEF RouteToTarget, Quiet, Emptied, AllStopped
  <2>8. Handed'
    BY <1>a, <1>15 DEF RouteToTarget, Handed, SourceShut, Promoting
  <2>9. Copied'
    BY <1>a, <1>15 DEF RouteToTarget, Copied
  <2>10. Owned'
    BY <1>a, <1>15 DEF RouteToTarget, Owned, Home, Reopening
  <2>11. Fenced'
    BY <1>a, <1>15 DEF RouteToTarget, Fenced
  <2>12. Consuming'
    BY <1>a, <1>15 DEF RouteToTarget, Consuming
  <2>13. Requested'
    BY <1>a, <1>15 DEF RouteToTarget, Requested, Once
  <2>14. QED
    BY <2>1, <2>2, <2>3, <2>4, <2>5, <2>6, <2>7, <2>8, <2>9, <2>10, <2>11, <2>12, <2>13 DEF
         CInv
<1>16. ASSUME SaveSwitched PROVE CInv'
  <2>1. LogOK'
    BY <1>a, <1>16 DEF SaveSwitched, LogOK, DbType
  <2>2. Sequence'
    BY <1>a, <1>16 DEF SaveSwitched, Sequence, Promoting, Reopening, Returning, StepType
  <2>3. SourceShut'
    BY <1>a, <1>16 DEF SaveSwitched, SourceShut, Sequence, Promoting, Reopening, Returning
  <2>4. Streaming'
    BY <1>a, <1>16 DEF SaveSwitched, Streaming, Streamed, LastOf
  <2>5. Proven'
    BY <1>a, <1>16 DEF SaveSwitched, Proven, AllStopped, Emptied
  <2>6. FrozenOK'
    BY <1>a, <1>16 DEF SaveSwitched, FrozenOK, Sequence
  <2>7. Quiet'
    BY <1>a, <1>16 DEF SaveSwitched, Quiet, Emptied, AllStopped
  <2>8. Handed'
    BY <1>a, <1>16 DEF SaveSwitched, Handed
  <2>9. Copied'
    BY <1>a, <1>16 DEF SaveSwitched, Copied
  <2>10. Owned'
    BY <1>a, <1>16 DEF SaveSwitched, Owned, Home, Reopening
  <2>11. Fenced'
    BY <1>a, <1>16 DEF SaveSwitched, Fenced
  <2>12. Consuming'
    BY <1>a, <1>16 DEF SaveSwitched, Consuming
  <2>13. Requested'
    BY <1>a, <1>16 DEF SaveSwitched, Requested, Once
  <2>14. QED
    BY <2>1, <2>2, <2>3, <2>4, <2>5, <2>6, <2>7, <2>8, <2>9, <2>10, <2>11, <2>12, <2>13 DEF
         CInv
<1>17. ASSUME EnableConsumer PROVE CInv'
  <2>1. LogOK'
    BY <1>a, <1>17 DEF EnableConsumer, LogOK, DbType
  <2>2. Sequence'
    BY <1>a, <1>17 DEF EnableConsumer, Sequence, Promoting, Reopening, Returning, StepType
  <2>3. SourceShut'
    BY <1>a, <1>17 DEF EnableConsumer, SourceShut, Sequence, Promoting, Reopening, Returning
  <2>4. Streaming'
    BY <1>a, <1>17 DEF EnableConsumer, Streaming, Streamed, LastOf
  <2>5. Proven'
    BY <1>a, <1>17 DEF EnableConsumer, Proven, AllStopped, Emptied
  <2>6. FrozenOK'
    BY <1>a, <1>17 DEF EnableConsumer, FrozenOK, Sequence
  <2>7. Quiet'
    BY <1>a, <1>17 DEF EnableConsumer, Quiet, Emptied, AllStopped
  <2>8. Handed'
    BY <1>a, <1>17 DEF EnableConsumer, Handed
  <2>9. Copied'
    BY <1>a, <1>17 DEF EnableConsumer, Copied
  <2>10. Owned'
    BY <1>a, <1>17 DEF EnableConsumer, Owned, Home, Reopening
  <2>11. Fenced'
    BY <1>a, <1>17 DEF EnableConsumer, Fenced
  <2>12. Consuming'
    BY <1>a, <1>17 DEF EnableConsumer, Consuming, Sequence, Promoting
  <2>13. Requested'
    BY <1>a, <1>17 DEF EnableConsumer, Requested, Once
  <2>14. QED
    BY <2>1, <2>2, <2>3, <2>4, <2>5, <2>6, <2>7, <2>8, <2>9, <2>10, <2>11, <2>12, <2>13 DEF
         CInv
<1>18. ASSUME CtlFails PROVE CInv'
  <2>1. LogOK'
    BY <1>a, <1>18 DEF CtlFails, LogOK, DbType
  <2>2. Sequence'
    BY <1>a, <1>18 DEF CtlFails, Sequence, Promoting, Reopening, Returning, StepType
  <2>3. SourceShut'
    BY <1>a, <1>18 DEF CtlFails, SourceShut, Sequence, Promoting, Reopening, Returning
  <2>4. Streaming'
    BY <1>a, <1>18 DEF CtlFails, Streaming, Streamed, LastOf
  <2>5. Proven'
    BY <1>a, <1>18 DEF CtlFails, Proven, AllStopped, Emptied
  <2>6. FrozenOK'
    BY <1>a, <1>18 DEF CtlFails, FrozenOK, Sequence
  <2>7. Quiet'
    BY <1>a, <1>18 DEF CtlFails, Quiet, Emptied, AllStopped
  <2>8. Handed'
    BY <1>a, <1>18 DEF CtlFails, Handed
  <2>9. Copied'
    BY <1>a, <1>18 DEF CtlFails, Copied
  <2>10. Owned'
    BY <1>a, <1>18 DEF CtlFails, Owned, Home, Reopening
  <2>11. Fenced'
    BY <1>a, <1>18 DEF CtlFails, Fenced
  <2>12. Consuming'
    BY <1>a, <1>18 DEF CtlFails, Consuming
  <2>13. Requested'
    BY <1>a, <1>18 DEF CtlFails, Requested, Once
  <2>14. QED
    BY <2>1, <2>2, <2>3, <2>4, <2>5, <2>6, <2>7, <2>8, <2>9, <2>10, <2>11, <2>12, <2>13 DEF
         CInv
<1>19. ASSUME LateStatement PROVE CInv'
  <2>1. LogOK'
    BY <1>a, <1>19 DEF LateStatement, LogOK, DbType
  <2>2. Sequence'
    BY <1>a, <1>19 DEF LateStatement, Sequence, Promoting, Reopening, Returning, StepType
  <2>3. SourceShut'
    BY <1>a, <1>19 DEF LateStatement, SourceShut, Sequence, Promoting, Reopening, Returning
  <2>4. Streaming'
    BY <1>a, <1>19 DEF LateStatement, Streaming, Streamed, LastOf
  <2>5. Proven'
    BY <1>a, <1>19 DEF LateStatement, Proven, AllStopped, Emptied
  <2>6. FrozenOK'
    BY <1>a, <1>19 DEF LateStatement, FrozenOK, Sequence
  <2>7. Quiet'
    BY <1>a, <1>19 DEF LateStatement, Quiet, Emptied, AllStopped
  <2>8. Handed'
    BY <1>a, <1>19 DEF LateStatement, Handed, SourceShut, Promoting
  <2>9. Copied'
    BY <1>a, <1>19 DEF LateStatement, Copied
  <2>10. Owned'
    BY <1>a, <1>19 DEF LateStatement, Owned, Home, Reopening
  <2>11. Fenced'
    BY <1>a, <1>19 DEF LateStatement, Fenced
  <2>12. Consuming'
    BY <1>a, <1>19 DEF LateStatement, Consuming
  <2>13. Requested'
    BY <1>a, <1>19 DEF LateStatement, Requested, Once
  <2>14. QED
    BY <2>1, <2>2, <2>3, <2>4, <2>5, <2>6, <2>7, <2>8, <2>9, <2>10, <2>11, <2>12, <2>13 DEF
         CInv
<1>20. ASSUME TimePasses PROVE CInv'
  <2>1. LogOK'
    BY <1>a, <1>20 DEF TimePasses, LogOK, DbType
  <2>2. Sequence'
    BY <1>a, <1>20 DEF TimePasses, Sequence, Promoting, Reopening, Returning, StepType
  <2>3. SourceShut'
    BY <1>a, <1>20 DEF TimePasses, SourceShut, Sequence, Promoting, Reopening, Returning
  <2>4. Streaming'
    BY <1>a, <1>20 DEF TimePasses, Streaming, Streamed, LastOf
  <2>5. Proven'
    BY <1>a, <1>20 DEF TimePasses, Proven, AllStopped, Emptied
  <2>6. FrozenOK'
    BY <1>a, <1>20 DEF TimePasses, FrozenOK, Sequence
  <2>7. Quiet'
    BY <1>a, <1>20 DEF TimePasses, Quiet, Emptied, AllStopped
  <2>8. Handed'
    BY <1>a, <1>20 DEF TimePasses, Handed
  <2>9. Copied'
    BY <1>a, <1>20 DEF TimePasses, Copied
  <2>10. Owned'
    BY <1>a, <1>20 DEF TimePasses, Owned, Home, Reopening
  <2>11. Fenced'
    BY <1>a, <1>20 DEF TimePasses, Fenced
  <2>12. Consuming'
    BY <1>a, <1>20 DEF TimePasses, Consuming
  <2>13. Requested'
    BY <1>a, <1>20 DEF TimePasses, Requested, Once
  <2>14. QED
    BY <2>1, <2>2, <2>3, <2>4, <2>5, <2>6, <2>7, <2>8, <2>9, <2>10, <2>11, <2>12, <2>13 DEF
         CInv
<1>21. QED
  BY <1>1, <1>2, <1>3, <1>4, <1>5, <1>6, <1>7, <1>8, <1>9, <1>10, <1>11, <1>12, <1>13,
       <1>14, <1>15, <1>16, <1>17, <1>18, <1>19, <1>20 DEF Control

LEMMA StepOrch ==
  ASSUME CInv, TypeInv', Orchestrate
  PROVE  CInv'
<1> USE CdcAssumption DEF Marker,
            dbVars, streamVars, appVars, saved, proofVars, ctlVars, elsewhere, beside, kcKeeps, outside,
            orchKeeps, Ctl, End, Save, Orch
<1>a. /\ DbType /\ StreamType /\ AppType /\ StepType /\ NoteType
      /\ LogOK /\ Sequence /\ SourceShut /\ Streaming /\ Proven /\ FrozenOK /\ Quiet
      /\ Handed /\ Copied /\ Owned /\ Fenced /\ Consuming /\ Requested
  BY TypeParts DEF CInv
<1>b. DbType' /\ StreamType' /\ AppType' /\ StepType' /\ NoteType'
  BY TypePartsNext
<1>1. ASSUME StopAll PROVE CInv'
  <2>1. LogOK'
    BY <1>a, <1>1 DEF StopAll, LogOK, DbType
  <2>2. Sequence'
    BY <1>a, <1>1 DEF StopAll, Sequence, Promoting, Reopening, Returning, StepType
  <2>3. SourceShut'
    BY <1>a, <1>1 DEF StopAll, SourceShut, Sequence, Promoting, Reopening, Returning
  <2>4. Streaming'
    BY <1>a, <1>1 DEF StopAll, Streaming, Streamed, LastOf
  <2>5. Proven'
    BY <1>a, <1>1 DEF StopAll, Proven, AllStopped, Emptied
  <2>6. FrozenOK'
    BY <1>a, <1>1 DEF StopAll, FrozenOK, Sequence
  <2>7. Quiet'
    BY <1>a, <1>1 DEF StopAll, Quiet, Emptied, AllStopped
  <2>8. Handed'
    BY <1>a, <1>1 DEF StopAll, Handed
  <2>9. Copied'
    BY <1>a, <1>1 DEF StopAll, Copied
  <2>10. Owned'
    BY <1>a, <1>1 DEF StopAll, Owned, Home, Reopening
  <2>11. Fenced'
    BY <1>a, <1>1 DEF StopAll, Fenced
  <2>12. Consuming'
    BY <1>a, <1>1 DEF StopAll, Consuming
  <2>13. Requested'
    BY <1>a, <1>1 DEF StopAll, Requested, Once
  <2>14. QED
    BY <2>1, <2>2, <2>3, <2>4, <2>5, <2>6, <2>7, <2>8, <2>9, <2>10, <2>11, <2>12, <2>13 DEF
         CInv
<1>2. ASSUME Recover PROVE CInv'
  <2>1. LogOK'
    BY <1>a, <1>2 DEF Recover, MayRecover, LogOK, DbType
  <2>2. Sequence'
    BY <1>a, <1>2 DEF Recover, MayRecover, Sequence, Promoting, Reopening, Returning,
         StepType
  <2>3. SourceShut'
    BY <1>a, <1>2 DEF Recover, MayRecover, SourceShut, Sequence, Promoting, Reopening,
         Returning
  <2>4. Streaming'
    BY <1>a, <1>2 DEF Recover, MayRecover, Streaming, Streamed, LastOf
  <2>5. Proven'
    BY <1>a, <1>2 DEF Recover, MayRecover, Proven, AllStopped, Emptied
  <2>6. FrozenOK'
    BY <1>a, <1>2 DEF Recover, MayRecover, FrozenOK, Sequence
  <2>7. Quiet'
    BY <1>a, <1>2 DEF Recover, MayRecover, Quiet, Emptied, AllStopped
  <2>8. Handed'
    BY <1>a, <1>2 DEF Recover, MayRecover, Handed
  <2>9. Copied'
    BY <1>a, <1>2 DEF Recover, MayRecover, Copied
  <2>10. Owned'
    BY <1>a, <1>2 DEF Recover, MayRecover, Owned, Home, Reopening
  <2>11. Fenced'
    BY <1>a, <1>2 DEF Recover, MayRecover, Fenced
  <2>12. Consuming'
    BY <1>a, <1>2 DEF Recover, MayRecover, Consuming
  <2>13. Requested'
    BY <1>a, <1>2 DEF Recover, MayRecover, Requested, Once
  <2>14. QED
    BY <2>1, <2>2, <2>3, <2>4, <2>5, <2>6, <2>7, <2>8, <2>9, <2>10, <2>11, <2>12, <2>13 DEF
         CInv
<1>3. ASSUME RouteBack PROVE CInv'
  <2>1. LogOK'
    BY <1>a, <1>3 DEF RouteBack, LogOK, DbType
  <2>2. Sequence'
    BY <1>a, <1>3 DEF RouteBack, Sequence, Promoting, Reopening, Returning, StepType
  <2>3. SourceShut'
    BY <1>a, <1>3 DEF RouteBack, SourceShut, Sequence, Promoting, Reopening, Returning
  <2>4. Streaming'
    BY <1>a, <1>3 DEF RouteBack, Streaming, Streamed, LastOf
  <2>5. Proven'
    BY <1>a, <1>3 DEF RouteBack, Proven, AllStopped, Emptied
  <2>6. FrozenOK'
    BY <1>a, <1>3 DEF RouteBack, FrozenOK, Sequence
  <2>7. Quiet'
    BY <1>a, <1>3 DEF RouteBack, Quiet, Emptied, AllStopped
  <2>8. Handed'
    BY <1>a, <1>3 DEF RouteBack, Handed
  <2>9. Copied'
    BY <1>a, <1>3 DEF RouteBack, Copied
  <2>10. Owned'
    BY <1>a, <1>3 DEF RouteBack, Owned, Home, Reopening
  <2>11. Fenced'
    BY <1>a, <1>3 DEF RouteBack, Fenced
  <2>12. Consuming'
    BY <1>a, <1>3 DEF RouteBack, Consuming
  <2>13. Requested'
    BY <1>a, <1>3 DEF RouteBack, Requested, Once
  <2>14. QED
    BY <2>1, <2>2, <2>3, <2>4, <2>5, <2>6, <2>7, <2>8, <2>9, <2>10, <2>11, <2>12, <2>13 DEF
         CInv
<1>4. ASSUME OpenSource PROVE CInv'
  <2>1. LogOK'
    BY <1>a, <1>4 DEF OpenSource, LogOK, DbType
  <2>2. Sequence'
    BY <1>a, <1>4 DEF OpenSource, Sequence, Promoting, Reopening, Returning, StepType
  <2>3. SourceShut'
    BY <1>a, <1>4 DEF OpenSource, SourceShut, Sequence, Promoting, Reopening, Returning
  <2>4. Streaming'
    BY <1>a, <1>4 DEF OpenSource, Streaming, Streamed, LastOf
  <2>5. Proven'
    BY <1>a, <1>4 DEF OpenSource, Proven, AllStopped, Emptied
  <2>6. FrozenOK'
    BY <1>a, <1>4 DEF OpenSource, FrozenOK, Sequence
  <2>7. Quiet'
    BY <1>a, <1>4 DEF OpenSource, Quiet, Emptied, AllStopped
  <2>8. Handed'
    BY <1>a, <1>4 DEF OpenSource, Handed
  <2>9. Copied'
    BY <1>a, <1>4 DEF OpenSource, Copied
  <2>10. Owned'
    BY <1>a, <1>4 DEF OpenSource, Owned, Home, Reopening
  <2>11. Fenced'
    BY <1>a, <1>4 DEF OpenSource, Fenced
  <2>12. Consuming'
    BY <1>a, <1>4 DEF OpenSource, Consuming
  <2>13. Requested'
    BY <1>a, <1>4 DEF OpenSource, Requested, Once
  <2>14. QED
    BY <2>1, <2>2, <2>3, <2>4, <2>5, <2>6, <2>7, <2>8, <2>9, <2>10, <2>11, <2>12, <2>13 DEF
         CInv
<1>5. ASSUME SaveReopened PROVE CInv'
  <2>1. LogOK'
    BY <1>a, <1>5 DEF SaveReopened, LogOK, DbType
  <2>2. Sequence'
    BY <1>a, <1>5 DEF SaveReopened, Sequence, Promoting, Reopening, Returning, StepType
  <2>3. SourceShut'
    BY <1>a, <1>5 DEF SaveReopened, SourceShut, Sequence, Promoting, Reopening, Returning
  <2>4. Streaming'
    BY <1>a, <1>5 DEF SaveReopened, Streaming, Streamed, LastOf
  <2>5. Proven'
    BY <1>a, <1>5 DEF SaveReopened, Proven, AllStopped, Emptied
  <2>6. FrozenOK'
    BY <1>a, <1>5 DEF SaveReopened, FrozenOK, Sequence
  <2>7. Quiet'
    BY <1>a, <1>5 DEF SaveReopened, Quiet, Emptied, AllStopped
  <2>8. Handed'
    BY <1>a, <1>5 DEF SaveReopened, Handed
  <2>9. Copied'
    BY <1>a, <1>5 DEF SaveReopened, Copied
  <2>10. Owned'
    BY <1>a, <1>5 DEF SaveReopened, Owned, Home, Reopening
  <2>11. Fenced'
    BY <1>a, <1>5 DEF SaveReopened, Fenced, Sequence
  <2>12. Consuming'
    BY <1>a, <1>5 DEF SaveReopened, Consuming
  <2>13. Requested'
    BY <1>a, <1>5 DEF SaveReopened, Requested, Once
  <2>14. QED
    BY <2>1, <2>2, <2>3, <2>4, <2>5, <2>6, <2>7, <2>8, <2>9, <2>10, <2>11, <2>12, <2>13 DEF
         CInv
<1>6. ASSUME Park PROVE CInv'
  <2>1. LogOK'
    BY <1>a, <1>6 DEF Park, LogOK, DbType
  <2>2. Sequence'
    BY <1>a, <1>6 DEF Park, Sequence, Promoting, Reopening, Returning, StepType
  <2>3. SourceShut'
    BY <1>a, <1>6 DEF Park, SourceShut, Sequence, Promoting, Reopening, Returning
  <2>4. Streaming'
    BY <1>a, <1>6 DEF Park, Streaming, Streamed, LastOf
  <2>5. Proven'
    BY <1>a, <1>6 DEF Park, Proven, AllStopped, Emptied
  <2>6. FrozenOK'
    BY <1>a, <1>6 DEF Park, FrozenOK, Sequence
  <2>7. Quiet'
    BY <1>a, <1>6 DEF Park, Quiet, Emptied, AllStopped
  <2>8. Handed'
    BY <1>a, <1>6 DEF Park, Handed
  <2>9. Copied'
    BY <1>a, <1>6 DEF Park, Copied
  <2>10. Owned'
    BY <1>a, <1>6 DEF Park, Owned, Home, Reopening
  <2>11. Fenced'
    BY <1>a, <1>6 DEF Park, Fenced
  <2>12. Consuming'
    BY <1>a, <1>6 DEF Park, Consuming
  <2>13. Requested'
    BY <1>a, <1>6 DEF Park, Requested, Once
  <2>14. QED
    BY <2>1, <2>2, <2>3, <2>4, <2>5, <2>6, <2>7, <2>8, <2>9, <2>10, <2>11, <2>12, <2>13 DEF
         CInv
<1>7. ASSUME PreserveTarget PROVE CInv'
  <2>1. LogOK'
    BY <1>a, <1>7 DEF PreserveTarget, LogOK, DbType
  <2>2. Sequence'
    BY <1>a, <1>7 DEF PreserveTarget, Sequence, Promoting, Reopening, Returning, StepType
  <2>3. SourceShut'
    BY <1>a, <1>7 DEF PreserveTarget, SourceShut, Sequence, Promoting, Reopening, Returning
  <2>4. Streaming'
    BY <1>a, <1>7 DEF PreserveTarget, Streaming, Streamed, LastOf
  <2>5. Proven'
    BY <1>a, <1>7 DEF PreserveTarget, Proven, AllStopped, Emptied
  <2>6. FrozenOK'
    BY <1>a, <1>7 DEF PreserveTarget, FrozenOK, Sequence
  <2>7. Quiet'
    BY <1>a, <1>7 DEF PreserveTarget, Quiet, Emptied, AllStopped
  <2>8. Handed'
    BY <1>a, <1>7 DEF PreserveTarget, Handed
  <2>9. Copied'
    BY <1>a, <1>7 DEF PreserveTarget, Copied
  <2>10. Owned'
    BY <1>a, <1>7 DEF PreserveTarget, Owned, Home, Reopening
  <2>11. Fenced'
    BY <1>a, <1>7 DEF PreserveTarget, Fenced
  <2>12. Consuming'
    BY <1>a, <1>7 DEF PreserveTarget, Consuming
  <2>13. Requested'
    BY <1>a, <1>7 DEF PreserveTarget, Requested, Once
  <2>14. QED
    BY <2>1, <2>2, <2>3, <2>4, <2>5, <2>6, <2>7, <2>8, <2>9, <2>10, <2>11, <2>12, <2>13 DEF
         CInv
<1>8. ASSUME DumpTarget PROVE CInv'
  <2>1. LogOK'
    BY <1>a, <1>8 DEF DumpTarget, LogOK, DbType
  <2>2. Sequence'
    BY <1>a, <1>8 DEF DumpTarget, Sequence, Promoting, Reopening, Returning, StepType
  <2>3. SourceShut'
    BY <1>a, <1>8 DEF DumpTarget, SourceShut, Sequence, Promoting, Reopening, Returning
  <2>4. Streaming'
    BY <1>a, <1>8 DEF DumpTarget, Streaming, Streamed, LastOf
  <2>5. Proven'
    BY <1>a, <1>8 DEF DumpTarget, Proven, AllStopped, Emptied
  <2>6. FrozenOK'
    BY <1>a, <1>8 DEF DumpTarget, FrozenOK, Sequence
  <2>7. Quiet'
    BY <1>a, <1>8 DEF DumpTarget, Quiet, Emptied, AllStopped
  <2>8. Handed'
    BY <1>a, <1>8 DEF DumpTarget, Handed
  <2>9. Copied'
    BY <1>a, <1>8 DEF DumpTarget, Copied, Handed, Sequence, Returning, SourceShut,
         Connectors
  <2>10. Owned'
    BY <1>a, <1>8 DEF DumpTarget, Owned, Home, Reopening
  <2>11. Fenced'
    BY <1>a, <1>8 DEF DumpTarget, Fenced
  <2>12. Consuming'
    BY <1>a, <1>8 DEF DumpTarget, Consuming
  <2>13. Requested'
    BY <1>a, <1>8 DEF DumpTarget, Requested, Once
  <2>14. QED
    BY <2>1, <2>2, <2>3, <2>4, <2>5, <2>6, <2>7, <2>8, <2>9, <2>10, <2>11, <2>12, <2>13 DEF
         CInv
<1>9. ASSUME RestoreStarts PROVE CInv'
  <2>1. LogOK'
    BY <1>a, <1>9 DEF RestoreStarts, LogOK, DbType
  <2>2. Sequence'
    BY <1>a, <1>9 DEF RestoreStarts, Sequence, Promoting, Reopening, Returning, StepType
  <2>3. SourceShut'
    BY <1>a, <1>9 DEF RestoreStarts, SourceShut, Sequence, Promoting, Reopening, Returning
  <2>4. Streaming'
    BY <1>a, <1>9 DEF RestoreStarts, Streaming, Streamed, LastOf
  <2>5. Proven'
    BY <1>a, <1>9 DEF RestoreStarts, Proven, AllStopped, Emptied
  <2>6. FrozenOK'
    BY <1>a, <1>9 DEF RestoreStarts, FrozenOK, Sequence
  <2>7. Quiet'
    BY <1>a, <1>9 DEF RestoreStarts, Quiet, Emptied, AllStopped
  <2>8. Handed'
    BY <1>a, <1>9 DEF RestoreStarts, Handed
  <2>9. Copied'
    BY <1>a, <1>9 DEF RestoreStarts, Copied
  <2>10. Owned'
    BY <1>a, <1>9 DEF RestoreStarts, Owned, Home, Reopening, Sequence, Returning, SourceShut
  <2>11. Fenced'
    BY <1>a, <1>9 DEF RestoreStarts, Fenced
  <2>12. Consuming'
    BY <1>a, <1>9 DEF RestoreStarts, Consuming
  <2>13. Requested'
    BY <1>a, <1>9 DEF RestoreStarts, Requested, Once
  <2>14. QED
    BY <2>1, <2>2, <2>3, <2>4, <2>5, <2>6, <2>7, <2>8, <2>9, <2>10, <2>11, <2>12, <2>13 DEF
         CInv
<1>10. ASSUME RestoreEnds PROVE CInv'
  <2>1. LogOK'
    <3>1. log' = <<acked>> /\ acked' = acked /\ acked \in Nat
      BY <1>a, <1>10 DEF RestoreEnds, Copied, DbType
    <3>2. Len(log') = 1 /\ log'[1] = acked
      BY <3>1
    <3>3. QED
      BY <3>1, <3>2 DEF LogOK
  <2>2. Sequence'
    BY <1>a, <1>10 DEF RestoreEnds, Sequence, Promoting, Reopening, Returning, StepType
  <2>3. SourceShut'
    BY <1>a, <1>10 DEF RestoreEnds, SourceShut, Sequence, Promoting, Reopening, Returning
  <2>4. Streaming'
    BY <1>a, <1>10 DEF RestoreEnds, Streaming, Streamed, LastOf, Sequence, Returning
  <2>5. Proven'
    BY <1>a, <1>10 DEF RestoreEnds, Proven, AllStopped, Emptied
  <2>6. FrozenOK'
    BY <1>a, <1>10 DEF RestoreEnds, FrozenOK, Sequence
  <2>7. Quiet'
    BY <1>a, <1>10 DEF RestoreEnds, Quiet, Emptied, AllStopped
  <2>8. Handed'
    BY <1>a, <1>10 DEF RestoreEnds, Handed, SourceShut
  <2>9. Copied'
    BY <1>a, <1>10 DEF RestoreEnds, Copied
  <2>10. Owned'
    <3>1. log' = <<acked>> /\ acked' = acked
      BY <1>a, <1>10 DEF RestoreEnds, Copied
    <3>2. Len(log') = 1 /\ log'[1] = acked'
      BY <3>1
    <3>3. QED
      BY <3>2 DEF Owned, Home
  <2>11. Fenced'
    BY <1>a, <1>10 DEF RestoreEnds, Fenced
  <2>12. Consuming'
    BY <1>a, <1>10 DEF RestoreEnds, Consuming
  <2>13. Requested'
    BY <1>a, <1>10 DEF RestoreEnds, Requested, Once
  <2>14. QED
    BY <2>1, <2>2, <2>3, <2>4, <2>5, <2>6, <2>7, <2>8, <2>9, <2>10, <2>11, <2>12, <2>13 DEF
         CInv
<1>11. ASSUME Resume PROVE CInv'
  <2>1. LogOK'
    BY <1>a, <1>11 DEF Resume, LogOK, DbType
  <2>2. Sequence'
    BY <1>a, <1>11 DEF Resume, Sequence, Promoting, Reopening, Returning, StepType
  <2>3. SourceShut'
    BY <1>a, <1>11 DEF Resume, SourceShut, Sequence, Promoting, Reopening, Returning
  <2>4. Streaming'
    BY <1>a, <1>11 DEF Resume, Streaming, Streamed, LastOf
  <2>5. Proven'
    BY <1>a, <1>11 DEF Resume, Proven, AllStopped, Emptied
  <2>6. FrozenOK'
    BY <1>a, <1>11 DEF Resume, FrozenOK, Sequence
  <2>7. Quiet'
    BY <1>a, <1>11 DEF Resume, Quiet, Emptied, AllStopped
  <2>8. Handed'
    BY <1>a, <1>11 DEF Resume, Handed
  <2>9. Copied'
    BY <1>a, <1>11 DEF Resume, Copied
  <2>10. Owned'
    BY <1>a, <1>11 DEF Resume, Owned, Home, Reopening
  <2>11. Fenced'
    BY <1>a, <1>11 DEF Resume, Fenced
  <2>12. Consuming'
    BY <1>a, <1>11 DEF Resume, Consuming
  <2>13. Requested'
    BY <1>a, <1>11 DEF Resume, Requested, Once
  <2>14. QED
    BY <2>1, <2>2, <2>3, <2>4, <2>5, <2>6, <2>7, <2>8, <2>9, <2>10, <2>11, <2>12, <2>13 DEF
         CInv
<1>12. ASSUME OrchFails PROVE CInv'
  <2>1. LogOK'
    BY <1>a, <1>12 DEF OrchFails, LogOK, DbType
  <2>2. Sequence'
    BY <1>a, <1>12 DEF OrchFails, Sequence, Promoting, Reopening, Returning, StepType
  <2>3. SourceShut'
    BY <1>a, <1>12 DEF OrchFails, SourceShut, Sequence, Promoting, Reopening, Returning
  <2>4. Streaming'
    BY <1>a, <1>12 DEF OrchFails, Streaming, Streamed, LastOf
  <2>5. Proven'
    BY <1>a, <1>12 DEF OrchFails, Proven, AllStopped, Emptied
  <2>6. FrozenOK'
    BY <1>a, <1>12 DEF OrchFails, FrozenOK, Sequence
  <2>7. Quiet'
    BY <1>a, <1>12 DEF OrchFails, Quiet, Emptied, AllStopped
  <2>8. Handed'
    BY <1>a, <1>12 DEF OrchFails, Handed
  <2>9. Copied'
    BY <1>a, <1>12 DEF OrchFails, Copied
  <2>10. Owned'
    BY <1>a, <1>12 DEF OrchFails, Owned, Home, Reopening
  <2>11. Fenced'
    BY <1>a, <1>12 DEF OrchFails, Fenced
  <2>12. Consuming'
    BY <1>a, <1>12 DEF OrchFails, Consuming
  <2>13. Requested'
    BY <1>a, <1>12 DEF OrchFails, Requested, Once
  <2>14. QED
    BY <2>1, <2>2, <2>3, <2>4, <2>5, <2>6, <2>7, <2>8, <2>9, <2>10, <2>11, <2>12, <2>13 DEF
         CInv
<1>13. QED
  BY <1>1, <1>2, <1>3, <1>4, <1>5, <1>6, <1>7, <1>8, <1>9, <1>10, <1>11, <1>12 DEF
       Orchestrate

LEMMA CInvStep ==
  ASSUME CInv, [Next]_cdcVars
  PROVE  CInv'
<1>a. TypeInv
  BY DEF CInv
<1>1. CASE Application
  BY <1>a, <1>1, TypeApp, StepApp
<1>2. CASE Streams
  <2>1. PICK c \in Connectors : Produce(c) \/ TaskRestarts(c) \/ Stops(c) \/ SinkApplies(c)
    BY <1>2 DEF Streams
  <2>2. QED
    BY <1>a, <2>1, TypeStreams, StepStreams
<1>3. CASE Boundary
  BY <1>a, <1>3, TypeBoundary, StepBoundary
<1>4. CASE Control \/ CtlFails \/ LateStatement \/ TimePasses
  BY <1>a, <1>4, TypeControl, StepControl
<1>5. CASE Orchestrate
  BY <1>a, <1>5, TypeOrch, StepOrch
<1>6. CASE UNCHANGED cdcVars
  <2>1. UNCHANGED <<src, tgt, route, log, rows, acked, conn, pos, seen, restarts, topic, done, sinksUp,
                    fencing, active, offset, journal, times, consumer, taken, ctl, kc, orch, clock,
                    phase, intent, frozen, frontier, tails, proof, stored, late, result, copy>>
    BY <1>6 DEF cdcVars, dbVars, streamVars, appVars, ctlVars, saved, proofVars
  <2>2. TypeInv'
    BY <1>a, <2>1 DEF TypeInv, CdcTypeOK
  <2>3. LogOK' /\ Sequence' /\ SourceShut'
    BY <2>1 DEF CInv, LogOK, Sequence, SourceShut
  <2>4. Streaming'
    BY <2>1 DEF CInv, Streaming, Streamed, LastOf
  <2>5. Proven' /\ FrozenOK' /\ Quiet'
    BY <2>1 DEF CInv, Proven, FrozenOK, Quiet, Emptied, AllStopped
  <2>6. Handed' /\ Copied' /\ Owned'
    BY <2>1 DEF CInv, Handed, Copied, Owned, Home
  <2>7. Fenced' /\ Consuming' /\ Requested'
    BY <2>1 DEF CInv, Fenced, Consuming, Requested, Once
  <2>8. QED
    BY <2>2, <2>3, <2>4, <2>5, <2>6, <2>7 DEF CInv
<1>7. QED
  BY <1>1, <1>2, <1>3, <1>4, <1>5, <1>6 DEF Next

LEMMA CInvInvariance == CdcSpec => []CInv
BY CInvInit, CInvStep, PTL DEF CdcSpec

\* The last commit in a complete log.
LEMMA LastCommit ==
  ASSUME DbType, LogOK, Home
  PROVE  SourceRow = acked
<1> DEFINE L(i) == i \in DOMAIN log /\ log[i] # Marker /\ \A j \in DOMAIN log : j > i => log[j] = Marker
<1>1. /\ DOMAIN log = 1..Len(log) /\ Len(log) \in Nat /\ acked \in Nat
      /\ \A i \in 1..Len(log) : log[i] \in Nat
  BY DEF DbType
<1>2. CASE acked = 0
  <2>1. \A i \in DOMAIN log : log[i] = Marker
    BY <1>1, <1>2 DEF LogOK, Marker
  <2>2. QED
    BY <1>2, <2>1 DEF SourceRow
<1>3. CASE acked # 0
  <2>1. PICK k \in 1..Len(log) :
               log[k] = acked /\ \A j \in 1..Len(log) : j > k => log[j] = Marker
    BY <1>3 DEF Home
  <2>2. L(k)
    BY <1>1, <1>3, <2>1 DEF Marker
  <2>3. ASSUME NEW i, L(i) PROVE i = k
    BY <1>1, <1>3, <2>1, <2>3 DEF Marker
  <2>4. QED
    BY <1>1, <1>3, <2>1, <2>2, <2>3 DEF SourceRow
<1>4. QED
  BY <1>2, <1>3

-----------------------------------------------------------------------------
(* CdcTypeOK: every variable keeps its type.                                           *)
THEOREM CdcTypesKept == CdcSpec => []CdcTypeOK
<1>1. CInv => CdcTypeOK
  BY DEF CInv, TypeInv
<1>2. QED
  BY <1>1, CInvInvariance, PTL

(* WriterHasEverything: the database that is open to the application has every commit  *)
(* ever made, through the promotion, a recovery and the way back, however often the    *)
(* connectors' tasks are restarted and wherever the controllers die.                   *)
THEOREM WriterIsComplete == CdcSpec => []WriterHasEverything
<1>1. ASSUME CInv PROVE WriterHasEverything
  <2>1. DbType /\ LogOK /\ Owned /\ Handed /\ Sequence /\ SourceShut
    BY <1>1, TypeParts DEF CInv
  <2>2. ASSUME src = "open", route = "source" PROVE SourceRow = acked
    BY <2>1, <2>2, LastCommit DEF Owned
  <2>3. ASSUME tgt = "open" PROVE \A s \in Connectors : rows[s] = acked
    BY <2>1, <2>3 DEF Handed, Sequence, SourceShut
  <2>4. QED
    BY <2>2, <2>3 DEF WriterHasEverything
<1>2. QED
  BY <1>1, CInvInvariance, PTL

(* RequestsExactlyOnce: each request of the queue takes effect once, in one of the two *)
(* databases, for any number of requests.                                              *)
THEOREM RequestsTakeEffectOnce == CdcSpec => []RequestsExactlyOnce
<1>1. CInv => RequestsExactlyOnce
  BY DEF CInv, Requested, Once, RequestsExactlyOnce
<1>2. QED
  BY <1>1, CInvInvariance, PTL

(* FenceSparesRequests: the source is made read-only when nothing is in service.       *)
THEOREM FenceWaits == CdcSpec => FenceSparesRequests
<1>1. ASSUME CInv, [Next]_cdcVars PROVE src = "open" /\ src' = "readonly" => ~active /\ consumer = "none"
  <2>1. SUFFICES ASSUME src = "open", src' = "readonly" PROVE ~active /\ consumer = "none"
    OBVIOUS
  <2>2. CASE SetReadOnly
    BY <1>1, <2>2 DEF CInv, Fenced, SetReadOnly, Ctl
  <2>3. CASE ~SetReadOnly
    <3> USE <2>1, <2>3 DEF dbVars, streamVars, appVars, saved, proofVars, ctlVars, elsewhere, beside,
            kcKeeps, outside, orchKeeps, Ctl, End, Save, Orch
    <3>1. ~Application
      BY DEF Application, DirectStarts, DirectCommits, DirectEnds, V2Commits, SourceApplies,
         SourceCommitsOffset, ListenerStops, TargetApplies, CommitInSource, CommitInTarget
    <3>2. ~Streams
      BY DEF Streams, Produce, TaskRestarts, Stops, SinkApplies
    <3>3. ~Boundary
      BY DEF Boundary, StopSources, FreezeTails, Caught, PublishProof, PublishFailure
    <3>4. ~Control /\ ~CtlFails /\ ~LateStatement /\ ~TimePasses
      BY DEF Control, NoteFrontier, Ready, NotReady, FenceApp, Drained, DrainFails,
         SetReadOnly, InsertMarker, SetSuperReadOnly, ReceiveProof, NoValidProof, Promise,
         PromoteRefused, OpenTarget, RouteToTarget, SaveSwitched, EnableConsumer, CtlFails,
         LateStatement, TimePasses
    <3>5. ~Orchestrate
      BY DEF Orchestrate, StopAll, Recover, RouteBack, OpenSource, SaveReopened, Park,
         PreserveTarget, DumpTarget, RestoreStarts, RestoreEnds, Resume, OrchFails
    <3>6. ~UNCHANGED cdcVars
      BY DEF cdcVars
    <3>7. QED
      BY <1>1, <3>1, <3>2, <3>3, <3>4, <3>5, <3>6 DEF Next
  <2>4. QED
    BY <2>2, <2>3
<1>2. QED
  BY <1>1, CInvInvariance, PTL DEF CdcSpec, FenceSparesRequests
=============================================================================
