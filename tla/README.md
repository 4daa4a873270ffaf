# Verification of the V1 to V2 cutover

TLA+ models, TLC configurations and TLAPS proofs about the operational tooling
of this repository. The repository is infrastructure: Terraform, Compose files,
proxies, workflows and about two hundred scripts. What has a state machine of
its own, and can lose data when it goes wrong, are the tools that move
authority from one generation of the system to the next: the HTTP request gate
and its controller, the database handoff, the CDC handoff, and the promotion of
releases. They come first here; declarative configuration is not modelled.

## 1. Inventory

Paths are under `src/scripts/` unless they say otherwise.

### Request gate: `request_cutover/gate.py`

- State: `phase` (V1, HOLD, V2, BLOCKED), `token` and `deadline` of the hold,
  `inflight` per generation, `waiters` and `wait_bytes`, one watchdog task per
  hold, and a journal file that exists once V2 is committed.
- Operations: `admit` and `proxy` for each request; `begin`, `commit` and
  `/abort` through the control socket; `expire` (the watchdog); `persist` and
  `restore` (the journal).
- Interactions: clients and both generations by HTTP; the controller through
  the control socket; the file system.
- Hard: every handler is a coroutine that other handlers overtake at each await;
  a hold ends by commit, abort, timer, capacity, disconnection or a broken
  request, whichever is first; the process or the host dies inside the commit.
- Correct when: the counters are exact; capacity is respected; nobody is served
  by the generation that has no authority; authority moves once and stays;
  a timer ends only its own hold; every held request leaves.

### Cutover controller and import: `request_cutover/control.py`, `auth.py`

- State: the controller lock (flock), the hold token it was given, the place in
  `_cutover()`; the import thread with its snapshot and the list of keys; the
  authentication tables of V1 and the inactive Redis prefix.
- Operations: `cutover`, `_cutover` (preflight, begin, drain, import, commit,
  recover), `transfer` (snapshot, replace_inactive, verify).
- Interactions: calls the gate with a two-second timeout, so an answer can be
  lost or a call handled after its caller gave up; reads MySQL, writes Redis.
- Hard: the import is a thread that cannot be cancelled; the gate's counter is
  all the controller knows about writes in V1; controllers follow each other.
- Correct when: what V2 starts from is what V1 left; an acknowledged commit is
  never taken back; controllers do not disturb each other; the lock comes back.

### Database handoff: `staging-db-cutover.py`

- State: the journal `active.json` (phase, promotionPossible, targetOwnGtid,
  finalPosition), and remote: read-only flags and logs of source and target,
  the replication channel, ProxySQL's server states, rule 2050 and default
  hostgroup.
- Operations: `check`, `cutover`, `abort`, `finish`, `drain`, `save`, `route`.
- Interactions: mysql clients to source, target and ProxySQL, each with a
  timeout; the application's transactions pass through ProxySQL meanwhile.
- Hard: every remote statement may fail after it took effect; the process may be
  interrupted or killed between any two; `abort` and `finish` continue from the
  journal alone; transactions drain while the routes change.
- Correct when: the application sees one database; after the promotion intent V1
  stays fenced; nothing unexpected in the target is promoted; the journal tells
  the truth; a command ends.

### Rehearsal reset: `staging-rehearsal-reset.py`

- State: its checkpoint `state.json` and the mirror `active.json` that keeps other
  resets out, the handoff's journal, the manifest of the preserved target; and
  remote: flags and data of both databases, the replica, the route.
- Operations: `pause`, `snapshot-target`, `restore-source`,
  `allow-target-initialize`, `verify-target`, `resume-source`, and a document that
  rebuilds the replica.
- Hard: the source is writable during the import and is fenced again only by a
  finally block; the handoff's journal is archived in the middle; a command reads
  its checkpoint before it takes the lock.
- Correct when: V1 is only ever served from a database that has every commit, and
  `completed` means that the reset is complete.

### CDC handoff: `b-integration386-handoff.py`, `b-integration383-cutover.py`, `b-integration376-control.py`, `-app.py`, `-reset.py`, `-run.py`

- State: the phase and intent of the run, the fence of the source, the marker in
  its log, the connectors' topics and committed offsets, the proof passed through
  Kafka, the consumer group of the trip requests, the promoted target.
- Hard: a proof accepted near the deadline; offsets compared with a frontier read
  earlier; consumers that change hands; promotion statements still queued at the
  server; recovery of a run that has not promoted, way back of one that has.
- Correct when: whoever takes the application's writes has all earlier ones, and
  every request takes effect once.

### CDC authentication projection: `cdc_auth368.py`, `b-integration376-auth.py`, `run-cdc-auth368.py`, `audit-cdc-auth368.py`

- State: per origin (source, target) a topic of changes with one partition and the
  committed offset of a consumer; the tables of the target; a namespace in Redis
  with sessions, refresh tokens, CSRF tokens and an index per user, all with
  expiries; the boundary file of the handoff.
- Operations: `mirror` into the target, `apply_change` (one MULTI), the script that
  settles an index, the commit of the offset; `auth_boundary`; the audit.
- Interactions: the source's consumer writes to the target, whose own log feeds the
  other consumer; both write to one namespace.
- Hard: delivery at least once on every leg, a crash between any two stores, changes
  that come back after newer ones, keys that expire between two commands, the
  change of hands without a lock.
- Correct when: at lag 0 Redis is what the application's tables say, and until the
  handoff the target is what the source says; a session always has its token.

### Release promotion: `deploy-v2-production-release.py`, `deploy-v2-production-ai-runner.py`

- State: three ECS services, the Compose override and container of the AI runner
  on a shared host, the parameters `active` (the journal), `last-success`,
  `previous-success`.
- Operations: promote a release, roll back, recover in reverse order.
- Hard: SSM commands of unknown outcome that act long after the run that sent
  them, rollouts ECS rolls back by itself, three parameters written one by one.
- Correct when: a journal that lets the next run in stands over a whole release;
  no recovery competes with a running command. The staging release
  (`deploy-v2-staging-release.py`) has the same shape over five services.

### RunPod URL update: `update-v2-runpod.py`, `ai_runner_runtime.py`

- State: a versioned SSM parameter, an ECS revision and the endpoint its tasks
  read at start, the runner's environment file, its backup and its container.
- Hard: three stores changed in turn, version check before (not with) the write,
  commands that outlive the update that sent them, tasks replaced at any time.
- Correct when: what an update reports as settled is what API and runner use.

### V1 host release: `run-cloud-deployment.sh`, `deploy-release.sh`, `rollback-release.sh`

- State: on each of two hosts the containers and the records `current` and
  `previous` in `/opt/yeodam/state`, nginx on the app's host; the workflow's job.
- Hard: the app is deployed before the worker, so a failure of the worker takes
  two hosts back; the job waits 900 seconds for a script, nothing waits after that
  and nothing locks the hosts; the records are written by three renames.
- Correct when: what the job reports as deployed, or as put back, is what the
  hosts run and record.

### Worker idle shutdown: `configure-worker-idle-shutdown.sh`, `worker-idle-shutdown.sh`

- State: a systemd timer and service on the worker's host, and its power.
- Hard: the timer's two checks and the power off are apart in time; a deployment
  pauses the timer, a boot or the deployment's own script arms it again.

### Others

CDC connector installation, cutover preparation and audit, AI runner
installation, V3 validators, batch measurement, alarm forwarder, Terraform,
Compose and nginx files. They run once from top to bottom, are
stateless, or keep their state in systems outside the repository;
`PROJECT.json` lists each with the reason it is left out.

## 2. Modules

| Module | Role | Code |
| --- | --- | --- |
| `AuthorityHandover` | abstract: authority moves once from V1 to V2, a request is served by the owner of its time | promise of `gate.py` |
| `RequestGate` | the gate, with any client on its control socket | `gate.py` |
| `RequestCutover` | the gate composed with controllers, import threads, V1's writes and the control connections | `control.py`, `auth.py` |
| `OneDatabase` | abstract: every transaction sees all that committed before it; the home of the data moves once | promise of `staging-db-cutover.py` |
| `DbHandoff` | controller, ProxySQL, both databases, replication, transactions | `staging-db-cutover.py` |
| `DbHandoffProofs` | theorems about `DbHandoff` | |
| `ReleasePromotion` | runs of the promotion, ECS, the runner's host with commands that outlive their run | `deploy-v2-production-release.py`, `deploy-v2-production-ai-runner.py` |
| `RunnerSettings` | updates of the endpoint, parameter, tasks, the runner's host | `update-v2-runpod.py`, `ai_runner_runtime.py` |
| `CdcHandoff` | both controllers of one run, the orchestrator, connectors, consumers, both databases | `b-integration376*`, `383`, `386` |
| `RehearsalReset` | commands of a reset, two checkpoints, both databases | `staging-rehearsal-reset.py` |
| `AuthProjection` | two consumers, connectors, both databases, Redis with expiry, the handoff between the consumers | `cdc_auth368.py`, `b-integration376-auth.py`, `-control.py`, `audit-cdc-auth368.py` |
| `HostDeployment` | the job, the script on each host, the worker's power | `run-cloud-deployment.sh`, `deploy-release.sh`, `rollback-release.sh`, `*idle-shutdown.sh` |
| `ReleasePromotionProofs`, `RunnerSettingsProofs`, `CdcHandoffProofs`, `RehearsalResetProofs`, `HostDeploymentProofs`, `AuthProjectionProofs` | theorems about these modules | |
| `RequestCutoverProofs` | theorems about `RequestGate` and `RequestCutover` | |
| `MC...` | instances for TLC | |

Definitions whose comment starts with "Faulty" are not part of any
specification. Each is a plausible bug in the definition that follows it, kept to
show that a property notices it (`mutants` in `PROJECT.json`).

### RequestGate

One action is one critical section: all of the gate's state is accessed while
its condition variable is held, and whatever happens between two awaits is
atomic in asyncio. `pc[r]` is the await the handler of request `r` is suspended
in.

| Code | Actions |
| --- | --- |
| `admit`, outside a hold | `ArriveOpen`, `ArriveBlocked` |
| `admit`, under a hold | `ArriveHeld`, `ArriveAborting` (capacity, multipart, unknown size) |
| `admit`, waking up | `WakeForward`, `WakeBlocked`, `WakeDisconnected`, `CancelWaiting` |
| `proxy` | `Complete`, `Break`, and `Finish` for its finally block |
| `begin`, `expire` | `Begin`, `DeadlinePasses`, `Expire` |
| `commit`, `persist` | `CommitDurably`, `CommitUncertain`, `CrashInCommit` |
| `/abort` | `AdminAbort` |
| death, `restore` | `Crash`, `PowerLoss`, `Writeback`, `Restart` |

`journal` is the file as a process sees it, `disk` what a power loss leaves; the
two differ between the rename and the sync of the directory. Tokens are the
numbers of the holds, in the order they begin. Headers, metrics, events and the
staging-preparation profile are left out.

### RequestCutover

Extends the gate. `calls` is the set of control requests on their way; a caller
that timed out leaves its request there, and the gate may still handle it. A row
of the authentication tables is identified with the request that inserts
(`Creators`) or deletes it (`Deleters`), so that a lost write and a resurrected
session are both visible as a difference between `sql` and `redis`. V1 may go on
executing a request after the gate has given up on it (`V1Receive`,
`V1Answer`). Deletion of the listed keys is one step; expiry is left out, since
an expired entry is absent from both sides of `verify`.

### DbHandoff

`pc` names the next remote statement or save. `Then` is the order of the steps
of all three commands, `Handler` the step an exception leads to. Every step
(`Do`) may be followed by its successor or, its answer lost, by the handler;
`Interrupted` raises without effect, `Refused` is a `require` that does not
hold, `PastDeadline` the deadline in `Database.query`, `Kill` a SIGKILL. An
UPDATE in ProxySQL's memory and the LOAD that makes it effective are one step.
The read-only flags are `open`, `ro` (between the two statements that lift the
fence) or `fenced`. ProxySQL counts open transactions, the source all that run
(`Autocommit` ones are seen only there), and `drain` reads the two one after
the other.

Assumptions: the servers and ProxySQL do not restart during a handoff; a
statement whose client was killed has taken effect or is gone when the next
command starts; commits in the source come through ProxySQL.

### ReleasePromotion

`pc[r]` is the call run `r` makes next; `Advance(r)` is the disjunction of its
steps. A call that raises after it took effect is the step with the effect
followed by `RaiseForward` (outcome known), `UnknownForward` (a command may still
act: `promote` then records `recovery_required` and touches nothing) or `Die`.

| Code | Actions |
| --- | --- |
| `main`, journal check | `Start`, `StartRollback`, `Check`, `Refuse` |
| `snapshot`, `runner` inspect | `Snapshot`, `InspectRunner`, `OpenJournal` |
| loop over the services | `PickNext`, `UpdateService`, `RolledOut`, `SendCommand`, `RunnerDeployed` |
| final verification | `PickNone`, `AttestServices`, `AttestRunner` |
| the except branches | `RaiseForward`, `PickRestore`, `RestoreError`, `VerifyRestored`, `VerifyRunner` |
| the three parameters | `CloseJournal`, `SavePrevious`, `SaveLast`, `Finish` |
| ECS, the host | `RolloutCompletes`, `BreakerRollsBack`, `HostStart` to `HostDrops` |

Images stand for task definitions too. `Exclusive` is the concurrency group of the
workflow: one run at a time. Without it the journal, read and written without a
lock, does not keep two runs apart, and the properties fail.

### RunnerSettings

`param` carries the version the code checks; `fresh` is the endpoint a task that
starts now would read, `apiUrl` that of the tasks that serve, so that a task ECS
replaces during an update (`TaskReplaced`) is seen. The host's four actions
(inspect, sync, restore, finalize) go step by step through the file, the backup
under `/run` and the container (`HostInspects` to `HostFinalizes`), and a command
of an earlier update may still be among them. `ForeignPut` is somebody else
writing the parameter. `Unknown` is RunnerStateUnknown. A signal raises out of
whatever call is under way, which is a failure of that call like any other, except
out of the sleep between two polls of sync-vlm: `Interrupted`, remembered in
`signalled`, goes on to recover beside the command it no longer waits for. What a
healthy or restored update has reported is kept in `settled`.

### CdcHandoff

Three programs: `ctl` on the source's host (`Ready`, `FenceApp`, `Drained`,
`SetReadOnly`, `InsertMarker`, `SetSuperReadOnly`, `ReceiveProof`, `PromoteChecks`
to `EnableConsumer`), `kc` on the Kafka host (`Validating`, `StopSources`,
`FreezeTails`, `Caught`, `PublishProof`), and `orch`, which recovers an unpromoted
run (`Recover`, `RouteBack`, `OpenSource`) or carries a promoted one back (`Park`
to `Resume`). `log` is the source's binary log, a row of the target the number of
the commit that wrote it last, `pos`, `topic` and `done` the streams between.
`LateStatement` executes a promotion statement whose client has given up.

Assumed: one run; synchronized clocks of the two hosts (the scripts compare their
times); no superuser writes between read_only and super_read_only; a read-only
statement that is late only fences more and is left out. The clock is put at its
end when `ctl` ends, so that what follows does not multiply by it. `StopAll` waits
for `kc`, as the 900 s load does in the code.

### RehearsalReset

A command is `cur` while it holds the lock; `next` is one that read its checkpoint
already and has not asked for the lock, so its checkpoint may be stale. Each effect
is a step, `Fail` raises (`RefenceSource` is the import's finally block), `Die` kills. `save()` is
two writes: `disk` first, `mirror` after. Data are sets of commits. The document
that rebuilds the replica is one step, V1 being stopped and the target parked
meanwhile. `OperatorFences` is the fence "keep both DBs fenced" asks of the operator
after a killed import.

### HostDeployment

`ctl` is the job, `script[h]` the script it waits for on host `h`, and
`script["late"]` one that nobody waits for any more (it timed out, or the job was
cancelled). The script on a host is the same from `Begin` to `Finish` for a
deployment and for both kinds of rollback; what differs is its `Target`. The
records are `current`, `previous` and `temp` (`previous.tmp`), each renamed by a
step of its own, and a kill can come between any two. `clean` is a history
variable: no script outlived its wait or died while recording. `TimerFires`,
`PowersOff`, `BackendStarts` and `ArmTimer` are the idle shutdown; whether there
are jobs is left open, so the timer fires whenever ten idle minutes can have
passed.

Assumed: the workflow's concurrency group lets in one job; a new job starts when no
late script is left; one late script at a time; a power off takes less time than a
script.

### AuthProjection

| Code | Actions |
| --- | --- |
| consumer loop of `b-integration376-auth.py` | `Skip` (the target's, up to the boundary), `Mirror`, `Take`, `Commit`, `Crash` |
| `apply_change` | `Execute` (its MULTI, by `ForgetSession`, `StoreSession` and `ApplyToken`), `Settle` (the script, one user at a time) |
| `promote`, as far as it matters here | `FenceSource`, `StopConnector`, `WriteBoundary`, `OpenTarget` |
| connectors | `Produce`, `TaskRestarts` |
| audit | `Expected`, `Entries` |

`redis` is a function from keys to a value and an expiry; `TimePasses` deletes what
has expired, between any two commands. `log[o]` is the binary log of the two tables,
`topic[o]` positions in it, so that a restarted connector delivers a stretch of the
log once more. The target's log contains the mirrored changes as well, unless they
changed nothing. The time a consumer reads before a transaction (`now`) is used
after the clock has moved on. `CdcHandoff` proves that a promotion is preceded by
what `StopConnector` and `WriteBoundary` require.

Assumed: the tables and the namespace start empty (the initial snapshot is a stretch
of log that was read in one go); primary keys, sids and hashes are not used twice;
the mirror meets no unique key but the primary one; a consumer that died is started
again by hand (its unit has no restart); a command whose client is dead is not
executed later. An expiry is the instant its wall-clock time stands for.

## 3. Runs

| Run | Question | Bounds |
| --- | --- | --- |
| `gate` | any client of the control socket, four requests, crashes | 2 holds; bodies of 1, 1 and 2 units and one request no hold can keep; room for 2 requests and 2 units |
| `cutover` | two controllers, the gate, V1, power loss | 2 holds, one creating and one deleting request, room for one |
| `cutover_live` | does everything end | 1 controller that may be interrupted, 1 hold |
| `handoff` | three commands of the operator with all failures | 2 transactions, one of them autocommit, one foreign write |
| `promotion` | promotions and rollbacks, all failures, commands that outlive their run | 2 runs, 4 releases of 3 services with 2 images each |
| `runpod` | updates of the endpoint | 2 updates, 2 endpoints, 1 foreign write |
| `cdc` | one handoff over CDC, recovery or way back | 2 commits, 1 request, 1 restart of a connector |
| `reset` | commands of a reset in any order, repeated, killed | 3 commits |
| `host_release` | deployments of V1 with recovery and idle shutdown | 2 deployments, 2 releases, a late script after the first |
| `auth` | both consumers of the authentication changes across the handoff | 2 writes, 2 users, 1 browser context, 1 tick of the clock, 1 restart of a connector |
| `late_import`, `durable_commit` | statements of the code that do not hold, see below | smallest instance that shows it |

Why these bounds: two holds are needed for a watchdog, an abort, a commit or an
import of the first to meet the second, and a third adds no new pair. The
requests of the `gate` run can exceed the byte limit together, fill the waiters,
survive an aborted hold as waiters, and abort a hold by themselves. Each request
arrives once and each controller runs once; a retry is another request. In the
`handoff` run three commands allow a failed cutover followed by a complete one
and a killed cutover followed by `abort` or `finish` and another command; with two
transactions one can commit in V1 and the other in V2. The `handoff` run also checks that each of its commands ends.

`promotion`: two runs are what it takes for a command, a rollout or a parameter of
the first to meet the second; release "c" changes one service, so a mixed state is
seen, and "d" has the images of "a", so a rollback must not confuse a release with
its images. `runpod`: a command of the first update meets the second, and the
foreign write falls anywhere between. `cdc`: one commit before and one after the
watermark, or one in each database; a second request would wait behind the first
in its partition. `reset`: one commit before the reset, one during, one after; the
number of commands, failures and kills is not bounded. `host_release`: a second
deployment starts from whatever records the first left, late scripts included.
`auth`: a write and a later one that undoes, changes or accompanies it, in one origin
or one in each; crashes are not bounded. Three writes of one user's sessions (6.3
million states) were checked as well.

Deadlock is not checked: all requests may have been served, all runs be over, or
the operator have no command left, which is where these systems stop.

### What the passing runs show

- `CountersMatch`, `BytesMatch`, `WithinLimits`: counters and reservations are
  those of the requests they count, and stay in their limits.
- `AuthorityFence`, `SingleHandover`: phase, journal and the requests being
  served agree, and the gate implements `AuthorityHandover`.
- `TimerEndsOnlyItsHold`, `AbortOnlyOwnHold`: a timer or a late abort of one
  hold does not end another.
- `LostWritesPrecedeHold`: when V2 is committed, its copy differs from V1's
  tables only by requests the gate had given up on before that hold began.
- `ImportOverAtCommit`: without an interrupt of the awaiting coroutine, no import
  still runs when V2 is committed.
- `AckedForever`: a commit the controller saw acknowledged survives crashes and
  power loss.
- `LockReleased`, `HoldEnds`, `HeldLeave`: locks, holds and waiters end.
- `OneHistory`: `DbHandoff` implements `OneDatabase`: V2 commits nothing before
  it holds all that V1 committed, and V1 nothing once the target was opened.
- `ForwardOnly`, `JournalTellsWriter`: the intent on disk closes the way back;
  `aborted` and `switched` in the journal can be relied on.
- `PromotedUntouched`: a write of a foreign client since the preflight is never
  promoted. `FenceSparesTransactions`: the fence of V1 cuts no transaction short.
- `CommandEnds`: the controller ends although `drain` has no timeout of its own.
- `AcceptingMeansWhole`: a promotion may fail, recover or die anywhere; as long as
  the journal lets the next run in, services and runner have the images of
  last-success and nothing can still change them. `NoCompetingMutation`: nothing
  is changed while a command of unknown outcome may act. `RollbackGoesOneBack`:
  two parameters written one after the other still name the release before.
  `UnfinishedJournalBlocks`: whatever a killed run left, the next one changes
  production only under its own journal; runs come one at a time here, so nothing
  is said of two that overlap. `EveryRunEnds`.
- `SettledAgrees`: parameter, tasks, file and container follow what the last
  update that settled reported, until the parameter is written again.
  `NoCompetingRestore`: nothing is taken back while the update's own sync may
  act, unless a signal ended the wait for it. The other three properties hold
  with signals too. `MismatchHasBackup`: a half-made change can be undone. `UpdateEnds`.
- `WriterHasEverything`: neither promotion, recovery nor the way back leaves a
  commit behind. `RequestsExactlyOnce`: the consumers change hands without a
  request lost or repeated. `FenceSparesRequests`, `ControllersEnd`.
- `ServedDataComplete`, `CompletedMeansReset`: through imports that are killed and
  checkpoints that are stale, V1 is served from complete data, and `completed` is
  true.
- `Projected`: at lag 0 Redis holds the live rows of the database the application
  writes to, with their expiries, and nothing else; no order of mirrored, repeated or
  late changes across the handoff loses or revives a session. `TargetMirrors`: at lag
  0 the target is the source. `SessionHasToken`: no crash and no repetition leaves a
  session without its refresh token.
- `RecoveryRestores`: a recovery the hosts reported as done put back what they ran
  before, whichever step failed. `SuccessIsWhole`: a success has both hosts on the
  commit and the app's way back recorded. Both speak of deployments no script of
  which outlived its wait or died while it wrote its records (`clean`).

### Fairness

`cutover_live` and the gate assume what an event loop gives: a deadline passes,
the task sleeping for it wakes up (`asyncio.sleep`), and a held request polls
the phase every 50 ms. A control call ends within two seconds, with an answer or
an exception; the controller polls every 20 ms; the import's queries and
commands have timeouts. Nothing is assumed of V1, which may never answer, nor
of the operator. `handoff` assumes only that the controller goes on (each
of its calls has a timeout) and that its deadline passes; transactions may stay
open for ever and replication may stand still. `promotion` and `runpod` assume that
a run that is not killed goes on, since every poll is a bounded loop; nothing of
ECS or of the hosts. `cdc` assumes the two controllers and time go on; nothing of
the application, the connectors or Kafka's sinks. `reset`, `host_release` and `auth`
check safety only (nothing starts a dead consumer of `auth` again).

### Findings

1. `late_import`: the lock is meant to serialize import threads
   (`control.py:135`), but an interrupt of the coroutine releases it while the
   thread runs on, and another controller can commit meanwhile.
2. `durable_commit`: `gate.py:60` says the commit is durable before any V2
   dispatch. A gate that dies between the rename and the sync of the directory
   restarts from the renamed file and dispatches to V2 without the sync.

### Observations

Behaviour met while modelling that is no finding: it contradicts no line that is
checked above, or it is outside the bounds of a property, which says so.

- `control.py:120`: the snapshot is taken when the gate's own counter is 0, but
  `auth.py:85` asks that all writers be fenced. A request that broke, or was lost
  with the gate, before the hold is no longer counted while V1 may still execute it;
  its write can follow the snapshot. `MCStray.cfg` (`FinalSnapshot`) gives the trace;
  what does hold is `LostWritesPrecedeHold`.
- `cdc_auth368.py:140`: "The index expires with its latest active member". ZADD leaves
  the expiry of an existing index alone until the script runs. If the old expiry
  falls in between, the key is deleted with the new session in it, the script finds
  nothing, and the session stays out of the index for good. `MCAuthIndex.cfg`
  (`IndexExpiresWithLatest`) gives the trace. No checked property notices it:
  `Projected` asks of an index only that it names no session that has ended.
- `audit-cdc-auth368.py:97`: a member of an index whose session has expired stays in
  the sorted set until the next change of that user, and counts as a mismatch
  although nothing is wrong; `Projected` compares the unexpired members only.
- `b-integration376-control.py:49`: the boundary is written in place. The target's
  consumer may find the file before its content, and then dies; it is not started
  again by itself.
- `update-v2-runpod.py:300`: the handler of SIGTERM raises a plain RuntimeError,
  also out of the sleep between two polls of sync-vlm. `except Exception` takes it
  for a failure of known outcome and restores while the command may still run,
  which the docstring at line 29 rules out. `NeverCompetes` says what the docstring
  says, and `MCRunnerInterrupt.cfg` gives the trace; `NoCompetingRestore` is what
  holds. The runner's lock and its checks of version and backup still keep what is
  reported true (`SettledAgrees`).
- `deploy/release-deployment.md:83` says that the deployment prevents the idle
  shutdown and an SSM command from running together. A timer that fires just
  before the pause has its power off under way (`run-cloud-deployment.sh:130`);
  the worker is then booted again by the second readiness check (line 255), with
  its timer armed, and the worker's own script arms it as well
  (`configure-worker-idle-shutdown.sh:110`). `MCIdleShutdown.cfg`
  (`IdleSparesDeployment`) gives the trace.
- `run-cloud-deployment.sh:273`: a job for the commit the app already runs, whose
  worker fails, rolls the app back one release too far: `previous` is not rewritten
  by a redeployment. `RecoveryRestores` exempts it by name.
- `deploy-release.sh:176-183`: a kill between the renames of `current` and
  `previous` leaves `previous.tmp`, which a later deployment installs; hence
  `clean`.
- `run-cloud-deployment.sh:47`: after 900 s a script that still runs counts as
  failed and its recovery starts beside it; no lock on the host keeps them apart.
  Likewise a pause that fails half-way leaves the timer stopped.
- `staging-rehearsal-reset.py`: `--stop-replica-before-resume` stops the replica
  before `resume_intent` is saved, so a repeated `resume-source` is refused for
  ever. A crash between the writes of `state.json` and `active.json` leaves the
  mirror stale, and a completed resume returns early without repairing it. The
  import runs with sql_log_bin=0, so `gtid_executed` does not protect a later
  restore: only the check that the source is fenced does.

## 4. Proofs

`RequestCutoverProofs` proves of the gate, for any finite set of requests, any sizes,
limits and number of holds (`GateAssumption`):

| Theorem | Statement |
| --- | --- |
| `TypeCorrect` | `HostSpec => []TypeOK` |
| `CountersCorrect` | `HostSpec => []CountersMatch` |
| `FenceCorrect` | `HostSpec => []AuthorityFence` |
| `LimitsHold` | `HostSpec => []WithinLimits` |
| `BodiesCounted` | `HostSpec => []BytesMatch` |
| `TimerCorrect` | `Spec => TimerEndsOnlyItsHold` |
| `HandoverRefined` | `Spec => SingleHandover` |

The inductive invariant is

    GateInv == TypeOK /\ NotAdmitted /\ CountersMatch /\ AuthorityFence

None of its parts is inductive alone. `AuthorityFence` needs `CountersMatch`: a
commit tests `inflight["V1"] = 0`, and only because the counter is the number of
requests served by V1 does that mean that there are none. `CountersMatch` needs
`NotAdmitted`, or a request that is dispatched might already be counted. The
steps go action by action, with the facts about cardinalities as lemmas.
`HandoverRefined` is stated for a host that keeps its power: after a power loss
an unsynced journal takes authority back, which is finding `durable_commit`.

`BytesMatch` compares a counter with a sum over a set, which is a fold, defined by
recursion over the set. The library's induction theorems cannot be used here (they
take an operator), so what the proof needs is derived from well-founded relations: every
nonempty collection of subsets of a finite set has a minimal member (`LeastSet`). A
function that folds all subsets up to a cardinality exists, since one up to `m - 1`
gives one up to `m` (`FoldExists`); two of them would first differ at a minimal subset
(`FoldUnique`); and by the same argument any element may be taken first, not only the
one that is chosen (`BodiesDef`). So adding one element adds one term (`BodiesAdd`,
`BodiesDrop`), and a step of the gate adds or drops one request at a time.

Of the gate with its controllers it proves, for any requests, controllers and rows and
any number of holds (`CutoverAssumption`, `GateAssumption`):

| Theorem | Statement |
| --- | --- |
| `CutoverTypesKept` | `CutoverHostSpec => []CutoverTypeOK` |
| `GateImplemented` | `CutoverHostSpec => HostSpec` and `CutoverSpec => Spec` |
| `CutoverHandsOver` | `CutoverSpec => SingleHandover` |
| `LateAbortHarmless` | `CutoverHostSpec => AbortOnlyOwnHold` |
| `AckedIsForever` | `CutoverHostSpec => []AckedForever` |
| `NoLateImport` | `CutoverHostSpec => []ImportOverAtCommit`, if `~Interruptible` |
| `CopyIsComplete` | `CutoverHostSpec => []LostWritesPrecedeHold`, if `~Interruptible` |

The steps of the gate inside the cutover are steps of `RequestGate`'s `HostNext`
(`GateImplemented`), so its invariant and its theorems are used as they are, the
refinement of the handover too (`CutoverHandsOver`). `GateFacts` adds that the hold in
force is the newest. `LockFacts` says that who has the lock has the newest hold of all
controllers, and that a request that is still under way concerns its sender's own
hold. `Imports` says that an import runs only while its controller waits for it: the
one place that needs `~Interruptible`, as finding `late_import` shows. `EndFacts`
follows the requests of V1: whatever is served no more was answered or is in `loose`,
with a hold older than the one in force. `CopyFacts` adds that under the hold of an
import V1 is drained, that what snapshot, copy and tables differ in is in `loose`,
and that the commit carries this over.

`DbHandoffProofs` proves, for any finite set of transactions and any number of
commands (`HandoffAssumption`):

| Theorem | Statement |
| --- | --- |
| `HandoffTypeCorrect` | `HandoffSpec => []HandoffTypeOK` |
| `NoWayBack` | `HandoffSpec => []ForwardOnly` |
| `FenceCutsNothing` | `HandoffSpec => FenceSparesTransactions` |
| `NothingForeignPromoted` | `HandoffSpec => PromotedUntouched` |
| `JournalIsTrue` | `HandoffSpec => []JournalTellsWriter` |
| `HistoryRefined` | `HandoffSpec => OneHistory` |

`ForwardOnly` speaks of the journal and the fences alone and is not inductive: a
save of the intent is safe only because the steps before it fenced V1.
`FenceInv` adds, for groups of steps (`Opening`, `V1Fenced`, `V2Fenced`), what is
fenced while control is in them; the lemma `Flow` says that the program enters a
group only through its first step, and that an exception leaves it to a handler
outside the groups. `HandoverInv` is the strengthening of the two action
properties: between the gate and the fence V1's hostgroup gives no connection
(`PoolShut`), and what was verified before the intent still holds when the target
is opened (`Ready`). `JournalInv` adds what `abort` has given back and `cutover` or
`finish` have given away at each of their steps, and that a command which starts from
a final phase disturbs nothing that phase says (`Told`). `HistoryInv`, for the
refinement, adds three facts: from the last comparison of the positions on, the target
has applied all that V1 committed (`CaughtUp`; V1 is fenced there, so neither side can
move); before the intent no transaction reaches V2, and the target commits nothing
(`Unrouted`); a transaction in a history has committed and does nothing more
(`Recorded`). Then a commit in V1 finds no commit of V2, a commit in V2 finds all of
V1's, and the intent with the open target is the one move of the database.

`ReleasePromotionProofs`, for any runs, releases and images (`PromotionAssumption`);
all but the first under `Exclusive`:

| Theorem | Statement |
| --- | --- |
| `TypesKept` | `PromotionSpec => []ReleaseTypeOK` |
| `PromotionIsWhole` | `PromotionSpec => []AcceptingMeansWhole` |
| `MutationsDoNotCompete` | `PromotionSpec => []NoCompetingMutation` |
| `RollbackTarget` | `PromotionSpec => []RollbackGoesOneBack` |
| `JournalBlocks` | `PromotionSpec => []UnfinishedJournalBlocks` |

The invariant says of the one run that is in, place by place, what services and
runner have already got, and ties `active` to it; a run that ended without closing
the journal has left `deploying` or `recovery_required`, so that the next run is
refused. `JournalBlocks` is also what `MutationsDoNotCompete` rests on.

`RunnerSettingsProofs`, for any endpoints, any number of updates and foreign writes:

| Theorem | Statement |
| --- | --- |
| `SettingsTypesKept` | `SettingsSpec => []SettingsTypeOK` |
| `RestoreDoesNotCompete` | `SettingsSpec => []NoCompetingRestore` (unless signalled) |
| `BackupOutlivesMismatch` | `SettingsSpec => []MismatchHasBackup` |
| `ReportsStayTrue` | `SettingsSpec => []SettledAgrees` |

`SettledAgrees` rests on the versions of the parameter, of which each is written
once: what an update writes is newer than what has settled and than what any command
of an earlier update waits for (`Versions`, `CommandVersions`). So no such command
can start while the parameter has that version, and none can be under way, because
the update's own command had the host's lock (`RunnerFollows`); `ApiFollows` says
step by step what the API's tasks have read. A signal leaves one command of the
update's own beside its recovery (`OwnCommands`): at work, it has the host's lock and
the restore is refused; still queued, it is for a version the recovery has replaced. `MismatchHasBackup` needs to know of
every command on the host how far it is, which
of file and container it has changed, and that only one of them is past its start.

`CdcHandoffProofs`, for any number of commits, requests and connector restarts:

| Theorem | Statement |
| --- | --- |
| `CdcTypesKept` | `CdcSpec => []CdcTypeOK` |
| `WriterIsComplete` | `CdcSpec => []WriterHasEverything` |
| `RequestsTakeEffectOnce` | `CdcSpec => []RequestsExactlyOnce` |
| `FenceWaits` | `CdcSpec => FenceSparesRequests` |

The heart of `WriterIsComplete`: from the moment the source is read-only its log
grows by the marker only; a stream that is stopped behind the marker and a sink
that committed the tail noted after that have nothing left to carry; so an accepted
proof means `rows = acked`, and the promotion changes neither. Around it stand what
`phase` and `intent` say of the flags and the route, and when a late statement can
exist.

`RehearsalResetProofs`, for any number of commits:

| Theorem | Statement |
| --- | --- |
| `ResetTypesKept` | the types of all variables |
| `ServedIsComplete` | `ResetSpec => []ServedDataComplete` |
| `CompletedIsTrue` | `ResetSpec => []CompletedMeansReset` |

Every checkpoint, stale ones included, holds the manifest from `restore_intent` on;
until the source is reopened all commits are in the target or in the manifest; once
it is, that is stable, because an import needs a fenced source.

`HostDeploymentProofs`, for any releases and any number of deployments
(`DeploymentAssumption`):

| Theorem | Statement |
| --- | --- |
| `DeployTypesKept` | `DeploySpec => []DeployTypeOK` |
| `RecoveryIsTrue` | `DeploySpec => []RecoveryRestores` |
| `SuccessIsTrue` | `DeploySpec => []SuccessIsWhole` |

`HostInv` adds that only what was sent is waited for (`Waiting`), that a script on a
host is that command's (`Owned`), and, for a run that is `clean`, step by step what
a script has done to its host (`OnHost`), what the job may rely on at each of its
steps (`Stages`) and what its results mean (`Outcomes`).

`AuthProjectionProofs`, for any users and browser contexts and any number of writes,
ticks and restarts (`AuthAssumption`):

| Theorem | Statement |
| --- | --- |
| `AuthTypesKept` | `AuthSpec => []AuthTypeOK` |
| `SessionsHaveTokens` | `AuthSpec => []SessionHasToken` |
| `TargetIsMirror` | `AuthSpec => []TargetMirrors` |
| `NamespaceProjected` | `AuthSpec => []Projected` |

`SessionsHaveTokens` follows the keys through one transaction (`Sound`): removing the
old token leaves at most the changed session without one (`SoundBut`), and whatever
follows in the transaction removes that session or puts it with a token. It rests on
a hash being made for one session, so no other session loses its token; indexes and
CSRF tokens are other keys (`SessionsKept`), and session and token expire together.

`TargetIsMirror` has to allow for old changes delivered again, which take rows of the
target back. `TargetBehind` says how far: each row is as the source's log left it
after some number of changes, never fewer than the change applied last (`Applied`).
Applying the next entry of the topic keeps that, because the topic never skips a
change, wherever it begins again (`NoGap`): a row the entry does not touch is the same
before and after it. At lag 0 the last entry is the end of the log, where the
source's table is.

`NamespaceProjected` is the same argument for every key a row may have in Redis, and it
has four parts more (`ProjInv`).

- `RedisBehind`: every key, and every member of an index, is as some number of changes
  of the log left it (`KeysBehind`, `MembersBehind`), and that number is at least
  `From`. `ApplyKeys` says what a change does to a key: the keys of the new row are put
  or, if it has ended, removed, the keys that only the old row had are removed, all
  others are kept. So the next change brings its own keys to it, and a key it does not
  name is the same before and after it (`ApplyBehind`). Of the members of an index only
  the unexpired ones are followed, in one direction: the settling script removes
  members, and an index may expire before its members do.
- `Histories`: a logged change names the row it replaces (`Chained`). A consumer trusts
  `before` to find the keys to remove.
- `Distinct`: no context has two tokens, so no key belongs to two rows. Sessions have
  keys of their own, by ids and by hashes made for one id.
- `Handed` and `Floor`: `From` falls back when a connector produces again what was
  produced before, and Redis with it. After the handover the target's log also holds
  the mirrored changes, and its consumer must not apply them again. It cannot: the
  boundary was noted when the source's consumer had nothing left, so both logs end in
  the same rows there (`SameEnds`), and what the consumer takes lies behind it. `OpenTarget`
  exchanges one log for the other (`OpenBehind`), and `From` never falls below the
  boundary again.

At lag 0 `From` is the end of the log (`ReachedEnd`), where the table is, and so every
key and every member is as the table has it.

Model-checked only: liveness (`LockReleased`, `HoldEnds`, `HeldLeave`, `CommandEnds`,
`EveryRunEnds`, `UpdateEnds`, `ControllersEnd`), which is out of the prover's reach. Every
other property of a passing run is a theorem. Type invariants other than `TypeOK` are
proved and not checked by a run.

## 5. Plan

Done: `RequestGate`, `RequestCutover`, `DbHandoff`, `ReleasePromotion`,
`RunnerSettings`, `CdcHandoff`, `RehearsalReset`, `HostDeployment`, `AuthProjection`, and
the proofs above. Left: the staging release as a second instance of `ReleasePromotion`.

## 6. Not modelled

Most of the repository has no behaviour over time to check. Terraform, Compose,
nginx and ProxySQL files are declarative. `v3-*`, the audits, `ci-baseline.py` and
most validators read, compare and report. `b-integration*` scripts outside the
handoff, the connector installation, the migration seeds, the batch measurement and
the runner's installation are straight lines of commands that stop at the first
failure and are started again by hand. The alarm forwarder is stateless. Their
correctness is about data formats and about the systems they call, and a model
would repeat their text. For the same reason the modelled components leave out
argument checks, identities, rendering of settings, and transfers of files.

Not planned: restarts of MySQL and ProxySQL during a handoff, the HTTP and socket
libraries.
