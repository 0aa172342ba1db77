# WiFi Test Orchestrator: TLA+ verification project

The repository is a control plane for Wi-Fi tests. A **desktop agent** (Linux or
Windows service, Python asyncio, one SQLite file, one secret store) talks over
HTTPS to a **backend** (FastAPI, SQLAlchemy on PostgreSQL, Redis). The agent
enrols, rotates its credential, publishes a capability manifest, sends
heartbeats, receives tasks, runs them through plugins and reports results. The
documents under `src/docs/` (in Spanish) state the contracts; the model is taken
from the code and compared with them.

Short names: `A` is `src/agents/desktop/src/wto_desktop_agent`, `B` is
`src/backend/src/wto_backend`. The definition-to-line map, the hazards and the
findings are in `PROJECT.json`.

## 1. Inventory

| Component | State it keeps | Operations | What makes it correct |
|---|---|---|---|
| Task pipeline (`A/application/task_runner.py`, `scheduler.py`, `domain/states.py`) | tables `inbox_tasks`, `idempotency_effects`, `task_attempts`; coroutines, cancellation tokens | ingest, claim, invoke, cancel, clean up, finish, shut down, recover | an effect runs at most once per idempotency key over any crashes; a result agrees with what happened; nothing stays queued or claimed for ever |
| Outboxes (`A/application/scheduler.py`, `infrastructure/sqlite/store.py`) | `outbox_progress`, `outbox_results`, `pending_uploads` | enqueue, publish, confirm | at-least-once delivery, progress before result, no starvation |
| Durable store (`store.py`, `versions/*.sql`) | the SQLite file, its backups, its schema version | every transaction above; migrate, back up, restore | committed rows survive every start, backup and restore; an old schema is migrated only behind a backup of its rows |
| Runtime loop (`A/application/runtime.py`) | which step of start / cycle / shutdown | start, cycle, run, shutdown | every restart resumes what was interrupted |
| Identity (`A/application/identity.py`) | `agent_identity` row; secrets by reference | enroll, rotate, finalize, mark_revoked, purge | never locked out by a crash; never a stray secret after revocation |
| Manifest and heartbeat (`A/application/capabilities.py`, `heartbeat.py`) | `runtime_state`, `capability_manifests` | ensure_published, publish, send | resent payloads never break the sequence protocol; what is published converges to the platform |
| Backend credentials (`B/services/enrollment.py`, `agent_credentials.py`, `idempotency.py`, `security/secret_replay.py`) | agents, credentials, rotations, tokens, idempotency records | register, create/activate rotation, revoke, issue/void token | one active credential; a retry issues nothing new; a revoked agent has nothing live |
| Backend presence (`B/services/agent_protocol.py`) | manifests per sequence, presence row | publish_manifest, presence | monotonic sequences; same sequence, same body |
| Backend sessions and RBAC (`B/services/auth.py`, `rbac.py`) | users, roles, sessions, refresh tokens | login, refresh, logout, logout_all, change_password, administration, bootstrap | a family has one live token; reuse and revocation leave nothing alive; an administrator remains; requests never wait for each other for ever |
| Replay guard, rate limits (`B/security/`) | Redis counters and nonces | acquire | a nonce is accepted once; the limit holds |
| Artifacts (`A/application/artifacts.py`) | staging directory, intents, `pending_uploads`, prune journal | stage, reconcile, prune, recover at start | rows and bytes stay together over crashes of two processes; a commit and a cancellation never both win |
| Linux capture (`A/platforms/linux/capture*.py`) | marker, journal, reserved output, binding; the interface | execute, roll back, verify, stage, bind, resume | a changed interface always has its way back on disk; completed bytes are kept |
| Linux secret store (`A/platforms/linux/secret_store.py`) | two two-slot records, secret files, master key | open, put, get, delete, inspect | what is served is what the callers were told; an interrupted change is refused, never half visible |
| Process runners (`A/platforms/common.py`, `linux/cgroup.py`, `linux/spawn_guard.py`, `windows/process_runner.py`) | child processes, cgroup, pidfd, control pipe | spawn behind a guard, contain, wait, terminate, clean up | the target runs only inside its cgroup; nothing is left running or left behind unreported |
| Network control (`A/platforms/windows/network_controller.py`, `linux/network_manager.py`) | operation journal, profile | connect, disconnect, reconcile | an interrupted operation is reconciled at start |
| Transport, configuration, CLI, parsers, doctor, frontend, simulated agent | none durable | - | - |

**Interactions.** `AgentRuntime.start` opens the store, recovers interrupted
tasks, resumes a rotation and then repeats `cycle`: manifest, heartbeat,
`Scheduler.run_once` (fetch, dispatch, gather, synchronise outboxes), manifest
again when the fast start postponed the probes. All parts of the agent share the
SQLite file and the secret store and meet the backend only in HTTP requests.
Backend requests interleave as database transactions. Capture hands its bytes
to the artifact stager, which queues a row of `pending_uploads` that the task
pipeline's outbox delivers; captures and probes run their commands through the
process runner; identity keeps its secrets in the secret store. The command line
(`maintenance backup|restore|prune-artifacts`) is a second process on the same
files.

**Hard behaviours.** Crashes between two commits (the agent has no distributed
transaction and often commits two or three times for one operation); answers
that are lost after the request took effect; requests processed after the
sender gave up; coroutine switches at each `await`; clock windows (15-minute
secret replay, at most 300 s skew) that pass while the network is down;
SQLAlchemy sessions that keep rows loaded before a lock was taken; file
operations whose order of fsync, link and rename decides what a kill or a power
loss leaves; external commands that fail after their effect; worker threads and
child processes that outlive the wait for them.

## 2. Modules

| Module | Models | Kind |
|---|---|---|
| `TaskExecution` | task pipeline, outboxes, recovery and shutdown of the agent | detailed specification |
| `EffectLedger` | what the agent promises per idempotency key | abstract specification |
| `CredentialRotation` | agent identity and backend credentials, composed | detailed specification |
| `AgentPresence` | agent manifest and heartbeat, and backend presence, composed | detailed specification |
| `ArtifactStore` | artifact staging in the service, pruning in the maintenance process, one directory and table | detailed specification |
| `LinuxCapture` | durable capture: marker, interface journal, output, rollback, binding | detailed specification |
| `LinuxSecretStore` | the encrypted-file secret store with page cache and disk | detailed specification |
| `LinuxProcessRunner` | one command from the spawn guard to the end of its cleanup | detailed specification |
| `AuthSessions` | backend users, sessions and refresh tokens at the grain of row locks | detailed specification |
| `SqliteMigration` | creation, migration, backup and restore of the SQLite file | detailed specification |
| `...Proofs` | inductive invariant and theorems of the module it is named after (section 4); `DatabaseProofs` those of `AuthSessions` and of `SqliteMigration` | TLAPS proofs |
| `MC...` | one instance module per detailed specification, for TLC | - |

Each mutated definition (`X_Something`, next to the `X` it distorts) is a
plausible bug; no specification uses it. It records that the property named in
`PROJECT.json` would notice that bug.

### TaskExecution

*State.* One function per SQLite table, one row per task or key; the process is
the program counter `loop` of the scheduler loop and `pc[t]` of each
`TaskRunner.run` coroutine, with its cancellation token and local `final_state`.
`srv*`, `expired`, `invocations` are the world outside.

*Granularity.* One action is one committed transaction or one step to the next
`await`. asyncio switches coroutines only at an `await`, so a coroutine whose
`pc` is in `Synchronous` runs alone, but a **crash** may fall between any two
commits. Correspondence: `Fetch`/`IngestNew`/`IngestRepeat`/`FetchConflict` are
`ingest_task`; `Dispatch`/`Gathered` are `run_once`; `RunRefused`, `RunClaims`,
`RunRegisters`, `RunMarksInvoked`, `RunInvokes`, `PluginReports`,
`PluginQueuesUpload`, `PluginReturns`, `PluginStopped`, `RunSettles`,
`RunRequestsCleanup`, `CleanupEnds`, `RunCancelled`, `RunFinishes` are `run` from
top to bottom; `Publish*`/`Confirm`/`SyncAdvances` are `_sync_outboxes`;
`Shutdown`/`GraceExpires` are `Scheduler.shutdown`; `Start` is
`recover_interrupted`.

*Data.* An envelope is a record of task, key, effect digest, kind and a payload
variant; plugins either complete, fail, time out or are cancelled; payloads and
digests are values. Plugins and the server's delivery queue are external and
nondeterministic: any envelope may be delivered again at any time.

### CredentialRotation

*State.* The `agent_identity` row, the set of references whose secret is held,
the coroutine's step, and the backend's tables. A credential's id, version and
secret are one number; a rotation is named by its pending credential; the two
idempotency keys of one rotation are one number, because they are drawn in one
transaction. `purge` is a history variable.

*Granularity.* Each SecretStore mutation, each commit and each message is a
step. A mutation happens, fails before, or fails after its effect
(`SecretStore` may raise after the write). A backend request is two steps,
`Admit` (authentication, which loads agent and credential into the session) and
its transaction: rows re-read with `FOR UPDATE` in that session keep the
attributes loaded at authentication, while a stale *write* fails on
`version_id_col`. Requests that nobody awaits any more stay in `requests` (at
most two) and are lost or processed late. `BeginRotation` is `rotate()` from
state `none`, an operation of `IdentityManager` that the tests call and no
command of this version does. Purge is the Windows service's request.

### AgentPresence

*State.* `runtime_state`, `capability_manifests`, the position in `cycle`, the
backend's stored manifests and presence row. A payload is persisted before it is
sent and resent verbatim, so it is named by the number of the call that built
it. The platform is two numbers: `static` (versions, what the fast start
compares) and `live` (the probes it skips). `Recover` is a purge followed by an
enrolment with a recovery token, which keeps `agent_id`; requests sent before it
may still be processed. `SkipBeat` stands for a
cycle's heartbeat once `MaxBeats` is used up.

### ArtifactStore

*State.* A staged copy is an object with its place (`part`, `temp`, `out`,
`dead`), its intent file and its `_StagingTransaction`; `row` is
`pending_uploads`; `op` is the prune journal with one record per event file. Two
processes share the directory and no lock: the service (its coroutine `call`
inside `stage()` under `_stage_lock`, and up to two worker threads, because one
may outlive its grace period) and the maintenance process `cli`. An intent that
was moved aside stays in `intents/`: under a name the reconciliation skips
(`gone`), or, by the error path of a cancelled or failed staging, under one that
it neither skips nor can read (`moved`). Both count against
`reconciliation_maximum_entries` (`MaxEntries`).

*Granularity.* Each rename, link, record, fsync-and-rename and SQL transaction
is a step; a crash of either process, an I/O error, an expired deadline and a
lost grace period may fall between any two. A server's confirmation of an upload
(`Confirm`) is external. The three reconciliations (start of the service, start
of the maintenance process, `find_existing`) are the same steps with different
exits.

### LinuxCapture

*State.* The interface `nic` with what NetworkManager runs on it, and per
request the marker's last event, the journal and the snapshot in it, the
reserved output, the stager's share and the binding. `home` and `overlapped` are
history. The commands' effects are external: a successful command gives one of a
set of states, since NetworkManager may bring up connections of its own when it
gets an interface back.

*Granularity.* Each durable write and each command is a step; it fails before or
after its effect, the observation after it may be unavailable, and the process
may die between any two steps. `Execute` is a call that gets to work. Others are
refused and are no step: a second caller (the concurrency limit is one), a failed
authorization or preflight, and the states named by `ManualRecovery`,
`LegacyArtifact`, `NeedsSnapshot` (`Admitted`). The first call of a process also
needs a restorable snapshot before it opens anything (`Opens`); `RefusedCall` is
the first call that is refused after it opened the journal. Which states of the
interface iw gives a channel for is the driver's choice (`Radio`).

### LinuxSecretStore

*State.* `cache` and `disk` are the directory as processes see it and as a power
loss leaves it; both two-slot records, the secret files, the master key and its
marker are in each. `allowed` says what callers were told about each key: a
failed change that may have happened allows both values. The inspection takes no
lock and reads the two records at two moments.

*Granularity.* Each write, fsync, exchange and read-back under the lock is a
step that may fail; a kill keeps the cache, a power loss keeps of each unsynced
file the old, the new or a torn version.

### LinuxProcessRunner

*State.* Three coroutines (`main` of `run()`, `spawn` of `start_process`, the
creation of the guard), the cleanup, the control pipe, the cgroup, and the
kernel's view of guard, target and one descendant. *Granularity.* Everything
between two awaits is one step; the token, the request deadline, a second
cancellation, a bound of the cleanup or a failing system call may cut in at each
await. What the abort of the spawn task could not clean up is noted on its
exception (`noted`); `err` says that an error of the cleanup is raised by `run()`
or noted on what it raises, `cut` that the spawn task ended in the cancellation
`run()` sent it. The kernel's steps (signals delivered, processes reaped, cgroup
emptied) interleave freely; `KernelStep` is fair, a process in uninterruptible
sleep (`stuck`) excepted.

### AuthSessions

*State.* The tables `users` with the administrator role, `sessions` and
`refresh_tokens`, the requests with what their SQLAlchemy session has loaded, and
the row locks. *Granularity.* A request reads without locks, then takes one row
lock per step in the order of its statements and commits. Rows loaded before the
lock are not refreshed by `FOR UPDATE` (the session has no `populate_existing`);
their stale write fails on `version_id_col`, while bulk UPDATEs neither check nor
raise it. Foreign keys take KEY SHARE locks. When requests wait in a cycle
PostgreSQL aborts one of them. A login, whose only wait is the user row, is one
step.

### SqliteMigration

*State.* A database is its schema version and the number of row writes in it; the
file and its WAL are one object. Backups are files with a link count, because the
code publishes with `os.link` and refuses a file with two names. *Granularity.*
Each file operation and each migration is a step. The service and one operator
run side by side under the initialization lock where the code takes it; a
maintenance backup takes none. The service is stopped during a restore, which
`src/docs/phase05/recovery-and-rollback.md:37` demands and the code does not enforce.

## 3. Runs

The bounds are counters named `Max...` (stops, faults, keys, requests, writes,
commands, staged copies, prune operations and so on); nothing else is bounded but
the two unanswered requests of `CredentialRotation` (`Room`). Several of the
checked formulas are conjunctions of named parts, which the modules state and
comment one by one.

| Run | Instance | Shows |
|---|---|---|
| `task_claims` | 2 tasks, every envelope variant, 2 coroutines, expiry, corrupt row, cancel, 2 stops; 1.2 M states | `OneClaimPerKey`, `AtMostOneInvocation`, `ClaimNeverRequeued`, refinement `ImplementsLedger`, `RunsAccounted` (a result agrees with the tables, follows its cleanup, and is missing only after a cancellation) |
| `task_delivery` | 2 tasks, 1 coroutine, 1 progress event each, an upload, `cancel()`, 1 stop, fair; 0.25 M states | `SchedulerInOrder` (nothing is confirmed unsent, results follow progress, the limit holds), `ResultsDelivered`, `AcceptedSettles` |
| `credential_faults` | 2 rotations, 5 faults, fair; 11 k states | `CredentialKept` (the secret the backend accepts is held, no crash locks the agent out), `OneCredentialPerRequest`, `RotationEnds` |
| `credential_revocation` | 1 rotation, recovery on a second installation, 1 revocation, expiries, 2 faults; 1.5 M states | `OneActiveOnePending`, `RevokedKeepsNothing` (secrets are erased, nothing stays active), `RevokedForCause` |
| `presence` | with and without a scheduler, 3 boots, 4 manifests, 2 changes, 2 faults, 1 recovery, passing time, fair; 1.02 M states | `SequencesAgree` (resent payloads never conflict, what the agent holds for confirmed is stored, no gaps), `PendingBeatResolves`, `ManifestConverges` |
| `artifact_store` | 1 artifact with and without capture authority, 2 copies, 1 prune, 2 entries, 1 fault, 2 processes, fair; 0.17 M states | `RowsAndFilesAgree` (queued rows have bytes, confirmed ones are locatable, published copies are tracked and published once), `AnswersHold` (aborted is not published, staged is queued, one worker), `StageReturns`, `StartRecovers` |
| `artifact_cancelled_start` | 1 artifact, 1 fault, no prune, fair | expected violation, see below |
| `capture_faults` | 2 requests, 3 kinds of interface, 2 faults, fair; 0.27 M states | `InterfaceJournaled`, `EvidenceKept` (completed bytes are kept, a binding comes last), `MarkerAdvances`, `CaptureSettles` |
| `secret_store` | 2 processes, 1 key, 2 values, 3 changes, 2 faults; 1.5 M states up to symmetry | `AnswersTruthful` (served is expected and decrypts, the inspection is right), `DurableIsExpected`, `ServesUnlessInterrupted` |
| `process_runner` | both scopes, 2 faults, fair; 0.19 M states | `ContainedBeforeExec`, `CleanAtEnd` (clean or reported, nothing left running), `CommandEnds` |
| `auth_sessions` | 2 users, 3 requests, 3 sessions, 4 tokens; 1.05 M states | `LiveSessionIsCurrent`, `FamilyNeverForks`, `AdministratorRemains`, `NoStandstill`, `NoLostPassword` |
| `sqlite_migration` | 2 writes, 3 commands, 2 faults, fair; 0.3 M states | `RowsSurvive` (committed rows are kept, an interrupted restore is recoverable), `MigrationHasBackup`, `StartSettles` |

Each module's type invariant is checked with its first run, alone or as a part of
the first conjunction.

**Why these bounds.** A claim race needs two tasks of one key; a concurrency
violation needs one task more than there are coroutines; a crash of the process
that recovers from a crash needs two stops (`task_claims`); a task that is caught in any
state and settled by the next process needs one (`task_delivery`). A rotation has two requests and three
local commits, so five faults can hit each of its steps; a stale activation needs
one rotation and one administrator or a second installation. Three boots let a
request of boot 1 arrive in boot 3. One artifact is enough for the races of
`ArtifactStore`, which are all about one copy seen by two threads or processes;
a retry of it needs the second copy, and its two intents reach the limit of
entries together with its row. Two captures meet only on the interface. Two
faults in the secret store are a failed undo after a failed change, or a crash
while another process reopens the store. Lost updates and deadlocks of the
backend need two requests, a third is the victim's or the administrator's. A
downgrade, a write and an upgrade, or a backup and a restore of it, are three
commands.

`CHECK_DEADLOCK FALSE` stands where the system really rests: a purged or revoked
agent and an interrupted capture or secret store wait for an operator; a command,
or a fixed number of requests, has ended; a crash in the last boot leaves nothing
to do. The task, artifact and SQLite runs check deadlock.

**Fairness.**
- *TaskExecution*: weak fairness of the loop and of each coroutine (asyncio runs
  every ready callback; systemd's `Restart=on-failure` and the Windows service
  manager start the process again). Strong fairness of an acknowledged
  publication and of an empty fetch: the code retries with backoff for ever,
  which helps only if the network does not fail every attempt and the server
  does not always have one more task.
- *CredentialRotation*, *AgentPresence*: weak fairness of the agent's steps, of
  the backend's and of the restart. Nothing is assumed of operators, clocks or
  faults.
- *ArtifactStore*: weak fairness of each thread, of the coroutine and of the
  service's start; not of the maintenance command.
- *LinuxCapture*: weak fairness of a call in progress, whose every tool runs under
  a deadline. Nothing is assumed of the callers, nor that a repeated call is ever
  admitted: `CaptureSettles` says that only finitely many calls of a request get
  to work, not that one of them succeeds.
- *LinuxProcessRunner*: weak fairness of the coroutines, of the kernel and of the
  request deadline. Bounded waits may expire whenever what they wait for has not
  happened. The two-second SIGTERM grace is taken to lie inside the 4.9 s of the
  whole cleanup, as the constants of the code have it.
- *SqliteMigration*: strong fairness of the service's start (the operator's lock
  comes and goes; the service manager tries again), weak fairness of a command
  in progress.
- *LinuxSecretStore*, *AuthSessions*: none; no liveness is checked.

### What the code does and a reader may not expect

The run `artifact_cancelled_start` is expected to be violated. It checks a statement
of `docs/phase07/installation-and-distributions.md:80`, that the start reconciles the
intents it finds. A staging that is cancelled, or fails, between its intent and its
commit moves the intent aside under a name that every later start lists and cannot
read (`A/application/artifacts.py:2712`): the service does not come up again, without
any crash on the way but its own restart.

The other behaviours below came out of the models. The properties above hold with
them: where one limits a property, the property names the case. The first five go
against a document or the tests.

*Revoked rotation.* A rotation request authenticated before the agent is revoked
leaves a pending credential and rotation on a revoked agent, as `create_rotation`
does not see the committed revocation (`B/services/agent_credentials.py:88`, against
`docs/phase04/enrollment-and-credentials.md:80`). It never becomes active:
`RevokedKeepsNothing` asks that a revoked agent has no *active* credential.

*Refused rotation.* A 401 while `start()` resumes a rotation ends the process and
never marks the identity revoked (`A/application/runtime.py:59`, against
`docs/phase05/doctor-and-troubleshooting.md:17`). `RotationEnds` is checked without
revocations (`MaxAdmin = 0`), where no such answer is given.

*Start budget.* Intents of confirmed artifacts stay in `intents/` for good and count,
so enough of them refuse every start (`artifacts.py:3407`, against lines 80-81 of
`docs/phase07/installation-and-distributions.md`). `StartRecovers` exempts the state
(`Damaged`).

*Capture after a crash.* A new process wants a restorable snapshot before it opens the
journal (`A/platforms/linux/capture.py:1854`); an interface that its own capture left
as a disconnected station gives none, and nothing is rolled back (against
`docs/phase07/interface-recovery-runbook.md:75`). `CaptureSettles` counts refused
calls (`~Opens`) as settled.

*Interrupted spawn.* When the token or the deadline interrupts the spawn, `run()` drops
the spawn task's CancelledError with the notes of what its abort could not clean up
(`A/platforms/common.py:478`); the tests expect such errors on what `run()` raises
(`agents/desktop/tests/unit/test_process_runner_lifecycle.py:259`). `CleanAtEnd` names
the case (`cut /\ noted`) and asks for everything else.

*Tasks.* `cancel()` sets the token and changes no row; if the plugin then returns
normally, `run` asks for a transition from `cancel_requested` while the row says
`running` (`A/application/task_runner.py:101`): StateConflictError, no cleanup, no
result until the process restarts. `AcceptedSettles` excepts exactly that state
(`LeftByCancel`: the token set, the coroutine ended, the row still RUNNING) and
nothing that a timeout or a shutdown does. The tests only use plugins that heed
the token. `recover_interrupted` writes `interrupted` over `cancel_requested`, a pair
`ALLOWED_TRANSITIONS` does not list.

*Credentials.* A rotation whose answer is lost
for longer than the replay window is refused at every start, although the
previous credential is still active (`RotationEnds` is checked with
`Lapses = FALSE`).

*Presence.* A heartbeat unconfirmed for longer than the skew window is resent
verbatim and refused for ever (`A/application/heartbeat.py:20`). A purge and
recovery number the manifests of a known `agent_id` from 0 again and conflict for
ever (`A/infrastructure/sqlite/store.py:692`). `PendingBeatResolves` and
`ManifestConverges` except these two cases by name. `_presence` compares sequences
with the last accepted boot only, so a late heartbeat of an earlier boot replaces
the presence of the running one.

*Artifacts.* `Damaged`, the exception of `StartRecovers`, is what every later start
refuses: an intent that was moved aside by the error path or torn by a crash, a
capture's intent without its copy, a second copy of a raced capture, or more
entries than one reconciliation may inspect. A worker
that outlives its grace period goes on and may still publish, against the
docstring of `artifacts.py:354`. The maintenance process may publish a copy that
the service is giving up (`raced`). When reconciliation finds the file already in
place it queues the row without an fsync of the directory; power losses are not
modelled here.

*Capture.* A second request looks for its own journal only
(`A/platforms/linux/capture.py:1878`) and takes an interface the first one left
changed for the original; its rollback then goes back to that.
`docs/phase07/interface-recovery-runbook.md:3` calls a journal that is present
blocking. `InterfaceJournaled` and `CaptureSettles` hold until this happens
(`overlapped`). A crash while dumpcap writes leaves an output with bytes and no
completion: later calls are refused before any rollback. A failed rollback step
is never retried. Connections that NetworkManager adds by itself keep a rollback
incomplete (`ForeignConnection`). A crash between `publish_binding` and the
retirement leaks marker and output.

*Secret store.* Every crash inside a change blocks the store until an operator
acts, by design; so does one between the creation of `.store-state` and of the
guard, in a store that never held anything, and a full disk while a record's
temporary is written.

*Process runner.* The forced cleanup does not
kill the cgroup once the return code is known. The guard is moved to its cgroup
by its number, two awaits after its pidfd was checked.

*Sessions.* A request that detects the reuse of a token can be the deadlock
victim of a refresh of the same family: it answers 500 and the family stays
alive. A logout racing a refresh fails on the row's version and leaves the
session alive.

*SQLite.* A kill between `os.link` and `candidate.unlink` leaves a backup with two
names, and starts of an old schema are refused until one is removed (`cut`). A
restore over a torn database is refused, because the backup of the damaged file
fails. A kill right after `copy2` emptied the file lets the next start create a
new database, and the next restore then overwrites the only copy of the rows
(`reset`). A restore from `.pre-restore.bak` overwrites its own source and reports
success. `copy2` is never synced.

## 4. Proofs

The proofs hold for every value of the constants that satisfies the named
assumptions of the modules: any set of tasks, keys, users, connections or
envelopes, any number of faults, boots, crashes, rotations, commands. The 30
invariants, action properties and refinements that the passing runs check are all
proved.

| Module | Theorem | States |
|---|---|---|
| `TaskExecutionProofs` | `TypeCorrect`, `OneClaim`, `OneInvocation`, `NeverRequeued`, `RunsTheorem`, `SchedulerTheorem`, `LedgerTheorem` | `TypeOK`, `OneClaimPerKey`, `AtMostOneInvocation`, `ClaimNeverRequeued`, `RunsAccounted`, `SchedulerInOrder`, the refinement `ImplementsLedger` |
| `CredentialRotationProofs` | `OneActiveTheorem`, `KeptTheorem`, `OneCredentialTheorem`, `RevocationTheorem`, `CauseTheorem` | `OneActiveOnePending`, `CredentialKept`, `OneCredentialPerRequest`, `RevokedKeepsNothing`, `RevokedForCause` |
| `AgentPresenceProofs` | `AgreementTheorem` | `SequencesAgree` |
| `ArtifactStoreProofs` | `RowsAndFilesTheorem`, `AnswersHoldTheorem` | `RowsAndFilesAgree`, `AnswersHold` |
| `LinuxCaptureProofs` | `JournalTheorem`, `EvidenceTheorem`, `MarkerTheorem` | `InterfaceJournaled`, `EvidenceKept`, `MarkerAdvances` |
| `LinuxProcessRunnerProofs` | `ContainmentTheorem`, `CleanTheorem` | `ContainedBeforeExec`, `CleanAtEnd` |
| `LinuxSecretStoreProofs` | `AnswersTheorem`, `DurableTheorem`, `ServesTheorem` | `AnswersTruthful`, `DurableIsExpected`, `ServesUnlessInterrupted` |
| `DatabaseProofs` (`AuthSessions`) | `ExpulsionTheorem`, `FamilyTheorem`, `AdministratorTheorem`, `PasswordTheorem`, `StandstillTheorem` | `LiveSessionIsCurrent`, `FamilyNeverForks`, `AdministratorRemains`, `NoLostPassword`, `NoStandstill` |
| `DatabaseProofs` (`SqliteMigration`) | `RowsTheorem`, `BackupTheorem` | `RowsSurvive`, `MigrationHasBackup` |

None of the invariants is inductive by itself. Each proof module defines the
inductive one (`IInv`, in `TaskExecutionProofs` also `JInv`, `AuthInv` for `AuthSessions`) as a conjunction of
named parts, shows that `Init` establishes it and that every action preserves
it, and derives the theorems. Each inductive invariant was checked by TLC on the instance of the
component's run first. The arguments:

- **TaskExecution.** Two tasks of one key cannot both be claimed because a key
  has one canonical task (`ClaimsOK`: a queued or claimed task is it).
  `invoked_at` is committed before the plugin is entered, so a coroutine about to
  enter has never done so (`RunsOK`). For the outcome, `RunnerOK` ties each
  position of `TaskRunner.run` to the row, the attempt and the result it has
  committed by then, `ReportOK` the result row to the other tables and the
  server, `FlightOK` and `ProgressOK` the outboxes to what was published. They
  imply that the compare-and-set of `finish_with_result` never fails. The
  refinement follows step by step: every action maps to a step of `EffectLedger`
  on the key of its task or leaves the ledger alone.
- **CredentialRotation.** A request in flight names what its identity row had
  recorded when it was sent (`RequestsOK`), and each position of the agent
  (`ProcessOK`) says which of its local commits have happened. With the agreement
  of the backend's tables (`TablesOK`) a late or repeated request meets either
  its own earlier effect or a credential that can never be active again
  (`Settled`). `SecretsOK` and `AcceptedOK` say where the secret of the credential
  the backend accepts is at each crash point.
- **AgentPresence.** Whether a late request conflicts is decided when it is sent.
  `RequestsOK`, `StoredOK` and `BeatsOK` say what every request in flight and
  every backend row owes to the agent's durable tables; after a recovery purged
  them only what the agent confirms anew is claimed.
- **ArtifactStore.** Three threads in two processes share a directory and no lock,
  so the proof goes by rely and guarantee. `Moves` says what any step may do: a
  published copy stays published, an intent that is set aside leaves a copy that
  is tracked, a row keeps the copy it names, an event of the prune journal stays,
  and a copy becomes publishable only by the worker that makes it. Each action
  makes such moves and keeps what its own thread relies on; what every other
  thread relies on survives any move (`ThreadStays`), which is shown once. A
  thread relies on: `PruneOK` (each place of a prune operation against the events,
  the copy's name and the row's path), `StagingOK` (each place of a worker against
  the copy, its intent and its transaction), `ReconcileOK`, and for
  `PublishedOnce`, `PreflightOK` and `FreshOK`: a worker stages only what the
  preflight did not find, and by then the preflight has queued or refused every
  copy that could still be published. `UniqueOK` is that promise for all copies.
  `CallOK` ties the coroutine to its worker and to what a result means.
- **LinuxCapture.** `SnapshotOK` says that one request at a time holds a snapshot
  and that it is the original; `MarkerOK` what the last event of a marker
  implies for journal and rollback; `PlaceOK` what the step of `execute()` in
  progress finds on disk, which is what a crash at that step leaves.
- **LinuxProcessRunner.** `Containment`: the cgroup is made before it is joined
  and joined before the release. `Ownership`: which of `run()` and the spawn task
  has to clean up, and that whoever has to still holds the context. `Reported`:
  what an error that is neither noted nor recorded guarantees at each step of
  either cleanup, and that notes are lost with a cancelled spawn only; `Killed`:
  who was sent SIGKILL by then.
- **LinuxSecretStore.** The guard record carries the argument. While it says
  FINALIZING on disk and in the page cache (`Sealed`), no power loss, torn slot
  or not, can make a file that serves; whenever the disk may come back with an
  idle guard (`MayServe`) the secrets on disk are those in the page cache, are
  expected and can be decrypted (`GoodOK`). `RecordsOK` says what both records are
  at each position of the protocol, `BodyOK` what the change has done by then,
  `CleanOK` that without an interruption cache and disk agree whenever nobody is
  inside, `StuckOK` that a process without the master key has a store that blocks.
  Sequence numbers only grow (`Moved`), so an inspection that read the records at
  two moments sees that the state record moved in between.
- **AuthSessions.** `CommitOK` states what a request that passed its checks relies
  on until it commits. It is stable because the rows it read are locked, are
  about to be locked by one of the statements ahead of it (`Ahead`), or are
  compared by `version_id`; `LocksOK` says that no two requests hold locks that
  exclude each other. For `NoStandstill`, suppose that requests wait, that none
  can go on and that none is on a cycle. Each waits for others that wait too
  (`WaitsForActive`). `SmallestClosed` gives a set of them that is closed under
  "waits for" and has no smaller closed part; a closed set with what one member
  waits for then contains that member, which is on a cycle after all.
- **SqliteMigration.** `KeptOK` and `UndoOK` say which of the files besides the
  database holds the committed rows while the database is damaged or a power
  loss would damage it, for each place of each process.

*Assumptions.* They are the sorts of the constants and that null values are not
among the real ones. Beyond that: `Tasks`, `Conns`, `Users` and the recovery
tokens are finite sets (the code keeps them in tables and lists); the interface
can be brought back to each of its starting states (`Restorable`: connections
that agree and a complete radio; the code refuses other snapshots); `MaxWrites` is at least 1; the bounds of `AuthSessions`
leave room for the session and the token that each user has at first. TLC
evaluates all of them in the runs. The bounds `Max...` are arbitrary natural numbers, so what is proved
does not depend on them.

*Only model-checked.*
- Liveness: `AcceptedSettles`, `ResultsDelivered`, `RotationEnds`,
  `PendingBeatResolves`, `ManifestConverges`, `StageReturns`, `StartRecovers`,
  `CaptureSettles`, `CommandEnds`, `StartSettles`. The prover has neither fairness
  nor ENABLED.
- That the cases the theorems speak of occur: the runs reach them, and their
  mutants show that each property would notice.

No module declares a recursive operator, so nothing is lost to the prover there.

## 5. Plan

Built, in this order: the task pipeline (the agent's central promise),
credentials (the way in), presence, artifacts, capture, the secret store, the
process runner, backend sessions, the SQLite file; then the theorems of all of
them. The proofs changed one model: in `ArtifactStore` the first step of a
recovery (`RecoveryStep`, `IntentStep`) was a CASE whose conditions overlap, which
in TLA+ leaves the choice open where the code takes the first; its conditions now
follow the order of the code.

A model of the Windows network controller's operation journal and of
`reconcile_incomplete` would follow. An abstract "atomic store" that
`LinuxSecretStore` implements, and that `CredentialRotation` uses, would join the
two: today `CredentialRotation` lets a secret's mutation happen, fail before or
fail after its effect, which is what `allowed` in `LinuxSecretStore` permits.

## 6. Not modelled

- Cryptography (digests, AEAD, signatures) and JSON validation: assumed correct.
- Several agent services on one store: the code takes it that one runs (the
  service manager), and so do the models. A second, maintenance process is
  modelled where it shares files (`ArtifactStore`, `LinuxSecretStore`,
  `SqliteMigration`).
- SQLite's and PostgreSQL's own atomicity: one transaction is one step, at the
  grain of row locks in `AuthSessions`.
- Power losses outside `LinuxSecretStore` and `SqliteMigration`: the other models
  have kills, which keep the page cache.
- Capture: authorization, preflight and the fingerprint, which only refuse; the
  operation lock of a second process; torn appends to a marker;
  `_execute_without_recovery_store`.
- `LinuxSecretServiceStore` (a D-Bus daemon) and the doctor's repairs.
- The Windows process runner, inventory and Npcap probes; a failing asyncio task
  factory.
- Network control: what `netsh` and NetworkManager do decides nearly every step of
  connect and reconcile, and the repository says little of it.
- Redis rate limits and the replay guard, which only refuse requests.
- Routing, logging, configuration, parsing of command output, inventory, doctor,
  frontend, packaging: no protocol state.
