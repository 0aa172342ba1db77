--------------------------- MODULE TaskExecution ---------------------------
(***************************************************************************)
(* The desktop agent's task pipeline: Scheduler.run_once / shutdown,        *)
(* TaskRunner.run / cancel and the SQLiteStore tables they share.           *)
(*                                                                         *)
(* Durable state (survives Crash) is one function per SQLite table; every   *)
(* action changes it by exactly one committed transaction, so a crash can   *)
(* fall between any two of them.  Volatile state is the asyncio process: the*)
(* program counter of the scheduler loop and of one TaskRunner.run          *)
(* coroutine per task.  asyncio switches coroutines only at an await, so a  *)
(* coroutine whose pc is in Synchronous runs alone until its next await.    *)
(***************************************************************************)
EXTENDS Integers, FiniteSets

CONSTANTS
  Tasks,           \* task_id values
  Keys,            \* idempotency_key values
  Effects,         \* digests of LocalTaskEnvelope.logical_effect()
  Envelopes,       \* the task envelopes the transport may deliver
  NoTask, NoEnvelope, NoEffect,   \* SQL NULLs
  Uploaders,       \* tasks whose plugin queues one artifact upload
  Corruptible,     \* tasks whose stored row may be damaged on disk
  Expirable,       \* tasks whose expires_at may pass while they are queued
  MaxConcurrency,  \* AgentSettings.max_concurrency
  MaxProgress,     \* bound: progress events per task
  MaxStops,        \* bound: crashes, interrupts and shutdowns
  Cancellation     \* whether somebody calls TaskRunner.cancel / shutdown

Kinds == {"ok", "unknown_plugin", "invalid_parameters"}

ASSUME EnvelopesAssumption ==
  /\ Envelopes \subseteq [task_id : Tasks, idempotency_key : Keys,
                          effect : Effects, kind : Kinds, variant : {0, 1}]
  /\ NoTask \notin Tasks
  /\ NoEnvelope \notin Envelopes
  /\ NoEffect \notin Effects

ASSUME BoundsAssumption ==
  /\ IsFiniteSet(Tasks)
  /\ MaxConcurrency \in Nat \ {0}
  /\ MaxProgress \in Nat
  /\ MaxStops \in Nat
  /\ Cancellation \in BOOLEAN
  /\ Uploaders \subseteq Tasks
  /\ Corruptible \subseteq Tasks
  /\ Expirable \subseteq Tasks

VARIABLES
  \* SQLite tables
  inbox_tasks,          \* one row per task_id
  idempotency_effects,  \* one row per idempotency_key
  task_attempts,        \* UNIQUE(task_id)
  outbox_progress,      \* UNIQUE(task_id, sequence)
  outbox_results,       \* UNIQUE(task_id)
  pending_uploads,
  quarantine,
  arrivals,             \* number of inbox rows so far: received_at order
  \* the asyncio process
  loop,                 \* where AgentRuntime.run / Scheduler.run_once is
  pc,                   \* where TaskRunner.run(task) is
  token,                \* TaskRunner._cancellations
  cancelRequests,       \* coroutines with an undelivered asyncio cancel()
  outcome,              \* the local final_state of TaskRunner.run
  stopping,             \* Scheduler._stopping
  inflight,             \* the outbox row published and not yet confirmed
  \* the environment
  expired,              \* tasks whose expires_at has passed
  stops,                \* crashes, interrupts and shutdowns so far
  srvProgress, srvResults, srvUploads,  \* what the server has received
  invocations           \* how often plugin.execute was entered, per task

rows == <<inbox_tasks, idempotency_effects, task_attempts>>
outboxes == <<outbox_progress, outbox_results, pending_uploads>>
intake == <<quarantine, arrivals>>
tables == <<rows, outboxes, intake>>
runners == <<pc, token, cancelRequests, outcome>>
scheduler == <<loop, stopping, inflight>>
server == <<srvProgress, srvResults, srvUploads>>
world == <<server, expired, stops, invocations>>
vars == <<tables, runners, scheduler, world>>

-----------------------------------------------------------------------------
(* domain/states.py *)

PreExecutionTerminal == {"duplicate", "skipped", "blocked", "rejected"}
ExecutionTerminal == {"completed", "failed", "cancelled", "interrupted"}
TerminalStates == PreExecutionTerminal \union ExecutionTerminal
ActiveStates == {"preparing", "running", "cancel_requested", "cleaning_up"}
TaskState == TerminalStates \union ActiveStates \union {"received", "queued"}
ReportedStates == {"completed", "failed", "cancelled"}

\* ALLOWED_TRANSITIONS as a set of pairs.
AllowedTransitions ==
  ({"received"} \X {"duplicate", "skipped", "blocked", "rejected", "queued"})
  \union ({"queued"} \X {"preparing", "cancel_requested", "skipped", "blocked",
                         "rejected"})
  \union ({"preparing"} \X {"running", "cancel_requested", "failed",
                            "interrupted"})
  \union ({"running"} \X {"cancel_requested", "cleaning_up", "interrupted"})
  \union {<<"cancel_requested", "cleaning_up">>}
  \union ({"cleaning_up"} \X ExecutionTerminal)

\* SQLiteStore.transition: ensure_transition, then the compare-and-set.
CanTransition(t, current, target) ==
  /\ <<current, target>> \in AllowedTransitions
  /\ inbox_tasks[t].state = current

SetState(t, target) == [inbox_tasks EXCEPT ![t].state = target]

-----------------------------------------------------------------------------
(* Rows, program counters and the type invariant *)

RowStates == {"absent", "pending", "confirmed"}
Events == 1 .. MaxProgress
InboxRow == [state : TaskState \union {"absent"},
             payload : Envelopes \union {NoEnvelope},
             received : Nat, intact : BOOLEAN]
EffectRow == [effect : Effects \union {NoEffect},
              canonical : Tasks \union {NoTask}, claimed : BOOLEAN,
              terminal : ReportedStates \union {"none"}]
AttemptRow == [claimed : BOOLEAN, invoked : BOOLEAN,
               cleanup_requested : BOOLEAN, cleanup_attempts : Nat,
               cleanup_completed : BOOLEAN, finished : BOOLEAN]
ResultRow == [state : RowStates, local_state : ReportedStates \union {"none"}]

\* Between these points TaskRunner.run has no await.
Synchronous ==
  {"claimed", "registered", "marked", "settling", "cleaning", "finishing"}
RunnerPCs == Synchronous \union {"idle", "scheduled", "executing", "cleanup"}
Channels == {"progress", "results", "uploads"}
LoopPCs == Channels \union {"down", "fetch", "dispatch", "gather", "unwinding",
                            "confirm", "sleep"}
NoFlight == [channel |-> "none"]
Flights == [channel : {"progress"}, task : Tasks, sequence : Events]
           \union [channel : {"results", "uploads"}, task : Tasks]

RowsType ==
  /\ inbox_tasks \in [Tasks -> InboxRow]
  /\ idempotency_effects \in [Keys -> EffectRow]
  /\ task_attempts \in [Tasks -> AttemptRow]

OutboxesType ==
  /\ outbox_progress \in [Tasks -> [Events -> RowStates]]
  /\ outbox_results \in [Tasks -> ResultRow]
  /\ pending_uploads \in [Tasks -> RowStates]

IntakeType ==
  /\ quarantine \subseteq Tasks \X {"task_id_payload_conflict", "corrupt_task_row"}
  /\ arrivals \in Nat

RunnersType ==
  /\ pc \in [Tasks -> RunnerPCs]
  /\ token \in [Tasks -> {"none", "live", "cancelled"}]
  /\ cancelRequests \subseteq Tasks
  /\ outcome \in [Tasks -> ReportedStates \union {"none"}]

SchedulerType ==
  /\ loop \in LoopPCs
  /\ stopping \in {"no", "requested", "waiting", "cancelled"}
  /\ inflight \in Flights \union {NoFlight}

WorldType ==
  /\ srvProgress \in [Tasks -> SUBSET Events]
  /\ srvResults \in [Tasks -> SUBSET ReportedStates]
  /\ srvUploads \subseteq Tasks
  /\ expired \subseteq Tasks
  /\ stops \in Nat
  /\ invocations \in [Tasks -> Nat]

\* Every table row, program counter and counter keeps its shape.
TypeOK == /\ RowsType /\ OutboxesType /\ IntakeType
          /\ RunnersType /\ SchedulerType /\ WorldType

Init ==
  /\ inbox_tasks = [t \in Tasks |-> [state |-> "absent", payload |-> NoEnvelope,
                                     received |-> 0, intact |-> TRUE]]
  /\ idempotency_effects =
       [k \in Keys |-> [effect |-> NoEffect, canonical |-> NoTask,
                        claimed |-> FALSE, terminal |-> "none"]]
  /\ task_attempts =
       [t \in Tasks |-> [claimed |-> FALSE, invoked |-> FALSE,
                         cleanup_requested |-> FALSE, cleanup_attempts |-> 0,
                         cleanup_completed |-> FALSE, finished |-> FALSE]]
  /\ outbox_progress = [t \in Tasks |-> [n \in Events |-> "absent"]]
  /\ outbox_results = [t \in Tasks |-> [state |-> "absent", local_state |-> "none"]]
  /\ pending_uploads = [t \in Tasks |-> "absent"]
  /\ quarantine = {}
  /\ arrivals = 0
  /\ loop = "down"
  /\ pc = [t \in Tasks |-> "idle"]
  /\ token = [t \in Tasks |-> "none"]
  /\ cancelRequests = {}
  /\ outcome = [t \in Tasks |-> "none"]
  /\ stopping = "no"
  /\ inflight = NoFlight
  /\ expired = {}
  /\ stops = 0
  /\ srvProgress = [t \in Tasks |-> {}]
  /\ srvResults = [t \in Tasks |-> {}]
  /\ srvUploads = {}
  /\ invocations = [t \in Tasks |-> 0]

Running == {t \in Tasks : pc[t] # "idle"}       \* Scheduler._running
Queued == {t \in Tasks : inbox_tasks[t].state = "queued"}
KeyOf(t) == inbox_tasks[t].payload.idempotency_key
\* No coroutine is between two awaits, so the event loop may switch.
AtAwait == \A t \in Tasks : pc[t] \notin Synchronous
\* Coroutine t may take its next step.
Scheduled(t) == \A u \in Tasks \ {t} : pc[u] \notin Synchronous
Goto(t, label) == pc' = [pc EXCEPT ![t] = label]

-----------------------------------------------------------------------------
(* Process start, crash and end (AgentRuntime.start / run) *)

\* Variant: recovery puts claimed tasks back in the queue.
InterruptedRow_Requeues(t) ==
  IF inbox_tasks[t].state \in ActiveStates
  THEN [inbox_tasks[t] EXCEPT !.state = "queued"]
  ELSE inbox_tasks[t]

\* Variant: recovery closes claimed tasks as failed, without a result row.
InterruptedRow_Fails(t) ==
  IF inbox_tasks[t].state \in ActiveStates
  THEN [inbox_tasks[t] EXCEPT !.state = "failed"]
  ELSE inbox_tasks[t]

\* Variant: 'cleaning_up' is missing from the SQL list of recovered states.
InterruptedRow_ForgetsCleaningUp(t) ==
  IF inbox_tasks[t].state \in ActiveStates \ {"cleaning_up"}
  THEN [inbox_tasks[t] EXCEPT !.state = "interrupted"]
  ELSE inbox_tasks[t]

\* recover_interrupted: every task claimed by a dead process is closed.
InterruptedRow(t) ==
  IF inbox_tasks[t].state \in ActiveStates
  THEN [inbox_tasks[t] EXCEPT !.state = "interrupted"]
  ELSE inbox_tasks[t]

InterruptedAttempt(t) ==
  IF inbox_tasks[t].state \in ActiveStates
  THEN [task_attempts[t] EXCEPT !.cleanup_requested = TRUE, !.finished = TRUE]
  ELSE task_attempts[t]

Start ==
  /\ loop = "down"
  /\ inbox_tasks' = [t \in Tasks |-> InterruptedRow(t)]
  /\ task_attempts' = [t \in Tasks |-> InterruptedAttempt(t)]
  /\ loop' = "fetch"
  /\ UNCHANGED <<idempotency_effects, outboxes, intake, runners, stopping,
                 inflight, world>>

\* The process is gone: nothing in memory survives.
ProcessEnds ==
  /\ loop' = "down"
  /\ pc' = [t \in Tasks |-> "idle"]
  /\ token' = [t \in Tasks |-> "none"]
  /\ cancelRequests' = {}
  /\ outcome' = [t \in Tasks |-> "none"]
  /\ stopping' = "no"
  /\ inflight' = NoFlight

Crash ==
  /\ loop # "down"
  /\ stops < MaxStops
  /\ stops' = stops + 1
  /\ ProcessEnds
  /\ UNCHANGED <<tables, server, expired, invocations>>

\* SIGINT/SIGTERM cancels the main task.  asyncio.gather then cancels its
\* children and waits for them; at any other await it ends like Crash.
Interrupt ==
  /\ loop = "gather"
  /\ AtAwait
  /\ stops < MaxStops
  /\ stops' = stops + 1
  /\ loop' = "unwinding"
  /\ cancelRequests' = cancelRequests \union Running
  /\ UNCHANGED <<tables, pc, token, outcome, stopping, inflight, server,
                 expired, invocations>>

Unwound ==
  /\ loop = "unwinding"
  /\ Running = {}
  /\ ProcessEnds
  /\ UNCHANGED <<tables, world>>

\* while not self._stopping.is_set(): the loop runs again or the process ends.
Wake ==
  /\ loop = "sleep"
  /\ IF stopping = "no"
     THEN loop' = "fetch" /\ UNCHANGED <<runners, stopping, inflight>>
     ELSE ProcessEnds
  /\ UNCHANGED <<tables, world>>

-----------------------------------------------------------------------------
(* Scheduler.run_once: fetch and SQLiteStore.ingest_task *)

\* fetch_local_task raised TransportError: the cycle is abandoned and retried.
FetchFails ==
  /\ loop = "fetch"
  /\ loop' = "sleep"
  /\ UNCHANGED <<tables, runners, stopping, inflight, world>>

NewRow(e, state) == [state |-> state, payload |-> e, received |-> arrivals + 1,
                     intact |-> TRUE]

\* Variant: idempotency_effects is upserted without being looked up.
IngestNew_NoLookup(e) ==
  /\ inbox_tasks' = [inbox_tasks EXCEPT ![e.task_id] = NewRow(e, "queued")]
  /\ idempotency_effects' =
       [idempotency_effects EXCEPT ![e.idempotency_key] =
          [effect |-> e.effect, canonical |-> e.task_id,
           claimed |-> FALSE, terminal |-> "none"]]

\* A first delivery of an unseen logical effect is received and queued.
IngestNew(e) ==
  /\ idempotency_effects[e.idempotency_key].canonical = NoTask
  /\ inbox_tasks' = [inbox_tasks EXCEPT ![e.task_id] = NewRow(e, "queued")]
  /\ idempotency_effects' =
       [idempotency_effects EXCEPT ![e.idempotency_key] =
          [effect |-> e.effect, canonical |-> e.task_id,
           claimed |-> FALSE, terminal |-> "none"]]

\* Variant: a repeated effect is queued like a new one.
IngestRepeat_Queues(e) ==
  /\ idempotency_effects[e.idempotency_key].canonical # NoTask
  /\ inbox_tasks' = [inbox_tasks EXCEPT ![e.task_id] = NewRow(e, "queued")]
  /\ UNCHANGED idempotency_effects

\* Another task already owns the idempotency key.
IngestRepeat(e) ==
  /\ idempotency_effects[e.idempotency_key].canonical # NoTask
  /\ inbox_tasks' = [inbox_tasks EXCEPT ![e.task_id] =
       NewRow(e, IF idempotency_effects[e.idempotency_key].effect = e.effect
                 THEN "duplicate" ELSE "blocked")]
  /\ UNCHANGED idempotency_effects

Fetch(e) ==
  /\ loop = "fetch"
  /\ inbox_tasks[e.task_id].state = "absent"
  /\ arrivals' = arrivals + 1
  /\ IngestNew(e) \/ IngestRepeat(e)
  /\ UNCHANGED <<task_attempts, outboxes, quarantine, scheduler, runners,
                 world>>

\* Redelivery of the same payload is acknowledged as a duplicate (no change).
\* A different payload under a known task_id is quarantined, and
\* DuplicateConflictError leaves run_once, cycle and run: the process ends.
FetchConflict(e) ==
  /\ loop = "fetch"
  /\ inbox_tasks[e.task_id].state # "absent"
  /\ inbox_tasks[e.task_id].payload # e
  /\ quarantine' = quarantine \union {<<e.task_id, "task_id_payload_conflict">>}
  /\ ProcessEnds
  /\ UNCHANGED <<rows, outboxes, arrivals, world>>

FetchNone ==
  /\ loop = "fetch"
  /\ loop' = "dispatch"
  /\ UNCHANGED <<tables, runners, stopping, inflight, world>>

-----------------------------------------------------------------------------
(* Scheduler.run_once: queued_tasks, create_task, gather *)

\* queued_tasks(limit): the oldest rows first.
OldestQueued(batch) ==
  LET room == MaxConcurrency - Cardinality(Running)
      available == IF room < 0 THEN 0 ELSE room
  IN  /\ Cardinality(batch) <= available
      /\ Cardinality(batch) = available \/ batch = Queued
      /\ \A t \in batch, u \in Queued \ batch :
            inbox_tasks[t].received < inbox_tasks[u].received

\* Rows whose checksum no longer matches are quarantined and rejected.
Dispatch(batch) ==
  LET corrupt == {t \in batch : ~ inbox_tasks[t].intact}
  IN  /\ loop = "dispatch"
      /\ OldestQueued(batch)
      /\ inbox_tasks' = [t \in Tasks |->
           IF t \in corrupt THEN [inbox_tasks[t] EXCEPT !.state = "rejected"]
                            ELSE inbox_tasks[t]]
      /\ quarantine' = quarantine \union (corrupt \X {"corrupt_task_row"})
      /\ pc' = [t \in Tasks |-> IF t \in batch \ corrupt THEN "scheduled" ELSE pc[t]]
      /\ loop' = "gather"
      /\ UNCHANGED <<idempotency_effects, task_attempts, outboxes, arrivals,
                     token, cancelRequests, outcome, stopping, inflight,
                     world>>

\* Variant: results are synchronised before progress.
Gathered_ResultsFirst ==
  /\ loop = "gather"
  /\ Running = {}
  /\ loop' = "results"
  /\ UNCHANGED <<tables, runners, stopping, inflight, world>>

Gathered ==
  /\ loop = "gather"
  /\ Running = {}
  /\ loop' = "progress"
  /\ UNCHANGED <<tables, runners, stopping, inflight, world>>

-----------------------------------------------------------------------------
(* TaskRunner.run, up to the plugin's invocation *)

\* TaskRunner.run returns or raises; done callbacks drop it from _running.
RunEnds(t) ==
  /\ Goto(t, "idle")
  /\ cancelRequests' = cancelRequests \ {t}
  /\ outcome' = [outcome EXCEPT ![t] = "none"]

\* The first check that fails decides the state a task ends in unclaimed.
RefusedAs(t) ==
  CASE t \in expired -> "skipped"
    [] t \notin expired /\ inbox_tasks[t].payload.kind = "unknown_plugin" -> "blocked"
    [] t \notin expired /\ inbox_tasks[t].payload.kind = "invalid_parameters" -> "rejected"
    [] OTHER -> "none"

\* Expired, unknown plugin or invalid parameters: closed before the claim.
RunRefused(t) ==
  /\ pc[t] = "scheduled" /\ Scheduled(t) /\ t \notin cancelRequests
  /\ RefusedAs(t) # "none"
  /\ inbox_tasks' = IF CanTransition(t, "queued", RefusedAs(t))
                    THEN SetState(t, RefusedAs(t)) ELSE inbox_tasks
  /\ RunEnds(t)
  /\ UNCHANGED <<idempotency_effects, task_attempts, outboxes, intake,
                 scheduler, token, world>>

\* claim_task succeeds on a queued task whose key nobody has claimed.
Claimable(t) ==
  /\ inbox_tasks[t].state = "queued"
  /\ ~ idempotency_effects[KeyOf(t)].claimed

RunClaims(t) ==
  /\ pc[t] = "scheduled" /\ Scheduled(t) /\ t \notin cancelRequests
  /\ RefusedAs(t) = "none"
  /\ IF Claimable(t)
     THEN /\ idempotency_effects' =
               [idempotency_effects EXCEPT ![KeyOf(t)].claimed = TRUE]
          /\ inbox_tasks' = SetState(t, "preparing")
          /\ task_attempts' = [task_attempts EXCEPT ![t].claimed = TRUE]
          /\ Goto(t, "claimed")
          /\ UNCHANGED <<cancelRequests, outcome>>
     ELSE /\ RunEnds(t)
          /\ UNCHANGED <<rows>>
  /\ UNCHANGED <<outboxes, intake, scheduler, token, world>>

\* PREPARING -> RUNNING, then the cancellation token is registered.
RunRegisters(t) ==
  /\ pc[t] = "claimed"
  /\ IF CanTransition(t, "preparing", "running")
     THEN /\ inbox_tasks' = SetState(t, "running")
          /\ token' = [token EXCEPT ![t] = "live"]
          /\ Goto(t, "registered")
          /\ UNCHANGED <<cancelRequests, outcome>>
     ELSE RunEnds(t) /\ UNCHANGED <<inbox_tasks, token>>
  /\ UNCHANGED <<idempotency_effects, task_attempts, outboxes, intake,
                 scheduler, world>>

\* mark_invoked refuses a second invocation of the same attempt.
RunMarksInvoked(t) ==
  /\ pc[t] = "registered"
  /\ IF task_attempts[t].claimed /\ ~ task_attempts[t].invoked
     THEN /\ task_attempts' = [task_attempts EXCEPT ![t].invoked = TRUE]
          /\ Goto(t, "marked")
          /\ UNCHANGED <<cancelRequests, outcome>>
     ELSE RunEnds(t) /\ UNCHANGED task_attempts
  /\ UNCHANGED <<inbox_tasks, idempotency_effects, outboxes, intake, scheduler,
                 token, world>>

RunInvokes(t) ==
  /\ pc[t] = "marked"
  /\ invocations' = [invocations EXCEPT ![t] = @ + 1]
  /\ Goto(t, "executing")
  /\ UNCHANGED <<tables, scheduler, token, cancelRequests, outcome, server,
                 expired, stops>>

-----------------------------------------------------------------------------
(* The plugin, and what TaskRunner.run makes of its end *)

\* The progress callback: sequence is a counter local to this run.
PluginReports(t) ==
  /\ pc[t] = "executing" /\ Scheduled(t)
  /\ \E n \in Events :
       /\ outbox_progress[t][n] = "absent"
       /\ \A m \in 1 .. n - 1 : outbox_progress[t][m] # "absent"
       /\ outbox_progress' = [outbox_progress EXCEPT ![t][n] = "pending"]
  /\ UNCHANGED <<rows, outbox_results, pending_uploads, intake, scheduler,
                 runners, world>>

\* An artifact is staged and its upload row inserted (ensure_artifact_queued).
PluginQueuesUpload(t) ==
  /\ pc[t] = "executing" /\ Scheduled(t)
  /\ t \in Uploaders
  /\ pending_uploads[t] = "absent"
  /\ pending_uploads' = [pending_uploads EXCEPT ![t] = "pending"]
  /\ UNCHANGED <<rows, outbox_progress, outbox_results, intake, scheduler,
                 runners, world>>

\* execute returned a result or raised an ordinary exception: no transition.
PluginReturns(t, final) ==
  /\ pc[t] = "executing" /\ Scheduled(t)
  /\ final \in {"completed", "failed"}
  /\ outcome' = [outcome EXCEPT ![t] = final]
  /\ Goto(t, "settling")
  /\ cancelRequests' = cancelRequests \ {t}
  /\ UNCHANGED <<tables, scheduler, token, world>>

\* TimeoutError, or CancelledError (from the plugin once its token is set, or
\* delivered by asyncio): the token is set and RUNNING -> CANCEL_REQUESTED.
PluginStopped(t, final) ==
  /\ pc[t] = "executing" /\ Scheduled(t)
  /\ \/ final = "failed"
     \/ final = "cancelled" /\ (token[t] = "cancelled" \/ t \in cancelRequests)
  /\ token' = [token EXCEPT ![t] = "cancelled"]
  /\ IF CanTransition(t, "running", "cancel_requested")
     THEN /\ inbox_tasks' = SetState(t, "cancel_requested")
          /\ outcome' = [outcome EXCEPT ![t] = final]
          /\ Goto(t, "settling")
          /\ cancelRequests' = cancelRequests \ {t}
     ELSE RunEnds(t) /\ UNCHANGED inbox_tasks
  /\ UNCHANGED <<idempotency_effects, task_attempts, outboxes, intake,
                 scheduler, world>>

\* current = CANCEL_REQUESTED if token.cancelled else RUNNING.  The token may
\* have been set by cancel() alone: then the row still says running, the
\* compare-and-set fails and StateConflictError ends the coroutine here.
RunSettles(t) ==
  LET current == IF token[t] = "cancelled" THEN "cancel_requested" ELSE "running"
  IN  /\ pc[t] = "settling"
      /\ IF CanTransition(t, current, "cleaning_up")
         THEN /\ inbox_tasks' = SetState(t, "cleaning_up")
              /\ Goto(t, "cleaning")
              /\ UNCHANGED <<cancelRequests, outcome>>
         ELSE RunEnds(t) /\ UNCHANGED inbox_tasks
      /\ UNCHANGED <<idempotency_effects, task_attempts, outboxes, intake,
                     scheduler, token, world>>

-----------------------------------------------------------------------------
(* TaskRunner.run: cleanup and result *)

RunRequestsCleanup(t) ==
  /\ pc[t] = "cleaning"
  /\ task_attempts' = [task_attempts EXCEPT ![t].cleanup_requested = TRUE]
  /\ Goto(t, "cleanup")
  /\ UNCHANGED <<inbox_tasks, idempotency_effects, outboxes, intake, scheduler,
                 token, cancelRequests, outcome, world>>

\* complete_cleanup counts the attempt and dates only a successful one.
CompleteCleanup(row, succeeded) ==
  [row EXCEPT !.cleanup_attempts = @ + 1,
              !.cleanup_completed = IF succeeded THEN TRUE ELSE @]

\* Variant: the reason "cleanup_failed" is stored as the final state.
CleanupEnds_ReasonAsState(t, succeeded) ==
  /\ pc[t] = "cleanup" /\ Scheduled(t)
  /\ task_attempts' = [task_attempts EXCEPT
       ![t] = CompleteCleanup(task_attempts[t], succeeded)]
  /\ outcome' = IF succeeded THEN outcome ELSE [outcome EXCEPT ![t] = "cleanup_failed"]
  /\ Goto(t, "finishing")
  /\ UNCHANGED <<inbox_tasks, idempotency_effects, outboxes, intake, scheduler,
                 token, cancelRequests, world>>

\* plugin.cleanup returned (succeeded) or raised / timed out (~succeeded).
CleanupEnds(t, succeeded) ==
  /\ pc[t] = "cleanup" /\ Scheduled(t)
  /\ task_attempts' = [task_attempts EXCEPT
       ![t] = CompleteCleanup(task_attempts[t], succeeded)]
  /\ outcome' = IF succeeded THEN outcome ELSE [outcome EXCEPT ![t] = "failed"]
  /\ Goto(t, "finishing")
  /\ UNCHANGED <<inbox_tasks, idempotency_effects, outboxes, intake, scheduler,
                 token, cancelRequests, world>>

\* CancelledError delivered while the coroutine waits (before it ever ran, or
\* in plugin.cleanup, whose handler catches only Exception) ends run().
RunCancelled(t) ==
  /\ pc[t] \in {"scheduled", "cleanup"} /\ Scheduled(t)
  /\ t \in cancelRequests
  /\ RunEnds(t)
  /\ UNCHANGED <<tables, scheduler, token, world>>

\* finish_with_result: state, result row, effect and attempt in one commit.
RunFinishes(t) ==
  /\ pc[t] = "finishing"
  /\ IF CanTransition(t, "cleaning_up", outcome[t])
     THEN /\ inbox_tasks' = SetState(t, outcome[t])
          /\ outbox_results' = [outbox_results EXCEPT ![t] =
               [state |-> "pending", local_state |-> outcome[t]]]
          /\ idempotency_effects' =
               [idempotency_effects EXCEPT ![KeyOf(t)].terminal = outcome[t]]
          /\ task_attempts' = [task_attempts EXCEPT ![t].finished = TRUE]
          /\ token' = [token EXCEPT ![t] = "none"]
     ELSE UNCHANGED <<rows, outbox_results, token>>
  /\ RunEnds(t)
  /\ UNCHANGED <<outbox_progress, pending_uploads, intake, scheduler, world>>

-----------------------------------------------------------------------------
(* TaskRunner.cancel and Scheduler.shutdown *)

Cancel(t) ==
  /\ Cancellation /\ loop # "down" /\ AtAwait
  /\ token[t] = "live"
  /\ token' = [token EXCEPT ![t] = "cancelled"]
  /\ UNCHANGED <<tables, scheduler, pc, cancelRequests, outcome, world>>

\* _stopping is set and every running task's token is cancelled.
Shutdown ==
  /\ Cancellation /\ loop # "down" /\ AtAwait
  /\ stopping = "no"
  /\ stops < MaxStops
  /\ stops' = stops + 1
  /\ stopping' = IF Running = {} THEN "requested" ELSE "waiting"
  /\ token' = [t \in Tasks |->
       IF t \in Running /\ token[t] = "live" THEN "cancelled" ELSE token[t]]
  /\ UNCHANGED <<tables, loop, pc, cancelRequests, outcome, inflight, server,
                 expired, invocations>>

\* shutdown_grace_seconds passed: what still runs is cancelled.
GraceExpires ==
  /\ stopping = "waiting" /\ AtAwait
  /\ stopping' = "cancelled"
  /\ cancelRequests' = cancelRequests \union Running
  /\ UNCHANGED <<tables, loop, pc, token, outcome, inflight, world>>

-----------------------------------------------------------------------------
(* Scheduler._sync_outboxes: publish, then confirm, channel by channel *)

\* pending_outbox orders rows by insertion time: a task's events in sequence.
NextEvent(t, n) ==
  /\ outbox_progress[t][n] = "pending"
  /\ \A m \in 1 .. n - 1 : outbox_progress[t][m] # "pending"

\* The server has the event; its acknowledgement arrives or is lost.
PublishProgress(t, n) ==
  /\ loop = "progress"
  /\ NextEvent(t, n)
  /\ srvProgress' = [srvProgress EXCEPT ![t] = @ \union {n}]
  /\ \/ /\ loop' = "confirm"
        /\ inflight' = [channel |-> "progress", task |-> t, sequence |-> n]
     \/ loop' = "sleep" /\ UNCHANGED inflight
  /\ UNCHANGED <<tables, runners, stopping, srvResults, srvUploads, expired,
                 stops, invocations>>

PublishResult(t) ==
  /\ loop = "results"
  /\ outbox_results[t].state = "pending"
  /\ srvResults' = [srvResults EXCEPT ![t] =
                      @ \union {outbox_results[t].local_state}]
  /\ \/ loop' = "confirm" /\ inflight' = [channel |-> "results", task |-> t]
     \/ loop' = "sleep" /\ UNCHANGED inflight
  /\ UNCHANGED <<tables, runners, stopping, srvProgress, srvUploads, expired,
                 stops, invocations>>

PublishUpload(t) ==
  /\ loop = "uploads"
  /\ pending_uploads[t] = "pending"
  /\ srvUploads' = srvUploads \union {t}
  /\ \/ loop' = "confirm" /\ inflight' = [channel |-> "uploads", task |-> t]
     \/ loop' = "sleep" /\ UNCHANGED inflight
  /\ UNCHANGED <<tables, runners, stopping, srvProgress, srvResults, expired,
                 stops, invocations>>

\* confirm_outbox, after which the next row of the same channel is taken.
Confirm ==
  /\ loop = "confirm"
  /\ CASE inflight.channel = "progress" ->
            /\ outbox_progress' = [outbox_progress EXCEPT
                 ![inflight.task][inflight.sequence] = "confirmed"]
            /\ UNCHANGED <<outbox_results, pending_uploads>>
       [] inflight.channel = "results" ->
            /\ outbox_results' = [outbox_results EXCEPT
                 ![inflight.task].state = "confirmed"]
            /\ UNCHANGED <<outbox_progress, pending_uploads>>
       [] inflight.channel = "uploads" ->
            /\ pending_uploads' = [pending_uploads EXCEPT
                 ![inflight.task] = "confirmed"]
            /\ UNCHANGED <<outbox_progress, outbox_results>>
  /\ loop' = inflight.channel
  /\ inflight' = NoFlight
  /\ UNCHANGED <<rows, intake, runners, stopping, world>>

\* A channel's loop ends when none of its rows is pending.
ChannelDone(channel) ==
  CASE channel = "progress" ->
         \A t \in Tasks, n \in Events : outbox_progress[t][n] # "pending"
    [] channel = "results" -> \A t \in Tasks : outbox_results[t].state # "pending"
    [] channel = "uploads" -> \A t \in Tasks : pending_uploads[t] # "pending"

\* Variant: the results channel is skipped.
NextChannel_SkipsResults(channel) ==
  IF channel = "progress" THEN "uploads" ELSE "sleep"

NextChannel(channel) ==
  CASE channel = "progress" -> "results"
    [] channel = "results" -> "uploads"
    [] channel = "uploads" -> "sleep"

\* A publication never reached the server: TransportError ends the pass.
PublishFails ==
  /\ loop \in Channels
  /\ ~ ChannelDone(loop)
  /\ loop' = "sleep"
  /\ UNCHANGED <<tables, runners, stopping, inflight, world>>

SyncAdvances ==
  /\ loop \in Channels
  /\ ChannelDone(loop)
  /\ loop' = NextChannel(loop)
  /\ UNCHANGED <<tables, runners, stopping, inflight, world>>

-----------------------------------------------------------------------------
(* The environment *)

Expire(t) ==
  /\ t \in Expirable \ expired
  /\ inbox_tasks[t].state = "queued"     \* expiry matters only while queued
  /\ expired' = expired \union {t}
  /\ UNCHANGED <<tables, scheduler, runners, server, stops, invocations>>

CorruptRow(t) ==
  /\ t \in Corruptible
  /\ inbox_tasks[t].state = "queued" /\ pc[t] = "idle"
  /\ inbox_tasks[t].intact
  /\ inbox_tasks' = [inbox_tasks EXCEPT ![t].intact = FALSE]
  /\ UNCHANGED <<idempotency_effects, task_attempts, outboxes, intake,
                 scheduler, runners, world>>

-----------------------------------------------------------------------------

\* wait_for bounds plugin.execute by max_timeout_seconds and plugin.cleanup by
\* 10 seconds, so a coroutine always reaches its next step.
RunAdvances(t) ==
  \/ RunRefused(t)
  \/ RunClaims(t)
  \/ RunRegisters(t)
  \/ RunMarksInvoked(t)
  \/ RunInvokes(t)
  \/ \E final \in {"completed", "failed"} : PluginReturns(t, final)
  \/ \E final \in {"failed", "cancelled"} : PluginStopped(t, final)
  \/ RunSettles(t)
  \/ RunRequestsCleanup(t)
  \/ \E succeeded \in BOOLEAN : CleanupEnds(t, succeeded)
  \/ RunCancelled(t)
  \/ RunFinishes(t)

Publish(t) ==
  \/ \E n \in Events : PublishProgress(t, n)
  \/ PublishResult(t)
  \/ PublishUpload(t)

LoopAdvances ==
  \/ Start \/ Unwound \/ Wake
  \/ \E batch \in SUBSET Queued : Dispatch(batch)
  \/ Gathered \/ Confirm \/ SyncAdvances \/ GraceExpires

Next ==
  \/ LoopAdvances
  \/ Crash \/ Interrupt \/ Shutdown
  \/ FetchFails \/ FetchNone \/ PublishFails
  \/ \E e \in Envelopes : Fetch(e) \/ FetchConflict(e)
  \/ \E t \in Tasks :
       \/ RunAdvances(t) \/ PluginReports(t) \/ PluginQueuesUpload(t)
       \/ Publish(t) \/ Cancel(t) \/ Expire(t) \/ CorruptRow(t)

Spec == Init /\ [][Next]_vars

\* The publication's acknowledgement arrives.
Acknowledged == loop' = "confirm"

\* asyncio runs every ready coroutine and a supervisor restarts the process
\* (weak fairness).  The network is only assumed not to fail every single
\* attempt, and the delivery queue to be found empty now and then (strong
\* fairness): that is what retrying with backoff relies on.
Fairness ==
  /\ WF_vars(LoopAdvances)
  /\ \A t \in Tasks : WF_vars(RunAdvances(t))
  /\ SF_vars(FetchNone)
  /\ SF_vars(\E t \in Tasks : Publish(t) /\ Acknowledged)

FairSpec == Spec /\ Fairness

-----------------------------------------------------------------------------
(* Safety *)

Claimed(t) == task_attempts[t].claimed

\* "Existe un unico claim durable por idempotency_key": two tasks that carry
\* the same key never both hold an attempt row, across duplicates, redelivery
\* and restarts (claim_task, ingest_task).
OneClaimPerKey ==
  \A t, u \in Tasks : Claimed(t) /\ Claimed(u) /\ KeyOf(t) = KeyOf(u) => t = u

\* "Despues del claim, el plugin se invoca como maximo una vez": over all
\* processes and all tasks of one key, plugin.execute is entered at most once.
AtMostOneInvocation ==
  /\ \A t \in Tasks : invocations[t] <= 1
  /\ \A t, u \in Tasks :
       invocations[t] > 0 /\ invocations[u] > 0 /\ KeyOf(t) = KeyOf(u) => t = u

\* "Un crash posterior al claim nunca vuelve a poner la task en queued", and a
\* task once terminal keeps its state: no handler, late coroutine or recovery
\* reopens it.
ClaimNeverRequeued ==
  [][\A t \in Tasks :
       /\ Claimed(t) => inbox_tasks'[t].state # "queued"
       /\ inbox_tasks[t].state \in TerminalStates =>
            inbox_tasks'[t].state = inbox_tasks[t].state]_vars

\* The result row, the task row and the effect row tell one story, and the
\* server never sees a verdict other than the one that is stored: a task has a
\* result row exactly when it ended completed, failed or cancelled
\* (finish_with_result is one transaction; recovery reports nothing).
ResultsAgree ==
  \A t \in Tasks :
    LET row == outbox_results[t] IN
    /\ row.state = "absent" <=> inbox_tasks[t].state \notin ReportedStates
    /\ row.state # "absent" =>
         /\ row.local_state = inbox_tasks[t].state
         /\ idempotency_effects[KeyOf(t)].terminal = row.local_state
    /\ srvResults[t] \subseteq {row.local_state}

\* A result leaves the agent only after cleanup was requested and attempted
\* exactly once, and only a successful cleanup lets it say anything but failed.
CleanupBeforeResult ==
  \A t \in Tasks : outbox_results[t].state # "absent" =>
    /\ task_attempts[t].cleanup_requested
    /\ task_attempts[t].cleanup_attempts = 1
    /\ outbox_results[t].local_state # "failed" => task_attempts[t].cleanup_completed

\* At-least-once: a row is marked confirmed only after the server has it, so
\* no crash or lost acknowledgement drops a progress event, result or upload.
ConfirmedWasDelivered ==
  /\ \A t \in Tasks, n \in Events :
       outbox_progress[t][n] = "confirmed" => n \in srvProgress[t]
  /\ \A t \in Tasks :
       /\ outbox_results[t].state = "confirmed" => srvResults[t] # {}
       /\ pending_uploads[t] = "confirmed" => t \in srvUploads

\* The server sees a task's progress without gaps, and its result only after
\* every progress event the task queued, whatever fails between them.
ProgressPrecedesResult ==
  \A t \in Tasks :
    /\ \A n \in srvProgress[t] : \A m \in 1 .. n : m \in srvProgress[t]
    /\ srvResults[t] # {} =>
         \A n \in Events : outbox_progress[t][n] # "absent" => n \in srvProgress[t]

\* The scheduler never has more coroutines than max_concurrency, although the
\* limit is computed before rows are read and coroutines end at any time.
WithinConcurrency == Cardinality(Running) <= MaxConcurrency

\* What the scheduler promises of the rows and coroutines it handles
\* (scheduler.py:40-110).
SchedulerInOrder == ConfirmedWasDelivered /\ ProgressPrecedesResult /\ WithinConcurrency

\* While the process lives, a claimed task is abandoned without a terminal
\* state only because somebody cancelled it.
AbandonedOnlyByCancellation ==
  \A t \in Tasks :
    loop # "down" /\ inbox_tasks[t].state \in ActiveStates /\ pc[t] = "idle"
      => token[t] = "cancelled" \/ loop = "unwinding" \/ stopping # "no"

\* What a run leaves in the tables, however it ended: one story in all of them,
\* cleanup before the result, and no claimed task left over unless cancelled
\* (task_runner.py:57-128).
RunsAccounted == ResultsAgree /\ CleanupBeforeResult /\ AbandonedOnlyByCancellation

-----------------------------------------------------------------------------
(* Liveness, under Fairness *)

\* What cancel() may leave behind while the process lives: it sets the token
\* without touching the row, the plugin returns all the same, and run() ends at
\* StateConflictError with the row still RUNNING (task_runner.py:101).  A plugin
\* that times out or is cancelled moves its row on and does not come here.
LeftByCancel(t) ==
  inbox_tasks[t].state = "running" /\ token[t] = "cancelled" /\ pc[t] = "idle"

\* Every accepted task leaves the queue and comes to an end: it is refused, or
\* claimed and then reported, or interrupted at a restart, over timeouts, a
\* shutdown and its grace period; only cancel() may leave one RUNNING.
AcceptedSettles ==
  \A t \in Tasks : inbox_tasks[t].state \in {"queued"} \union ActiveStates
                     ~> inbox_tasks[t].state \in TerminalStates \/ LeftByCancel(t)

\* "Resultados ya persistidos permanecen en outbox hasta ack", and the ack
\* eventually comes: head-of-line retries never starve a result.
ResultsDelivered ==
  \A t \in Tasks : outbox_results[t].state = "pending"
                     ~> outbox_results[t].state = "confirmed"

-----------------------------------------------------------------------------
(* The promise per idempotency key *)

Canonical(k) == idempotency_effects[k].canonical

LedgerStatus(k) ==
  IF Canonical(k) = NoTask THEN "free"
  ELSE LET s == inbox_tasks[Canonical(k)].state
       IN  IF s = "queued" THEN "accepted"
           ELSE IF s \in ActiveStates THEN "claimed" ELSE "closed"

Ledger == INSTANCE EffectLedger WITH
  Verdicts <- ReportedStates,
  NoVerdict <- "none",
  status <- [k \in Keys |-> LedgerStatus(k)],
  ran <- {k \in Keys : \E t \in Tasks : invocations[t] > 0 /\ KeyOf(t) = k},
  verdict <- [k \in Keys |-> idempotency_effects[k].terminal],
  delivered <- [k \in Keys |-> UNION {srvResults[t] : t \in
                  {u \in Tasks : srvResults[u] # {} /\ KeyOf(u) = k}}]

\* The agent implements the per-key ledger: accepted, claimed, run, reported
\* and delivered once each, whatever crashes or is redelivered.
ImplementsLedger == Ledger!Spec
=============================================================================
