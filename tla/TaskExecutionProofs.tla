------------------------ MODULE TaskExecutionProofs ------------------------
(***************************************************************************)
(* Proofs about TaskExecution for every set of tasks, keys, effects and     *)
(* envelopes and every bound: that a task is claimed and invoked once, and, *)
(* on that invariant, what a run leaves behind and what the server is told. *)
(***************************************************************************)
EXTENDS TaskExecution, FiniteSetTheorems, TLAPS

-----------------------------------------------------------------------------
(* The inductive invariant: one claim and one invocation of a task *)

\* A stored row carries an envelope of its own task_id.
RowsOK ==
  \A t \in Tasks : inbox_tasks[t].state # "absent" =>
    inbox_tasks[t].payload \in Envelopes /\ inbox_tasks[t].payload.task_id = t

\* Task t is the canonical task of its key.
Owns(t) == Canonical(KeyOf(t)) = t

\* A queued task owns an unclaimed key; a claimed one owns a claimed key and
\* has left the queue for good; an active one is claimed.
ClaimsOK ==
  \A t \in Tasks :
    /\ inbox_tasks[t].state = "queued" =>
         Owns(t) /\ ~ idempotency_effects[KeyOf(t)].claimed /\ ~ Claimed(t)
    /\ Claimed(t) =>
         /\ inbox_tasks[t].state \in ActiveStates \union ExecutionTerminal
         /\ Owns(t)
    /\ inbox_tasks[t].state \in ActiveStates => Claimed(t)

\* invoked_at is written before the plugin is entered, and only once.
RunsOK ==
  \A t \in Tasks :
    /\ pc[t] # "idle" => inbox_tasks[t].state # "absent"
    /\ pc[t] = "marked" => task_attempts[t].invoked /\ invocations[t] = 0
    /\ task_attempts[t].invoked => Claimed(t)
    /\ ~ task_attempts[t].invoked => invocations[t] = 0
    /\ invocations[t] <= 1

\* A result row has a reported state; a confirmation has a row to confirm.
OutboxOK ==
  /\ \A t \in Tasks : outbox_results[t].state # "absent" =>
       outbox_results[t].local_state \in ReportedStates
  /\ loop = "confirm" =>
       /\ inflight \in Flights
       /\ inflight.channel = "results" => outbox_results[inflight.task].state # "absent"

IInv == TypeOK /\ RowsOK /\ ClaimsOK /\ RunsOK /\ OutboxOK

-----------------------------------------------------------------------------

LEMMA InitIInv == Init => IInv
<1> SUFFICES ASSUME Init PROVE IInv
  OBVIOUS
<1>1. TypeOK
  BY EnvelopesAssumption, BoundsAssumption
  DEF Init, TypeOK, RowsType, OutboxesType, IntakeType, RunnersType,
      SchedulerType, WorldType, InboxRow, EffectRow, AttemptRow, ResultRow, RowStates,
      TaskState, LoopPCs, RunnerPCs, NoFlight
<1>2. RowsOK /\ ClaimsOK /\ RunsOK /\ OutboxOK
  BY DEF Init, RowsOK, ClaimsOK, Claimed, RunsOK, OutboxOK, ActiveStates,
         ExecutionTerminal
<1> QED
  BY <1>1, <1>2 DEF IInv

-----------------------------------------------------------------------------
(* Typing, one group of variables at a time *)

\* Rewriting one field of one row keeps a table in its type.
LEMMA InboxUpdate ==
  ASSUME inbox_tasks \in [Tasks -> InboxRow], NEW t \in Tasks,
         NEW target \in TaskState
  PROVE  SetState(t, target) \in [Tasks -> InboxRow]
  BY DEF SetState, InboxRow

LEMMA CleanupUpdate ==
  ASSUME NEW row \in AttemptRow, NEW succeeded \in BOOLEAN
  PROVE  CompleteCleanup(row, succeeded) \in AttemptRow
<1> DEFINE counted == [row EXCEPT !.cleanup_attempts = @ + 1]
<1>1. counted \in AttemptRow
  BY DEF AttemptRow
<1>2. [counted EXCEPT !.cleanup_completed = TRUE] \in AttemptRow
  <2> HIDE DEF counted
  <2> QED
    BY <1>1 DEF AttemptRow
<1>3. CompleteCleanup(row, succeeded) =
        IF succeeded THEN [counted EXCEPT !.cleanup_completed = TRUE] ELSE counted
  BY DEF CompleteCleanup, AttemptRow
<1> QED
  BY <1>1, <1>2, <1>3

LEMMA RowsTypeStep ==
  ASSUME IInv, [Next]_vars
  PROVE  RowsType'
<1> USE DEF IInv, TypeOK
<1>1. CASE Start
  <2>1. inbox_tasks' \in [Tasks -> InboxRow]
    BY <1>1 DEF Start, InterruptedRow, RowsType, InboxRow, TaskState,
                TerminalStates, ExecutionTerminal
  <2>2. task_attempts' \in [Tasks -> AttemptRow]
    BY <1>1 DEF Start, InterruptedAttempt, RowsType, AttemptRow
  <2> QED
    BY <1>1, <2>1, <2>2 DEF Start, RowsType
<1>2. ASSUME NEW e \in Envelopes, Fetch(e)
      PROVE  RowsType'
  <2>1. e.task_id \in Tasks /\ e.idempotency_key \in Keys /\ e.effect \in Effects
    BY EnvelopesAssumption
  <2>2. \A s \in {"queued", "duplicate", "blocked"} : NewRow(e, s) \in InboxRow
    BY DEF NewRow, InboxRow, TaskState, TerminalStates, PreExecutionTerminal,
           IntakeType
  <2>3. CASE IngestNew(e)
    BY <1>2, <2>1, <2>2, <2>3 DEF Fetch, IngestNew, RowsType, EffectRow
  <2>4. CASE IngestRepeat(e)
    BY <1>2, <2>1, <2>2, <2>4 DEF Fetch, IngestRepeat, RowsType
  <2> QED
    BY <1>2, <2>3, <2>4 DEF Fetch
<1>3. ASSUME NEW batch \in SUBSET Queued, Dispatch(batch)
      PROVE  RowsType'
  <2>1. inbox_tasks' \in [Tasks -> InboxRow]
    BY <1>3 DEF Dispatch, RowsType, InboxRow, TaskState, TerminalStates,
                PreExecutionTerminal
  <2> QED
    BY <1>3, <2>1 DEF Dispatch, RowsType
<1>4. ASSUME NEW t \in Tasks, RunRefused(t)
      PROVE  RowsType'
  <2>1. RefusedAs(t) # "none" => RefusedAs(t) \in TaskState
    BY DEF RefusedAs, TaskState, TerminalStates, PreExecutionTerminal
  <2> QED
    BY <1>4, <2>1, InboxUpdate DEF RunRefused, RowsType
<1>5. ASSUME NEW t \in Tasks, RunClaims(t)
      PROVE  RowsType'
  <2>1. SetState(t, "preparing") \in [Tasks -> InboxRow]
    BY InboxUpdate DEF RowsType, TaskState, ActiveStates
  <2>2. [idempotency_effects EXCEPT ![KeyOf(t)].claimed = TRUE]
          \in [Keys -> EffectRow]
    BY DEF RowsType, EffectRow
  <2>3. [task_attempts EXCEPT ![t].claimed = TRUE] \in [Tasks -> AttemptRow]
    BY DEF RowsType, AttemptRow
  <2> QED
    BY <1>5, <2>1, <2>2, <2>3 DEF RunClaims, RowsType, rows
<1>6. ASSUME NEW t \in Tasks,
             RunRegisters(t) \/ RunSettles(t)
             \/ \E final \in {"failed", "cancelled"} : PluginStopped(t, final)
      PROVE  RowsType'
  <2>1. /\ SetState(t, "running") \in [Tasks -> InboxRow]
        /\ SetState(t, "cleaning_up") \in [Tasks -> InboxRow]
        /\ SetState(t, "cancel_requested") \in [Tasks -> InboxRow]
    BY InboxUpdate DEF RowsType, TaskState, ActiveStates
  <2> QED
    BY <1>6, <2>1 DEF RunRegisters, RunSettles, PluginStopped, RowsType
<1>7. ASSUME NEW t \in Tasks, RunMarksInvoked(t)
      PROVE  RowsType'
  <2>1. [task_attempts EXCEPT ![t].invoked = TRUE] \in [Tasks -> AttemptRow]
    BY DEF RowsType, AttemptRow
  <2> QED
    BY <1>7, <2>1 DEF RunMarksInvoked, RowsType
<1>8. ASSUME NEW t \in Tasks, RunRequestsCleanup(t)
      PROVE  RowsType'
  <2>1. [task_attempts EXCEPT ![t].cleanup_requested = TRUE]
          \in [Tasks -> AttemptRow]
    BY DEF RowsType, AttemptRow
  <2> QED
    BY <1>8, <2>1 DEF RunRequestsCleanup, RowsType
<1>9. ASSUME NEW t \in Tasks, NEW succeeded \in BOOLEAN, CleanupEnds(t, succeeded)
      PROVE  RowsType'
  <2>1. CompleteCleanup(task_attempts[t], succeeded) \in AttemptRow
    BY CleanupUpdate DEF RowsType
  <2> QED
    BY <1>9, <2>1 DEF CleanupEnds, RowsType
<1>10. ASSUME NEW t \in Tasks, RunFinishes(t)
       PROVE  RowsType'
  <2>1. CASE ~ CanTransition(t, "cleaning_up", outcome[t])
    BY <1>10, <2>1 DEF RunFinishes, RowsType, rows
  <2>2. CASE CanTransition(t, "cleaning_up", outcome[t])
    <3>1. outcome[t] \in ReportedStates
      BY <2>2 DEF CanTransition, AllowedTransitions, RunnersType,
                  ExecutionTerminal, ReportedStates
    <3>2. SetState(t, outcome[t]) \in [Tasks -> InboxRow]
      BY <3>1, InboxUpdate DEF RowsType, TaskState, TerminalStates,
                               ExecutionTerminal, ReportedStates
    <3>3. [idempotency_effects EXCEPT ![KeyOf(t)].terminal = outcome[t]]
            \in [Keys -> EffectRow]
      BY <3>1 DEF RowsType, EffectRow
    <3>4. [task_attempts EXCEPT ![t].finished = TRUE] \in [Tasks -> AttemptRow]
      BY DEF RowsType, AttemptRow
    <3> QED
      BY <1>10, <2>2, <3>2, <3>3, <3>4 DEF RunFinishes, RowsType
  <2> QED
    BY <2>1, <2>2
<1>11. ASSUME NEW t \in Tasks, CorruptRow(t)
       PROVE  RowsType'
  BY <1>11 DEF CorruptRow, RowsType, InboxRow
<1>12. CASE UNCHANGED rows
  BY <1>12 DEF RowsType, rows
<1> HIDE DEF IInv, TypeOK
<1> QED
  BY <1>1, <1>2, <1>3, <1>4, <1>5, <1>6, <1>7, <1>8, <1>9, <1>10, <1>11, <1>12
  DEF Next, LoopAdvances, RunAdvances, Publish, vars, tables, Crash, Interrupt,
      Unwound, Wake, FetchFails, FetchNone, FetchConflict, Gathered, RunInvokes,
      PluginReports, PluginQueuesUpload, PluginReturns, RunCancelled, Cancel,
      Shutdown, GraceExpires, PublishProgress, PublishResult, PublishUpload,
      Confirm, PublishFails, SyncAdvances, Expire, rows

LEMMA FlightTask ==
  ASSUME NEW f \in Flights
  PROVE  /\ f.task \in Tasks
         /\ f.channel \in Channels
         /\ f.channel = "progress" => f.sequence \in Events
<1>1. CASE f \in [channel : {"progress"}, task : Tasks, sequence : Events]
  BY <1>1 DEF Channels
<1>2. CASE f \in [channel : {"results", "uploads"}, task : Tasks]
  BY <1>2 DEF Channels
<1> QED
  BY <1>1, <1>2 DEF Flights

LEMMA OutboxesTypeStep ==
  ASSUME IInv, [Next]_vars
  PROVE  OutboxesType'
<1> USE DEF IInv, TypeOK
<1>1. ASSUME NEW t \in Tasks, PluginReports(t)
      PROVE  OutboxesType'
  BY <1>1 DEF PluginReports, OutboxesType, RowStates
<1>2. ASSUME NEW t \in Tasks, PluginQueuesUpload(t)
      PROVE  OutboxesType'
  BY <1>2 DEF PluginQueuesUpload, OutboxesType, RowStates
<1>3. ASSUME NEW t \in Tasks, RunFinishes(t)
      PROVE  OutboxesType'
  <2>1. CASE ~ CanTransition(t, "cleaning_up", outcome[t])
    BY <1>3, <2>1 DEF RunFinishes, OutboxesType
  <2>2. CASE CanTransition(t, "cleaning_up", outcome[t])
    <3>1. outcome[t] \in ReportedStates
      BY <2>2 DEF CanTransition, AllowedTransitions, RunnersType,
                  ExecutionTerminal, ReportedStates
    <3> QED
      BY SMTT(30), <1>3, <2>2, <3>1 DEF RunFinishes, OutboxesType, ResultRow, RowStates
  <2> QED
    BY <2>1, <2>2
<1>4. CASE Confirm
  <2>1. inflight \in Flights
    BY <1>4 DEF Confirm, OutboxOK
  <2>2. inflight.task \in Tasks
    BY <2>1, FlightTask
  <2>3. CASE inflight.channel = "progress"
    <3>1. inflight.sequence \in Events
      BY <2>1, <2>3, FlightTask
    <3>2. [outbox_progress EXCEPT ![inflight.task][inflight.sequence] = "confirmed"]
            \in [Tasks -> [Events -> RowStates]]
      BY <2>2, <3>1 DEF OutboxesType, RowStates
    <3> QED
      BY <1>4, <2>3, <3>2 DEF Confirm, OutboxesType
  <2>4. CASE inflight.channel = "results"
    <3>1. [outbox_results EXCEPT ![inflight.task].state = "confirmed"]
            \in [Tasks -> ResultRow]
      BY <2>2 DEF OutboxesType, ResultRow, RowStates
    <3> QED
      BY <1>4, <2>4, <3>1 DEF Confirm, OutboxesType
  <2>5. CASE inflight.channel = "uploads"
    BY <1>4, <2>2, <2>5 DEF Confirm, OutboxesType, RowStates
  <2> QED
    BY <2>1, <2>3, <2>4, <2>5, FlightTask DEF Channels
<1>5. CASE UNCHANGED outboxes
  BY <1>5 DEF OutboxesType, outboxes
<1> HIDE DEF IInv, TypeOK
<1> QED
  BY <1>1, <1>2, <1>3, <1>4, <1>5
  DEF Next, LoopAdvances, RunAdvances, Publish, vars, tables, Start, Crash,
      Interrupt, Unwound, Wake, FetchFails, FetchNone, Fetch, FetchConflict,
      Dispatch, Gathered, RunRefused, RunClaims, RunRegisters, RunMarksInvoked,
      RunInvokes, PluginReturns, PluginStopped, RunSettles, RunRequestsCleanup,
      CleanupEnds, RunCancelled, Cancel, Shutdown, GraceExpires,
      PublishProgress, PublishResult, PublishUpload, PublishFails,
      SyncAdvances, Expire, CorruptRow, outboxes

LEMMA IntakeTypeStep ==
  ASSUME IInv, [Next]_vars
  PROVE  IntakeType'
<1> USE DEF IInv, TypeOK
<1>1. ASSUME NEW e \in Envelopes, Fetch(e)
      PROVE  IntakeType'
  BY <1>1 DEF Fetch, IntakeType
<1>2. ASSUME NEW e \in Envelopes, FetchConflict(e)
      PROVE  IntakeType'
  BY <1>2, EnvelopesAssumption DEF FetchConflict, IntakeType
<1>3. ASSUME NEW batch \in SUBSET Queued, Dispatch(batch)
      PROVE  IntakeType'
  BY <1>3 DEF Dispatch, IntakeType, Queued
<1>4. CASE UNCHANGED intake
  BY <1>4 DEF IntakeType, intake
<1> HIDE DEF IInv, TypeOK
<1> QED
  BY ZenonT(60), <1>1, <1>2, <1>3, <1>4
  DEF Next, LoopAdvances, RunAdvances, Publish, vars, tables, Start, Crash,
      Interrupt, Unwound, Wake, FetchFails, FetchNone, Gathered, RunRefused,
      RunClaims, RunRegisters, RunMarksInvoked, RunInvokes, PluginReports,
      PluginQueuesUpload, PluginReturns, PluginStopped, RunSettles,
      RunRequestsCleanup, CleanupEnds, RunCancelled, RunFinishes, Cancel,
      Shutdown, GraceExpires, PublishProgress, PublishResult, PublishUpload,
      Confirm, PublishFails, SyncAdvances, Expire, CorruptRow, intake

LEMMA RunnersTypeStep ==
  ASSUME IInv, [Next]_vars
  PROVE  RunnersType'
<1> USE DEF IInv, TypeOK, RunnerPCs, Synchronous
<1>1. CASE ProcessEnds
  BY <1>1 DEF ProcessEnds, RunnersType
<1>2. CASE Interrupt \/ GraceExpires \/ Shutdown
  BY <1>2 DEF Interrupt, GraceExpires, Shutdown, Running, RunnersType
<1>3. ASSUME NEW batch \in SUBSET Queued, Dispatch(batch)
      PROVE  RunnersType'
  BY <1>3 DEF Dispatch, RunnersType
<1>4. ASSUME NEW t \in Tasks, RunEnds(t), UNCHANGED token
      PROVE  RunnersType'
  BY <1>4 DEF RunEnds, Goto, RunnersType
<1>5. ASSUME NEW t \in Tasks,
             RunClaims(t) \/ RunRegisters(t) \/ RunMarksInvoked(t)
               \/ RunInvokes(t) \/ RunRequestsCleanup(t) \/ RunSettles(t)
      PROVE  RunnersType'
  BY <1>4, <1>5 DEF RunClaims, RunRegisters, RunMarksInvoked, RunInvokes,
       RunRequestsCleanup, RunSettles, Goto, RunnersType
<1>6. ASSUME NEW t \in Tasks, NEW final \in {"completed", "failed"},
             PluginReturns(t, final)
      PROVE  RunnersType'
  BY <1>6 DEF PluginReturns, Goto, RunnersType, ReportedStates
<1>7. ASSUME NEW t \in Tasks, NEW final \in {"failed", "cancelled"},
             PluginStopped(t, final)
      PROVE  RunnersType'
  BY <1>7 DEF PluginStopped, RunEnds, Goto, RunnersType, ReportedStates
<1>8. ASSUME NEW t \in Tasks, NEW succeeded \in BOOLEAN, CleanupEnds(t, succeeded)
      PROVE  RunnersType'
  BY <1>8 DEF CleanupEnds, Goto, RunnersType, ReportedStates
<1>9. ASSUME NEW t \in Tasks, RunFinishes(t)
      PROVE  RunnersType'
  BY <1>9 DEF RunFinishes, RunEnds, Goto, RunnersType
<1>10. ASSUME NEW t \in Tasks, Cancel(t)
       PROVE  RunnersType'
  BY <1>10 DEF Cancel, RunnersType
<1>11. CASE UNCHANGED runners
  BY <1>11 DEF RunnersType, runners
<1> HIDE DEF IInv, TypeOK
<1> QED
  BY <1>1, <1>2, <1>3, <1>4, <1>5, <1>6, <1>7, <1>8, <1>9, <1>10, <1>11
  DEF Next, LoopAdvances, RunAdvances, Publish, vars, Start, Crash, Unwound,
      Wake, FetchFails, FetchNone, Fetch, FetchConflict, Gathered, RunRefused,
      PluginReports, PluginQueuesUpload, RunCancelled, PublishProgress,
      PublishResult, PublishUpload, Confirm, PublishFails, SyncAdvances,
      Expire, CorruptRow, runners

LEMMA SchedulerTypeStep ==
  ASSUME IInv, [Next]_vars
  PROVE  SchedulerType'
<1> USE DEF IInv, TypeOK, LoopPCs, Channels
<1>1. CASE ProcessEnds
  BY <1>1 DEF ProcessEnds, SchedulerType
<1>2. CASE Start \/ Interrupt \/ Wake \/ FetchFails \/ FetchNone \/ Gathered
           \/ PublishFails \/ Shutdown \/ GraceExpires
  BY <1>1, <1>2 DEF Start, Interrupt, Wake, FetchFails, FetchNone, Gathered,
       PublishFails, Shutdown, GraceExpires, SchedulerType
<1>3. ASSUME NEW batch \in SUBSET Queued, Dispatch(batch)
      PROVE  SchedulerType'
  BY <1>3 DEF Dispatch, SchedulerType
<1>4. CASE SyncAdvances
  BY <1>4 DEF SyncAdvances, NextChannel, SchedulerType
<1>5. ASSUME NEW t \in Tasks, NEW n \in Events, PublishProgress(t, n)
      PROVE  SchedulerType'
  BY <1>5 DEF PublishProgress, SchedulerType, Flights
<1>6. ASSUME NEW t \in Tasks, PublishResult(t) \/ PublishUpload(t)
      PROVE  SchedulerType'
  BY <1>6 DEF PublishResult, PublishUpload, SchedulerType, Flights
<1>7. CASE Confirm
  BY <1>7, FlightTask DEF Confirm, OutboxOK, SchedulerType
<1>8. CASE UNCHANGED scheduler
  BY <1>8 DEF SchedulerType, scheduler
<1> HIDE DEF IInv, TypeOK
<1> QED
  BY <1>1, <1>2, <1>3, <1>4, <1>5, <1>6, <1>7, <1>8
  DEF Next, LoopAdvances, RunAdvances, Publish, vars, Crash, Unwound, Fetch,
      FetchConflict, RunRefused, RunClaims, RunRegisters, RunMarksInvoked,
      RunInvokes, PluginReports, PluginQueuesUpload, PluginReturns,
      PluginStopped, RunSettles, RunRequestsCleanup, CleanupEnds, RunCancelled,
      RunFinishes, Cancel, Expire, CorruptRow, scheduler

LEMMA WorldTypeStep ==
  ASSUME IInv, [Next]_vars
  PROVE  WorldType'
<1> USE DEF IInv, TypeOK, server
<1>1. CASE Crash \/ Interrupt \/ Shutdown
  BY <1>1, BoundsAssumption DEF Crash, Interrupt, Shutdown, WorldType
<1>2. ASSUME NEW t \in Tasks, RunInvokes(t)
      PROVE  WorldType'
  BY <1>2 DEF RunInvokes, WorldType
<1>3. ASSUME NEW t \in Tasks, Expire(t)
      PROVE  WorldType'
  BY <1>3 DEF Expire, WorldType
<1>4. ASSUME NEW t \in Tasks, NEW n \in Events, PublishProgress(t, n)
      PROVE  WorldType'
  BY <1>4 DEF PublishProgress, WorldType
<1>5. ASSUME NEW t \in Tasks, PublishResult(t)
      PROVE  WorldType'
  BY <1>5 DEF PublishResult, WorldType, OutboxOK
<1>6. ASSUME NEW t \in Tasks, PublishUpload(t)
      PROVE  WorldType'
  BY <1>6 DEF PublishUpload, WorldType
<1>7. CASE UNCHANGED world
  BY <1>7 DEF WorldType, world
<1> HIDE DEF IInv, TypeOK
<1> QED
  BY ZenonT(60), <1>1, <1>2, <1>3, <1>4, <1>5, <1>6, <1>7
  DEF Next, LoopAdvances, RunAdvances, Publish, vars, Start, Unwound, Wake,
      FetchFails, FetchNone, Fetch, FetchConflict, Dispatch, Gathered,
      RunRefused, RunClaims, RunRegisters, RunMarksInvoked, PluginReports,
      PluginQueuesUpload, PluginReturns, PluginStopped, RunSettles,
      RunRequestsCleanup, CleanupEnds, RunCancelled, RunFinishes, Cancel,
      GraceExpires, Confirm, PublishFails, SyncAdvances, CorruptRow, world

LEMMA TypeStep ==
  ASSUME IInv, [Next]_vars
  PROVE  TypeOK'
  BY RowsTypeStep, OutboxesTypeStep, IntakeTypeStep, RunnersTypeStep,
     SchedulerTypeStep, WorldTypeStep DEF TypeOK

-----------------------------------------------------------------------------
(* Rows, claims and runs *)

\* What one step can do to one stored task, apart from its first delivery: the
\* envelope stays, an active or queued row moves only to states that its claim
\* allows, and a closed row does not move at all.
LEMMA RowStep ==
  ASSUME IInv, [Next]_vars, NEW t \in Tasks, inbox_tasks[t].state # "absent"
  PROVE  /\ inbox_tasks'[t].payload = inbox_tasks[t].payload
         /\ \/ inbox_tasks'[t].state = inbox_tasks[t].state
            \/ /\ inbox_tasks[t].state = "queued"
               /\ inbox_tasks'[t].state \in PreExecutionTerminal
            \/ /\ inbox_tasks[t].state = "queued"
               /\ inbox_tasks'[t].state = "preparing"
               /\ RunClaims(t)
            \/ /\ inbox_tasks[t].state \in ActiveStates
               /\ inbox_tasks'[t].state \in
                    (ActiveStates \ {"preparing"}) \union ExecutionTerminal
<1> DEFINE Goal == /\ inbox_tasks'[t].payload = inbox_tasks[t].payload
         /\ \/ inbox_tasks'[t].state = inbox_tasks[t].state
            \/ /\ inbox_tasks[t].state = "queued"
               /\ inbox_tasks'[t].state \in PreExecutionTerminal
            \/ /\ inbox_tasks[t].state = "queued"
               /\ inbox_tasks'[t].state = "preparing"
               /\ RunClaims(t)
            \/ /\ inbox_tasks[t].state \in ActiveStates
               /\ inbox_tasks'[t].state \in
                    (ActiveStates \ {"preparing"}) \union ExecutionTerminal
<1> SUFFICES Goal
  OBVIOUS
<1> USE DEF IInv, TypeOK, RowsType
<1>1. CASE Start
  BY <1>1 DEF Start, InterruptedRow, InboxRow, ExecutionTerminal
<1>2. ASSUME NEW e \in Envelopes, Fetch(e)
      PROVE  Goal
  <2>1. e.task_id # t
    BY <1>2 DEF Fetch
  <2> QED
    BY <1>2, <2>1 DEF Fetch, IngestNew, IngestRepeat
<1>3. ASSUME NEW batch \in SUBSET Queued, Dispatch(batch)
      PROVE  Goal
  BY <1>3 DEF Dispatch, Queued, InboxRow, PreExecutionTerminal
<1>4. ASSUME NEW u \in Tasks, NEW s \in TaskState,
             inbox_tasks' = SetState(u, s)
      PROVE  /\ inbox_tasks'[t].payload = inbox_tasks[t].payload
             /\ inbox_tasks'[t].state = IF t = u THEN s ELSE inbox_tasks[t].state
  BY <1>4 DEF SetState, InboxRow
<1>5. ASSUME NEW u \in Tasks, RunRefused(u)
      PROVE  Goal
  <2>1. RefusedAs(u) # "none" => RefusedAs(u) \in PreExecutionTerminal
    BY DEF RefusedAs, PreExecutionTerminal
  <2>2. RefusedAs(u) # "none" => RefusedAs(u) \in TaskState
    BY <2>1 DEF TaskState, TerminalStates
  <2> QED
    BY <1>4, <1>5, <2>1, <2>2 DEF RunRefused, CanTransition
<1>6. ASSUME NEW u \in Tasks, RunClaims(u)
      PROVE  Goal
  <2>1. "preparing" \in TaskState
    BY DEF TaskState, ActiveStates
  <2> QED
    BY <1>4, <1>6, <2>1 DEF RunClaims, Claimable, rows
<1>7. ASSUME NEW u \in Tasks,
             RunRegisters(u) \/ RunSettles(u)
             \/ \E final \in {"failed", "cancelled"} : PluginStopped(u, final)
      PROVE  Goal
  <2>1. /\ "running" \in TaskState /\ "cleaning_up" \in TaskState
        /\ "cancel_requested" \in TaskState
    BY DEF TaskState, ActiveStates
  <2> QED
    BY <1>4, <1>7, <2>1 DEF RunRegisters, RunSettles, PluginStopped,
                            CanTransition, ActiveStates
<1>8. ASSUME NEW u \in Tasks, RunFinishes(u)
      PROVE  Goal
  <2>1. CASE ~ CanTransition(u, "cleaning_up", outcome[u])
    BY <1>8, <2>1 DEF RunFinishes, rows
  <2>2. CASE CanTransition(u, "cleaning_up", outcome[u])
    <3>1. outcome[u] \in ExecutionTerminal /\ inbox_tasks[u].state = "cleaning_up"
      BY <2>2 DEF CanTransition, AllowedTransitions, ExecutionTerminal
    <3>2. outcome[u] \in TaskState
      BY <3>1 DEF TaskState, TerminalStates
    <3> QED
      BY <1>4, <1>8, <2>2, <3>1, <3>2 DEF RunFinishes, ActiveStates
  <2> QED
    BY <2>1, <2>2
<1>9. ASSUME NEW u \in Tasks, CorruptRow(u)
      PROVE  Goal
  BY <1>9 DEF CorruptRow, InboxRow
<1>10. CASE UNCHANGED inbox_tasks
  BY <1>10
<1> HIDE DEF IInv, TypeOK, Goal
<1> QED
  BY <1>1, <1>2, <1>3, <1>5, <1>6, <1>7, <1>8, <1>9, <1>10
  DEF Next, LoopAdvances, RunAdvances, Publish, vars, tables, rows, Crash,
      Interrupt, Unwound, Wake, FetchFails, FetchNone, FetchConflict, Gathered,
      RunMarksInvoked, RunInvokes, RunRequestsCleanup, CleanupEnds,
      PluginReports, PluginQueuesUpload, PluginReturns, RunCancelled, Cancel,
      Shutdown, GraceExpires, PublishProgress, PublishResult, PublishUpload,
      Confirm, PublishFails, SyncAdvances, Expire

\* A first delivery: the only step that fills an empty row.
LEMMA FirstDelivery ==
  ASSUME IInv, [Next]_vars, NEW t \in Tasks, inbox_tasks[t].state = "absent"
  PROVE  \/ inbox_tasks'[t] = inbox_tasks[t]
         \/ \E e \in Envelopes : e.task_id = t /\ Fetch(e)
<1> USE DEF IInv, TypeOK, RowsType
<1>1. CASE Start
  BY <1>1 DEF Start, InterruptedRow, ActiveStates
<1>2. ASSUME NEW e \in Envelopes, Fetch(e), e.task_id # t
      PROVE  inbox_tasks'[t] = inbox_tasks[t]
  BY <1>2 DEF Fetch, IngestNew, IngestRepeat
<1>3. ASSUME NEW batch \in SUBSET Queued, Dispatch(batch)
      PROVE  inbox_tasks'[t] = inbox_tasks[t]
  BY <1>3 DEF Dispatch, Queued
<1>4. ASSUME NEW u \in Tasks, u # t, NEW s, inbox_tasks' = SetState(u, s)
      PROVE  inbox_tasks'[t] = inbox_tasks[t]
  BY <1>4 DEF SetState
<1>5. ASSUME NEW u \in Tasks,
             RunRefused(u) \/ RunClaims(u) \/ RunRegisters(u) \/ RunSettles(u)
             \/ RunFinishes(u) \/ CorruptRow(u)
             \/ \E final \in {"failed", "cancelled"} : PluginStopped(u, final)
      PROVE  inbox_tasks'[t] = inbox_tasks[t]
  BY <1>4, <1>5 DEF RunRefused, RunClaims, Claimable, RunRegisters, RunSettles,
       RunFinishes, CorruptRow, PluginStopped, CanTransition, rows
<1>6. CASE UNCHANGED inbox_tasks
  BY <1>6
<1> HIDE DEF IInv, TypeOK
<1> QED
  BY <1>1, <1>2, <1>3, <1>5, <1>6
  DEF Next, LoopAdvances, RunAdvances, Publish, vars, tables, rows, Crash,
      Interrupt, Unwound, Wake, FetchFails, FetchNone, FetchConflict, Gathered,
      RunMarksInvoked, RunInvokes, RunRequestsCleanup, CleanupEnds,
      PluginReports, PluginQueuesUpload, PluginReturns, RunCancelled, Cancel,
      Shutdown, GraceExpires, PublishProgress, PublishResult, PublishUpload,
      Confirm, PublishFails, SyncAdvances, Expire

\* The row a first delivery leaves behind.
LEMMA DeliveredRow ==
  ASSUME IInv, NEW e \in Envelopes, Fetch(e)
  PROVE  /\ e.task_id \in Tasks /\ e.idempotency_key \in Keys
         /\ inbox_tasks'[e.task_id].payload = e
         /\ inbox_tasks'[e.task_id].state \in {"queued", "duplicate", "blocked"}
         /\ UNCHANGED task_attempts
         /\ IF IngestNew(e)
            THEN Canonical(e.idempotency_key) = NoTask
            ELSE /\ inbox_tasks'[e.task_id].state # "queued"
                 /\ UNCHANGED idempotency_effects
<1> USE DEF IInv, TypeOK, RowsType
<1>1. e.task_id \in Tasks /\ e.idempotency_key \in Keys
  BY EnvelopesAssumption
<1> QED
  BY <1>1 DEF Fetch, IngestNew, IngestRepeat, NewRow, Canonical

LEMMA RowsStep ==
  ASSUME IInv, [Next]_vars
  PROVE  RowsOK'
<1> SUFFICES ASSUME NEW t \in Tasks, inbox_tasks'[t].state # "absent"
             PROVE  /\ inbox_tasks'[t].payload \in Envelopes
                    /\ inbox_tasks'[t].payload.task_id = t
  BY DEF RowsOK
<1>1. CASE inbox_tasks[t].state # "absent"
  BY <1>1, RowStep DEF IInv, RowsOK
<1>2. CASE inbox_tasks[t].state = "absent"
  <2>1. PICK e \in Envelopes : e.task_id = t /\ Fetch(e)
    BY <1>2, FirstDelivery
  <2> QED
    BY <2>1, DeliveredRow
<1> QED
  BY <1>1, <1>2

\* A key that has a canonical task keeps it, and only that task's claim, while
\* it is queued, marks the key claimed.
LEMMA EffectStep ==
  ASSUME IInv, [Next]_vars, NEW k \in Keys, Canonical(k) # NoTask
  PROVE  /\ Canonical(k)' = Canonical(k)
         /\ \/ idempotency_effects'[k].claimed = idempotency_effects[k].claimed
            \/ \E t \in Tasks : RunClaims(t) /\ Claimable(t) /\ KeyOf(t) = k
<1> DEFINE Goal ==
      /\ Canonical(k)' = Canonical(k)
      /\ \/ idempotency_effects'[k].claimed = idempotency_effects[k].claimed
         \/ \E t \in Tasks : RunClaims(t) /\ Claimable(t) /\ KeyOf(t) = k
<1> SUFFICES Goal
  OBVIOUS
<1> USE DEF IInv, TypeOK, RowsType, Canonical
<1>1. ASSUME NEW e \in Envelopes, Fetch(e)
      PROVE  Goal
  BY <1>1 DEF Fetch, IngestNew, IngestRepeat
<1>2. ASSUME NEW t \in Tasks, RunClaims(t)
      PROVE  Goal
  <2>1. CASE Claimable(t) /\ KeyOf(t) = k
    BY <1>2, <2>1 DEF RunClaims, EffectRow
  <2>2. CASE Claimable(t) /\ KeyOf(t) # k
    BY <1>2, <2>2 DEF RunClaims, EffectRow
  <2>3. CASE ~ Claimable(t)
    BY <1>2, <2>3 DEF RunClaims, rows
  <2> QED
    BY <2>1, <2>2, <2>3
<1>3. ASSUME NEW t \in Tasks, RunFinishes(t)
      PROVE  Goal
  BY <1>3 DEF RunFinishes, EffectRow, rows
<1>4. CASE UNCHANGED idempotency_effects
  BY <1>4
<1> HIDE DEF IInv, TypeOK, Goal
<1> QED
  BY ZenonT(60), <1>1, <1>2, <1>3, <1>4
  DEF Next, LoopAdvances, RunAdvances, Publish, vars, tables, rows, Start,
      Crash, Interrupt, Unwound, Wake, FetchFails, FetchNone, FetchConflict,
      Dispatch, Gathered, RunRefused, RunRegisters, RunMarksInvoked,
      RunInvokes, RunSettles, RunRequestsCleanup, CleanupEnds, PluginReports,
      PluginQueuesUpload, PluginReturns, PluginStopped, RunCancelled, Cancel,
      Shutdown, GraceExpires, PublishProgress, PublishResult, PublishUpload,
      Confirm, PublishFails, SyncAdvances, Expire, CorruptRow

\* claimed_at and invoked_at are written once, by claim_task and mark_invoked.
LEMMA AttemptStep ==
  ASSUME IInv, [Next]_vars, NEW t \in Tasks
  PROVE  /\ \/ Claimed(t)' = Claimed(t)
            \/ RunClaims(t) /\ Claimable(t)
         /\ Claimed(t) => Claimed(t)'
         /\ \/ task_attempts'[t].invoked = task_attempts[t].invoked
            \/ /\ RunMarksInvoked(t)
               /\ Claimed(t) /\ ~ task_attempts[t].invoked
               /\ task_attempts'[t].invoked
               /\ pc'[t] = "marked"
<1> DEFINE Goal == /\ \/ Claimed(t)' = Claimed(t)
                      \/ RunClaims(t) /\ Claimable(t)
                   /\ Claimed(t) => Claimed(t)'
                   /\ \/ task_attempts'[t].invoked = task_attempts[t].invoked
                      \/ /\ RunMarksInvoked(t)
                         /\ Claimed(t) /\ ~ task_attempts[t].invoked
                         /\ task_attempts'[t].invoked
                         /\ pc'[t] = "marked"
<1> SUFFICES Goal
  OBVIOUS
<1> USE DEF IInv, TypeOK, RowsType, RunnersType, Claimed
<1>1. CASE Start
  BY <1>1 DEF Start, InterruptedAttempt, AttemptRow
<1>2. ASSUME NEW u \in Tasks, RunClaims(u)
      PROVE  Goal
  <2>1. CASE ~ Claimable(u)
    BY <1>2, <2>1 DEF RunClaims, rows
  <2>2. CASE Claimable(u) /\ u = t
    BY <1>2, <2>2 DEF RunClaims, AttemptRow
  <2>3. CASE Claimable(u) /\ u # t
    BY <1>2, <2>3 DEF RunClaims, AttemptRow
  <2> QED
    BY <2>1, <2>2, <2>3
<1>3. ASSUME NEW u \in Tasks, RunMarksInvoked(u)
      PROVE  Goal
  <2>1. CASE u = t /\ Claimed(t) /\ ~ task_attempts[t].invoked
    <3>1. task_attempts' = [task_attempts EXCEPT ![t].invoked = TRUE] /\ Goto(t, "marked")
      BY <1>3, <2>1 DEF RunMarksInvoked
    <3>2. task_attempts'[t].invoked /\ Claimed(t)' = Claimed(t)
      BY <3>1 DEF AttemptRow
    <3>3. pc'[t] = "marked"
      BY <3>1 DEF Goto
    <3> QED
      BY <1>3, <2>1, <3>2, <3>3
  <2>2. CASE u # t
    BY <1>3, <2>2 DEF RunMarksInvoked, AttemptRow
  <2>3. CASE u = t /\ ~ (Claimed(t) /\ ~ task_attempts[t].invoked)
    BY <1>3, <2>3 DEF RunMarksInvoked
  <2> QED
    BY <2>1, <2>2, <2>3
<1>4. ASSUME NEW u \in Tasks, RunRequestsCleanup(u)
      PROVE  Goal
  BY <1>4 DEF RunRequestsCleanup, AttemptRow
<1>5. ASSUME NEW u \in Tasks, NEW succeeded \in BOOLEAN, CleanupEnds(u, succeeded)
      PROVE  Goal
  BY <1>5 DEF CleanupEnds, CompleteCleanup, AttemptRow
<1>6. ASSUME NEW u \in Tasks, RunFinishes(u)
      PROVE  Goal
  BY <1>6 DEF RunFinishes, AttemptRow, rows
<1>7. CASE UNCHANGED task_attempts
  BY <1>7
<1> HIDE DEF IInv, TypeOK, Goal
<1> QED
  BY <1>1, <1>2, <1>3, <1>4, <1>5, <1>6, <1>7
  DEF Next, LoopAdvances, RunAdvances, Publish, vars, tables, rows, Crash,
      Interrupt, Unwound, Wake, FetchFails, FetchNone, Fetch, FetchConflict,
      Dispatch, Gathered, RunRefused, RunRegisters, RunInvokes, RunSettles,
      PluginReports, PluginQueuesUpload, PluginReturns, PluginStopped,
      RunCancelled, Cancel, Shutdown, GraceExpires, PublishProgress,
      PublishResult, PublishUpload, Confirm, PublishFails, SyncAdvances,
      Expire, CorruptRow

LEMMA ClaimsStep ==
  ASSUME IInv, [Next]_vars
  PROVE  ClaimsOK'
<1> SUFFICES ASSUME NEW t \in Tasks
             PROVE  /\ inbox_tasks'[t].state = "queued" =>
                         /\ Owns(t)'
                         /\ ~ idempotency_effects'[KeyOf(t)'].claimed
                         /\ ~ Claimed(t)'
                    /\ Claimed(t)' =>
                         /\ inbox_tasks'[t].state
                              \in ActiveStates \union ExecutionTerminal
                         /\ Owns(t)'
                    /\ inbox_tasks'[t].state \in ActiveStates => Claimed(t)'
  BY DEF ClaimsOK
<1>1. CASE inbox_tasks[t].state = "absent"
  <2>1. ~ Claimed(t) /\ ~ Claimed(t)'
    <3>1. ~ Claimed(t)
      BY <1>1 DEF IInv, ClaimsOK, ActiveStates, ExecutionTerminal
    <3> QED
      BY <1>1, <3>1, AttemptStep DEF Claimable
  <2>2. CASE inbox_tasks'[t] = inbox_tasks[t]
    BY <1>1, <2>1, <2>2 DEF ActiveStates
  <2>3. ASSUME NEW e \in Envelopes, e.task_id = t, Fetch(e)
        PROVE  /\ inbox_tasks'[t].state = "queued" =>
                    Owns(t)' /\ ~ idempotency_effects'[KeyOf(t)'].claimed
               /\ inbox_tasks'[t].state \notin ActiveStates
    <3>1. KeyOf(t)' = e.idempotency_key /\ e.idempotency_key \in Keys
      BY <2>3, DeliveredRow DEF KeyOf
    <3>2. CASE IngestNew(e)
      BY <2>3, <3>1, <3>2, DeliveredRow
      DEF IngestNew, Owns, Canonical, IInv, TypeOK, RowsType, ActiveStates
    <3>3. CASE ~ IngestNew(e)
      BY <2>3, <3>3, DeliveredRow DEF ActiveStates
    <3> QED
      BY <3>2, <3>3
  <2> QED
    BY <1>1, <2>1, <2>2, <2>3, FirstDelivery
<1>2. CASE inbox_tasks[t].state # "absent"
  <2>1. KeyOf(t)' = KeyOf(t) /\ KeyOf(t) \in Keys
    BY <1>2, RowStep, EnvelopesAssumption DEF KeyOf, IInv, RowsOK
  <2>2. t # NoTask
    BY EnvelopesAssumption
  <2>3. Owns(t) => Owns(t)'
    BY <2>1, <2>2, EffectStep DEF Owns, Canonical
  <2>4. CASE inbox_tasks[t].state = "queued"
    <3>1. Owns(t) /\ ~ idempotency_effects[KeyOf(t)].claimed /\ ~ Claimed(t)
      BY <2>4 DEF IInv, ClaimsOK
    <3>2. CASE RunClaims(t) /\ Claimable(t)
      <4>1. inbox_tasks'[t].state = "preparing" /\ Claimed(t)'
        BY <3>2 DEF RunClaims, SetState, Claimed, IInv, TypeOK, RowsType,
                    InboxRow, AttemptRow
      <4> QED
        BY <2>3, <3>1, <4>1 DEF ActiveStates
    <3>3. CASE ~ (RunClaims(t) /\ Claimable(t))
      <4>1. ~ Claimed(t)'
        BY <3>1, <3>3, AttemptStep
      <4>2. inbox_tasks'[t].state = "queued" \/ inbox_tasks'[t].state \in PreExecutionTerminal
        BY <1>2, <2>4, <3>1, <3>3, RowStep DEF ActiveStates, Claimable
      <4>3. ASSUME NEW u \in Tasks, RunClaims(u), Claimable(u), KeyOf(u) = KeyOf(t)
            PROVE  FALSE
        <5>1. Owns(u)
          BY <4>3 DEF Claimable, IInv, ClaimsOK
        <5>2. u = t
          BY <3>1, <4>3, <5>1 DEF Owns
        <5> QED
          BY <3>3, <4>3, <5>2
      <4>4. ~ idempotency_effects'[KeyOf(t)].claimed
        BY <2>1, <2>2, <3>1, <4>3, EffectStep DEF Owns
      <4> QED
        BY <2>1, <2>3, <3>1, <4>1, <4>2, <4>4
        DEF ActiveStates, PreExecutionTerminal
    <3> QED
      BY <3>2, <3>3
  <2>5. CASE inbox_tasks[t].state # "queued"
    <3>1. Claimed(t)' => Claimed(t)
      BY <2>5, AttemptStep DEF Claimable
    <3>2. Claimed(t) => Claimed(t)'
      BY AttemptStep
    <3>3. inbox_tasks'[t].state # "queued"
      BY <1>2, <2>5, RowStep DEF ActiveStates, ExecutionTerminal
    <3>4. Claimed(t) => Owns(t) /\ inbox_tasks[t].state
                                     \in ActiveStates \union ExecutionTerminal
      BY DEF IInv, ClaimsOK
    <3>5. Claimed(t) => inbox_tasks'[t].state
                          \in ActiveStates \union ExecutionTerminal
      BY <1>2, <2>5, <3>4, RowStep
    <3>6. inbox_tasks'[t].state \in ActiveStates => inbox_tasks[t].state \in ActiveStates
      BY <1>2, <2>5, RowStep
    <3>7. inbox_tasks[t].state \in ActiveStates => Claimed(t)
      BY DEF IInv, ClaimsOK
    <3> QED
      BY <2>3, <3>1, <3>2, <3>3, <3>4, <3>5, <3>6, <3>7
  <2> QED
    BY <2>4, <2>5
<1> QED
  BY <1>1, <1>2

\* A coroutine exists only for a stored row, and "marked" is reached only from
\* mark_invoked, which is what keeps the plugin from being entered twice.
LEMMA PcStep ==
  ASSUME IInv, [Next]_vars, NEW t \in Tasks
  PROVE  /\ pc'[t] # "idle" => pc[t] # "idle" \/ inbox_tasks[t].state # "absent"
         /\ pc'[t] = "marked" => pc[t] = "marked" \/ RunMarksInvoked(t)
<1> DEFINE Goal == /\ pc'[t] # "idle" => pc[t] # "idle" \/ inbox_tasks[t].state # "absent"
                   /\ pc'[t] = "marked" => pc[t] = "marked" \/ RunMarksInvoked(t)
<1> SUFFICES Goal
  OBVIOUS
<1> USE DEF IInv, TypeOK, RunnersType
<1>1. CASE ProcessEnds
  BY <1>1 DEF ProcessEnds
<1>2. ASSUME NEW batch \in SUBSET Queued, Dispatch(batch)
      PROVE  Goal
  BY <1>2 DEF Dispatch, Queued
<1>3. ASSUME NEW u \in Tasks, RunEnds(u)
      PROVE  Goal
  BY <1>3 DEF RunEnds, Goto
<1>4. ASSUME NEW u \in Tasks, NEW label, Goto(u, label), pc[u] # "idle",
             label = "marked" => RunMarksInvoked(u)
      PROVE  Goal
  BY <1>4 DEF Goto
<1>5. CASE UNCHANGED pc
  BY <1>5
<1> HIDE DEF IInv, TypeOK, Goal
<1>6. ASSUME NEW u \in Tasks, RunAdvances(u)
      PROVE  Goal
  BY <1>3, <1>4, <1>6
  DEF RunAdvances, RunRefused, RunClaims, RunRegisters, RunMarksInvoked,
      RunInvokes, PluginReturns, PluginStopped, RunSettles, RunRequestsCleanup,
      CleanupEnds, RunCancelled, RunFinishes
<1> QED
  BY <1>1, <1>2, <1>5, <1>6
  DEF Next, LoopAdvances, Publish, vars, runners, Start, Crash,
      Interrupt, Unwound, Wake, FetchFails, FetchNone, Fetch, FetchConflict,
      Gathered, PluginReports, PluginQueuesUpload, Cancel, Shutdown,
      GraceExpires, PublishProgress, PublishResult, PublishUpload, Confirm,
      PublishFails, SyncAdvances, Expire, CorruptRow

\* The plugin is entered only from "marked".
LEMMA InvocationStep ==
  ASSUME IInv, [Next]_vars, NEW t \in Tasks
  PROVE  \/ invocations'[t] = invocations[t]
         \/ /\ pc[t] = "marked" /\ pc'[t] # "marked"
            /\ invocations'[t] = invocations[t] + 1
<1> DEFINE Goal == \/ invocations'[t] = invocations[t]
                   \/ /\ pc[t] = "marked" /\ pc'[t] # "marked"
                      /\ invocations'[t] = invocations[t] + 1
<1> SUFFICES Goal
  OBVIOUS
<1>1. ASSUME NEW u \in Tasks, RunInvokes(u)
      PROVE  Goal
  BY <1>1 DEF RunInvokes, Goto, IInv, TypeOK, WorldType, RunnersType
<1>2. CASE UNCHANGED invocations
  BY <1>2
<1> HIDE DEF Goal
<1> QED
  BY ZenonT(60), <1>1, <1>2
  DEF Next, LoopAdvances, RunAdvances, Publish, vars, world, Start, Crash,
      Interrupt, Unwound, Wake, FetchFails, FetchNone, Fetch, FetchConflict,
      Dispatch, Gathered, RunRefused, RunClaims, RunRegisters,
      RunMarksInvoked, RunSettles, RunRequestsCleanup, CleanupEnds,
      RunFinishes, PluginReports, PluginQueuesUpload, PluginReturns,
      PluginStopped, RunCancelled, Cancel, Shutdown, GraceExpires,
      PublishProgress, PublishResult, PublishUpload, Confirm, PublishFails,
      SyncAdvances, Expire, CorruptRow

LEMMA RunsStep ==
  ASSUME IInv, [Next]_vars
  PROVE  RunsOK'
<1> SUFFICES ASSUME NEW t \in Tasks
             PROVE  /\ pc'[t] # "idle" => inbox_tasks'[t].state # "absent"
                    /\ pc'[t] = "marked" =>
                         task_attempts'[t].invoked /\ invocations'[t] = 0
                    /\ task_attempts'[t].invoked => Claimed(t)'
                    /\ ~ task_attempts'[t].invoked => invocations'[t] = 0
                    /\ invocations'[t] <= 1
  BY DEF RunsOK
<1>1. invocations[t] \in Nat
  BY DEF IInv, TypeOK, WorldType
<1>2. /\ pc[t] # "idle" => inbox_tasks[t].state # "absent"
      /\ pc[t] = "marked" => task_attempts[t].invoked /\ invocations[t] = 0
      /\ task_attempts[t].invoked => Claimed(t)
      /\ ~ task_attempts[t].invoked => invocations[t] = 0
      /\ invocations[t] <= 1
  BY DEF IInv, RunsOK
<1>3. inbox_tasks[t].state # "absent" => inbox_tasks'[t].state # "absent"
  BY RowStep DEF ActiveStates, ExecutionTerminal, PreExecutionTerminal
<1>4. RunMarksInvoked(t) => pc[t] # "marked" /\ invocations'[t] = invocations[t]
  BY DEF RunMarksInvoked, world
<1>5. pc'[t] = "marked" => task_attempts'[t].invoked /\ invocations'[t] = 0
  <2>1. CASE RunMarksInvoked(t)
    <3>1. pc'[t] = "marked" => task_attempts'[t].invoked /\ ~ task_attempts[t].invoked
      BY <2>1 DEF RunMarksInvoked, RunEnds, Goto, IInv, TypeOK, RunnersType,
                  RowsType, AttemptRow
    <3> QED
      BY <1>2, <1>4, <2>1, <3>1
  <2>2. CASE ~ RunMarksInvoked(t)
    BY <1>2, <2>2, PcStep, AttemptStep, InvocationStep
  <2> QED
    BY <2>1, <2>2
<1>6. task_attempts'[t].invoked => Claimed(t)'
  BY <1>2, AttemptStep
<1>7. ~ task_attempts'[t].invoked => invocations'[t] = 0
  BY <1>2, AttemptStep, InvocationStep
<1>8. invocations'[t] <= 1
  BY <1>1, <1>2, InvocationStep
<1> QED
  BY <1>2, <1>3, <1>5, <1>6, <1>7, <1>8, PcStep

LEMMA OutboxStep ==
  ASSUME IInv, [Next]_vars
  PROVE  OutboxOK'
<1> DEFINE Rows == \A t \in Tasks : outbox_results[t].state # "absent" =>
                     outbox_results[t].local_state \in ReportedStates
           Stored(t) == outbox_results[t].state # "absent"
           Flight == loop = "confirm" =>
                       /\ inflight \in Flights
                       /\ inflight.channel = "results" => Stored(inflight.task)
           Goal == Rows' /\ \A t \in Tasks : Stored(t) => Stored(t)'
<1>1. Rows /\ Flight
  BY DEF IInv, OutboxOK
<1>2. outbox_results \in [Tasks -> ResultRow]
  BY DEF IInv, TypeOK, OutboxesType
<1>3. Goal
  <2>1. ASSUME NEW u \in Tasks, RunFinishes(u)
        PROVE  Goal
    <3>1. CASE outbox_results' = outbox_results
      BY <1>1, <3>1
    <3>2. CASE /\ outcome[u] \in ReportedStates
               /\ outbox_results' = [outbox_results EXCEPT ![u] =
                    [state |-> "pending", local_state |-> outcome[u]]]
      BY <1>1, <1>2, <3>2
    <3>3. <<"cleaning_up", outcome[u]>> \in AllowedTransitions
            => outcome[u] \in ReportedStates
      BY DEF IInv, TypeOK, RunnersType, AllowedTransitions, ExecutionTerminal,
             ReportedStates
    <3> HIDE DEF Goal
    <3> QED
      BY <2>1, <3>1, <3>2, <3>3 DEF RunFinishes, CanTransition
  <2>2. CASE Confirm
    <3>1. CASE outbox_results' = outbox_results
      BY <1>1, <3>1
    <3>2. CASE /\ outbox_results' = [outbox_results EXCEPT
                     ![inflight.task].state = "confirmed"]
               /\ inflight.channel = "results"
      <4>1. inflight.task \in Tasks /\ Stored(inflight.task)
        BY <1>1, <2>2, <3>2, FlightTask DEF Confirm
      <4>2. PICK f \in Tasks : f = inflight.task
        BY <4>1
      <4>3. /\ outbox_results'[f].state = "confirmed"
            /\ outbox_results'[f].local_state = outbox_results[f].local_state
            /\ \A t \in Tasks \ {f} : outbox_results'[t] = outbox_results[t]
        BY <1>2, <3>2, <4>2 DEF ResultRow
      <4> QED
        BY <1>1, <4>1, <4>2, <4>3
    <3>3. inflight.channel \in Channels
      BY <1>1, <2>2, FlightTask DEF Confirm
    <3> HIDE DEF Goal
    <3> QED
      BY <2>2, <3>1, <3>2, <3>3 DEF Confirm, Channels
  <2>3. CASE UNCHANGED outbox_results
    BY <1>1, <2>3
  <2> HIDE DEF Goal
  <2> QED
    BY <2>1, <2>2, <2>3
    DEF Next, LoopAdvances, RunAdvances, Publish, vars, tables, outboxes,
        Start, Crash, Interrupt, Unwound, Wake, FetchFails, FetchNone, Fetch,
        FetchConflict, Dispatch, Gathered, RunRefused, RunClaims,
        RunRegisters, RunMarksInvoked, RunInvokes, RunSettles,
        RunRequestsCleanup, CleanupEnds, PluginReports, PluginQueuesUpload,
        PluginReturns, PluginStopped, RunCancelled, Cancel, Shutdown,
        GraceExpires, PublishProgress, PublishResult, PublishUpload,
        PublishFails, SyncAdvances, Expire, CorruptRow
<1>4. Flight'
  <2>1. CASE loop' # "confirm"
    BY <2>1
  <2>2. CASE loop' = loop /\ inflight' = inflight
    BY <1>1, <1>3, <2>2, FlightTask
  <2>3. ASSUME NEW t \in Tasks, NEW n \in Events, PublishProgress(t, n)
        PROVE  Flight'
    BY <2>3 DEF PublishProgress, Flights
  <2>4. ASSUME NEW t \in Tasks, PublishResult(t)
        PROVE  Flight'
    BY <2>4, <1>3 DEF PublishResult, Flights
  <2>5. ASSUME NEW t \in Tasks, PublishUpload(t)
        PROVE  Flight'
    BY <2>5 DEF PublishUpload, Flights
  <2>6. CASE SyncAdvances
    BY <2>6 DEF SyncAdvances, NextChannel, Channels
  <2>7. CASE Confirm
    BY <1>1, <2>7, FlightTask DEF Confirm, Channels
  <2> HIDE DEF Flight, Goal
  <2> QED
    BY <2>1, <2>2, <2>3, <2>4, <2>5, <2>6, <2>7
    DEF Next, LoopAdvances, RunAdvances, Publish, vars, scheduler, ProcessEnds,
        Start, Crash, Interrupt, Unwound, Wake, FetchFails, FetchNone, Fetch,
        FetchConflict, Dispatch, Gathered, RunRefused, RunClaims,
        RunRegisters, RunMarksInvoked, RunInvokes, RunSettles,
        RunRequestsCleanup, CleanupEnds, PluginReports, PluginQueuesUpload,
        PluginReturns, PluginStopped, RunCancelled, Cancel, Shutdown,
        GraceExpires, RunFinishes, PublishFails, Expire, CorruptRow
<1> QED
  BY <1>3, <1>4 DEF OutboxOK

-----------------------------------------------------------------------------
(* The theorems *)

LEMMA StepIInv == IInv /\ [Next]_vars => IInv'
  BY TypeStep, RowsStep, ClaimsStep, RunsStep, OutboxStep DEF IInv

LEMMA Invariance == Spec => []IInv
  BY InitIInv, StepIInv, PTL DEF Spec

\* Every reachable state of the pipeline is well typed, for any set of tasks
\* and keys and any interleaving of runs, crashes and publications.
THEOREM TypeCorrect == Spec => []TypeOK
<1>1. IInv => TypeOK
  BY DEF IInv
<1> QED
  BY <1>1, Invariance, PTL

\* claim_task and ingest_task together keep one durable claim per
\* idempotency_key: no number of duplicates, redeliveries or restarts gives two
\* tasks of one key an attempt row.
THEOREM OneClaim == Spec => []OneClaimPerKey
<1>1. IInv => OneClaimPerKey
  BY DEF IInv, ClaimsOK, Owns, OneClaimPerKey
<1> QED
  BY <1>1, Invariance, PTL

\* plugin.execute is entered at most once per task and for at most one task of
\* a key, over all processes: mark_invoked commits before the plugin is called.
THEOREM OneInvocation == Spec => []AtMostOneInvocation
<1>1. IInv => AtMostOneInvocation
  <2> SUFFICES ASSUME IInv PROVE AtMostOneInvocation
    OBVIOUS
  <2>1. \A t \in Tasks : invocations[t] > 0 => Claimed(t)
    BY DEF IInv, RunsOK
  <2>2. \A t \in Tasks : invocations[t] <= 1
    BY DEF IInv, RunsOK
  <2> QED
    BY <2>1, <2>2 DEF AtMostOneInvocation, IInv, ClaimsOK, Owns
<1> QED
  BY <1>1, Invariance, PTL

\* No step, recovery included, puts a claimed task back in the queue or changes
\* the state of a task that is terminal.
THEOREM NeverRequeued == Spec => ClaimNeverRequeued
<1> DEFINE Kept == \A t \in Tasks :
             /\ Claimed(t) => inbox_tasks'[t].state # "queued"
             /\ inbox_tasks[t].state \in TerminalStates =>
                  inbox_tasks'[t].state = inbox_tasks[t].state
<1>1. ASSUME IInv, [Next]_vars PROVE Kept
  <2> SUFFICES ASSUME NEW t \in Tasks
               PROVE  /\ Claimed(t) => inbox_tasks'[t].state # "queued"
                      /\ inbox_tasks[t].state \in TerminalStates =>
                           inbox_tasks'[t].state = inbox_tasks[t].state
    OBVIOUS
  <2>1. CASE inbox_tasks[t].state = "absent"
    BY <1>1, <2>1 DEF IInv, ClaimsOK, ActiveStates, ExecutionTerminal,
                      TerminalStates, PreExecutionTerminal
  <2>2. CASE inbox_tasks[t].state # "absent"
    BY <1>1, <2>2, RowStep DEF IInv, ClaimsOK, ActiveStates, ExecutionTerminal,
                      TerminalStates, PreExecutionTerminal
  <2> QED
    BY <2>1, <2>2
<1> QED
  BY <1>1, Invariance, PTL DEF Spec, ClaimNeverRequeued

-----------------------------------------------------------------------------
(* What a run leaves behind: one story in every table, and a server that is  *)
(* told it in order.                                                         *)

\* Where TaskRunner.run(t) is, against the row, the attempt and the outcome.
RunnerOK(t) ==
  LET row == inbox_tasks[t].state
      attempt == task_attempts[t]
  IN  /\ pc[t] = "scheduled" => row = "queued"
      /\ pc[t] = "claimed" => row = "preparing"
      /\ pc[t] \in {"registered", "marked", "executing"} => row = "running"
      /\ pc[t] = "settling" =>
           row = "running" \/ (row = "cancel_requested" /\ token[t] = "cancelled")
      /\ pc[t] \in {"cleaning", "cleanup", "finishing"} => row = "cleaning_up"
      /\ pc[t] \in {"claimed", "registered"} => ~ attempt.invoked
      /\ pc[t] \in {"executing", "settling", "cleaning", "cleanup", "finishing"} =>
           invocations[t] = 1
      /\ pc[t] \in {"settling", "cleaning", "cleanup", "finishing"} =>
           outcome[t] \in ReportedStates
      /\ row \in {"absent", "queued", "preparing", "running", "cancel_requested"}
           \/ pc[t] \in {"cleaning", "cleanup"} => attempt.cleanup_attempts = 0
      /\ pc[t] \in {"cleanup", "finishing"} => attempt.cleanup_requested
      /\ pc[t] = "finishing" =>
           /\ attempt.cleanup_attempts = 1
           /\ outcome[t] # "failed" => attempt.cleanup_completed

\* Coroutines exist only while the scheduler gathers them, and are cancelled
\* only by an interrupt or a shutdown.
LoopOK ==
  /\ Running # {} => loop \in {"gather", "unwinding"}
  /\ cancelRequests # {} => loop = "unwinding" \/ stopping # "no"

\* The result row of t against the other tables and the server.
ReportOK(t) ==
  LET row == outbox_results[t]
  IN  /\ row.state = "absent" <=> inbox_tasks[t].state \notin ReportedStates
      /\ row.state = "absent" => row.local_state = "none"
      /\ row.state # "absent" =>
           /\ Claimed(t) /\ row.local_state = inbox_tasks[t].state
           /\ idempotency_effects[KeyOf(t)].terminal = row.local_state
           /\ task_attempts[t].cleanup_requested
           /\ task_attempts[t].cleanup_attempts = 1
           /\ row.local_state # "failed" => task_attempts[t].cleanup_completed
      /\ srvResults[t] \subseteq {row.local_state}

\* What was published and is not yet confirmed is with the server.
FlightOK ==
  loop = "confirm" =>
    /\ inflight.channel = "progress" =>
         /\ inflight.sequence \in srvProgress[inflight.task]
         /\ outbox_progress[inflight.task][inflight.sequence] # "absent"
    /\ inflight.channel = "results" => srvResults[inflight.task] # {}
    /\ inflight.channel = "uploads" => inflight.task \in srvUploads

\* Progress events are queued without gaps; results are published when no
\* event is pending.
ProgressOK ==
  /\ \A t \in Tasks, n \in Events, m \in Events :
       m < n /\ outbox_progress[t][m] = "absent" => outbox_progress[t][n] = "absent"
  /\ loop \in {"results", "uploads"} \/ (loop = "confirm" /\ inflight.channel \in {"results", "uploads"})
       => \A t \in Tasks, n \in Events : outbox_progress[t][n] # "pending"

JInv ==
  /\ IInv /\ LoopOK
  /\ \A t \in Tasks : RunnerOK(t) /\ ReportOK(t)
  /\ AbandonedOnlyByCancellation
  /\ FlightOK /\ ProgressOK /\ SchedulerInOrder

-----------------------------------------------------------------------------
(* Transitions and frames *)

LEMMA Transitions ==
  /\ <<"preparing", "running">> \in AllowedTransitions
  /\ <<"running", "cancel_requested">> \in AllowedTransitions
  /\ <<"running", "cleaning_up">> \in AllowedTransitions
  /\ <<"cancel_requested", "cleaning_up">> \in AllowedTransitions
  /\ \A final \in ReportedStates : <<"cleaning_up", final>> \in AllowedTransitions
  BY DEF AllowedTransitions, ExecutionTerminal, ReportedStates

\* A coroutine touches the row, the attempt and the result of its own task.
LEMMA RunFrame ==
  ASSUME IInv, NEW u \in Tasks, RunAdvances(u), NEW t \in Tasks, t # u
  PROVE  /\ inbox_tasks'[t] = inbox_tasks[t] /\ task_attempts'[t] = task_attempts[t]
         /\ outbox_results'[t] = outbox_results[t] /\ invocations'[t] = invocations[t]
         /\ pc'[t] = pc[t] /\ token'[t] = token[t] /\ outcome'[t] = outcome[t]
<1> USE DEF IInv, TypeOK, RowsType, OutboxesType, RunnersType, WorldType, tables, rows, outboxes,
            runners, world, Goto, RunEnds, SetState
<1>1. CASE RunRefused(u)
  BY <1>1 DEF RunRefused
<1>2. CASE RunClaims(u)
  BY <1>2 DEF RunClaims
<1>3. CASE RunRegisters(u) \/ RunMarksInvoked(u) \/ RunInvokes(u)
  BY <1>3 DEF RunRegisters, RunMarksInvoked, RunInvokes
<1>4. CASE \/ \E final \in {"completed", "failed"} : PluginReturns(u, final)
           \/ \E final \in {"failed", "cancelled"} : PluginStopped(u, final)
  BY <1>4 DEF PluginReturns, PluginStopped
<1>5. CASE RunSettles(u) \/ RunRequestsCleanup(u) \/ RunCancelled(u)
  BY <1>5 DEF RunSettles, RunRequestsCleanup, RunCancelled
<1>6. CASE \E succeeded \in BOOLEAN : CleanupEnds(u, succeeded)
  BY <1>6 DEF CleanupEnds
<1>7. CASE RunFinishes(u)
  BY <1>7 DEF RunFinishes
<1> QED
  BY <1>1, <1>2, <1>3, <1>4, <1>5, <1>6, <1>7 DEF RunAdvances

\* The compare-and-set of finish_with_result never fails.
LEMMA FinishCommits ==
  ASSUME JInv, NEW t \in Tasks, RunFinishes(t)
  PROVE  /\ outcome[t] \in ReportedStates /\ inbox_tasks[t].state = "cleaning_up"
         /\ inbox_tasks' = SetState(t, outcome[t])
         /\ outbox_results' = [outbox_results EXCEPT ![t] =
              [state |-> "pending", local_state |-> outcome[t]]]
         /\ idempotency_effects' = [idempotency_effects EXCEPT ![KeyOf(t)].terminal = outcome[t]]
         /\ task_attempts' = [task_attempts EXCEPT ![t].finished = TRUE]
<1>1. outcome[t] \in ReportedStates /\ inbox_tasks[t].state = "cleaning_up"
  BY DEF RunFinishes, JInv, RunnerOK
<1>2. CanTransition(t, "cleaning_up", outcome[t])
  BY <1>1, Transitions DEF CanTransition
<1> QED
  BY <1>1, <1>2 DEF RunFinishes

-----------------------------------------------------------------------------
(* One coroutine *)

LEMMA RunnerOwnStep ==
  ASSUME JInv, NEW t \in Tasks, RunAdvances(t)
  PROVE  RunnerOK(t)'
<1> USE DEF JInv, IInv, TypeOK, RowsType, RunnersType, WorldType, InboxRow, AttemptRow, tables,
            rows, world, RunEnds, Goto, RunnerOK, ReportedStates
<1>1. CASE RunRefused(t)
  <2>1. RefusedAs(t) \in {"none", "skipped", "blocked", "rejected"}
    BY DEF RefusedAs
  <2> QED
    BY <1>1, <2>1 DEF RunRefused, SetState
<1>2. CASE RunClaims(t)
  <2>1. CASE Claimable(t)
    <3>1. ~ task_attempts[t].invoked
      BY <2>1 DEF ClaimsOK, RunsOK, Claimable, Claimed
    <3>2. /\ inbox_tasks'[t].state = "preparing" /\ pc'[t] = "claimed"
          /\ inbox_tasks[t].state = "queued"
      BY <1>2, <2>1 DEF RunClaims, SetState, Claimable
    <3>3. /\ task_attempts'[t].invoked = task_attempts[t].invoked
          /\ task_attempts'[t].cleanup_attempts = task_attempts[t].cleanup_attempts
      BY <1>2, <2>1 DEF RunClaims
    <3> QED
      BY <3>1, <3>2, <3>3
  <2>2. CASE ~ Claimable(t)
    BY <1>2, <2>2 DEF RunClaims
  <2> QED
    BY <2>1, <2>2
<1>3. CASE RunRegisters(t)
  BY <1>3, Transitions DEF RunRegisters, SetState, CanTransition
<1>4. CASE RunMarksInvoked(t)
  BY <1>4 DEF RunMarksInvoked
<1>5. CASE RunInvokes(t)
  BY <1>5 DEF RunInvokes, RunsOK
<1>6. CASE \E final \in {"completed", "failed"} : PluginReturns(t, final)
  BY <1>6 DEF PluginReturns
<1>7. CASE \E final \in {"failed", "cancelled"} : PluginStopped(t, final)
  BY <1>7, Transitions DEF PluginStopped, SetState, CanTransition
<1>8. CASE RunSettles(t)
  BY <1>8 DEF RunSettles, SetState
<1>9. CASE RunRequestsCleanup(t)
  BY <1>9 DEF RunRequestsCleanup
<1>10. CASE \E succeeded \in BOOLEAN : CleanupEnds(t, succeeded)
  BY <1>10 DEF CleanupEnds, CompleteCleanup
<1>11. CASE RunCancelled(t)
  BY <1>11 DEF RunCancelled
<1>12. CASE RunFinishes(t)
  <2>1. outcome[t] \in ReportedStates /\ inbox_tasks' = SetState(t, outcome[t])
    BY <1>12, FinishCommits
  <2>2. pc'[t] = "idle" /\ inbox_tasks'[t].state = outcome[t]
    BY <1>12, <2>1 DEF RunFinishes, SetState
  <2> QED
    BY <2>1, <2>2
<1> QED
  BY <1>1, <1>2, <1>3, <1>4, <1>5, <1>6, <1>7, <1>8, <1>9, <1>10, <1>11, <1>12 DEF RunAdvances

\* The steps that are no coroutine's.
OtherSteps ==
  \/ Interrupt \/ Shutdown \/ FetchFails \/ FetchNone \/ PublishFails
  \/ Gathered \/ Confirm \/ SyncAdvances \/ GraceExpires
  \/ Wake /\ ~ ProcessEnds
  \/ \E t \in Tasks : PluginReports(t) \/ PluginQueuesUpload(t) \/ Publish(t) \/ Cancel(t)
                      \/ Expire(t) \/ CorruptRow(t)

Endings == ProcessEnds /\ (Crash \/ Unwound \/ Wake \/ \E e \in Envelopes : FetchConflict(e))

LEMMA Steps ==
  ASSUME Next
  PROVE  \/ Start \/ Endings \/ OtherSteps
         \/ \E e \in Envelopes : Fetch(e)
         \/ \E batch \in SUBSET Queued : Dispatch(batch)
         \/ \E t \in Tasks : RunAdvances(t)
  BY DEF Next, LoopAdvances, OtherSteps, Endings, Crash, Unwound, FetchConflict

\* They leave every coroutine where it is, and set tokens only.
LEMMA OtherFrame ==
  ASSUME IInv, OtherSteps, NEW t \in Tasks
  PROVE  /\ inbox_tasks'[t].state = inbox_tasks[t].state
         /\ inbox_tasks'[t].payload = inbox_tasks[t].payload
         /\ token'[t] = token[t] \/ token'[t] = "cancelled"
         /\ UNCHANGED <<idempotency_effects, task_attempts, pc, outcome, invocations>>
<1> USE DEF IInv, TypeOK, RowsType, RunnersType, tables, rows, runners, world
<1>1. CASE Interrupt \/ Shutdown \/ GraceExpires
  BY <1>1 DEF Interrupt, Shutdown, GraceExpires
<1>2. CASE FetchFails \/ FetchNone \/ PublishFails \/ Gathered \/ SyncAdvances
  BY <1>2 DEF FetchFails, FetchNone, PublishFails, Gathered, SyncAdvances
<1>3. CASE Confirm
  BY <1>3 DEF Confirm
<1>4. CASE Wake /\ ~ ProcessEnds
  BY <1>4 DEF Wake
<1>5. ASSUME NEW u \in Tasks, PluginReports(u) \/ PluginQueuesUpload(u) \/ Cancel(u) \/ Expire(u)
      PROVE  /\ UNCHANGED rows /\ UNCHANGED <<pc, outcome, invocations>>
             /\ token'[t] = token[t] \/ token'[t] = "cancelled"
  BY <1>5 DEF PluginReports, PluginQueuesUpload, Cancel, Expire
<1>6. ASSUME NEW u \in Tasks, Publish(u)
      PROVE  UNCHANGED rows /\ UNCHANGED <<pc, outcome, invocations, token>>
  BY <1>6 DEF Publish, PublishProgress, PublishResult, PublishUpload
<1>7. ASSUME NEW u \in Tasks, CorruptRow(u)
      PROVE  /\ inbox_tasks'[t].state = inbox_tasks[t].state
             /\ inbox_tasks'[t].payload = inbox_tasks[t].payload
             /\ UNCHANGED <<idempotency_effects, task_attempts, pc, outcome, invocations, token>>
  BY <1>7 DEF CorruptRow, InboxRow
<1> QED
  BY <1>1, <1>2, <1>3, <1>4, <1>5, <1>6, <1>7 DEF OtherSteps

LEMMA RunnerStep ==
  ASSUME JInv, Next, NEW t \in Tasks
  PROVE  RunnerOK(t)'
<1> USE DEF JInv, IInv, TypeOK, RowsType, RunnersType
<1>1. CASE Start
  <2>1. pc[t] = "idle"
    BY <1>1 DEF Start, LoopOK, Running
  <2>2. /\ pc'[t] = "idle"
        /\ \/ inbox_tasks'[t].state = "interrupted"
           \/ inbox_tasks'[t] = inbox_tasks[t] /\ task_attempts'[t] = task_attempts[t]
    BY <1>1, <2>1 DEF Start, runners, InterruptedRow, InterruptedAttempt, InboxRow
  <2> QED
    BY <2>1, <2>2 DEF RunnerOK
<1>2. CASE Endings
  <2>1. pc'[t] = "idle" /\ UNCHANGED <<inbox_tasks, task_attempts>>
    BY <1>2 DEF Endings, ProcessEnds, Crash, Unwound, Wake, FetchConflict, tables, rows
  <2> QED
    BY <2>1 DEF RunnerOK
<1>3. CASE OtherSteps
  BY <1>3, OtherFrame DEF RunnerOK
<1>4. ASSUME NEW e \in Envelopes, Fetch(e)
      PROVE  RunnerOK(t)'
  <2>1. pc[t] = "idle" /\ pc'[t] = "idle" /\ UNCHANGED task_attempts
    BY <1>4 DEF Fetch, LoopOK, Running, runners
  <2>2. inbox_tasks[t].state # "absent" => inbox_tasks'[t] = inbox_tasks[t]
    BY <1>4 DEF Fetch, IngestNew, IngestRepeat
  <2> QED
    BY <2>1, <2>2 DEF RunnerOK
<1>5. ASSUME NEW batch \in SUBSET Queued, Dispatch(batch)
      PROVE  RunnerOK(t)'
  <2>1. pc[t] = "idle"
    BY <1>5 DEF Dispatch, LoopOK, Running
  <2>2. /\ UNCHANGED task_attempts
        /\ \/ pc'[t] = "idle"
              /\ inbox_tasks'[t].state \in {inbox_tasks[t].state, "rejected"}
           \/ pc'[t] = "scheduled" /\ inbox_tasks'[t].state = "queued"
              /\ inbox_tasks[t].state = "queued"
    BY <1>5, <2>1 DEF Dispatch, Queued, InboxRow
  <2> QED
    BY <2>1, <2>2 DEF RunnerOK
<1>6. ASSUME NEW u \in Tasks, RunAdvances(u)
      PROVE  RunnerOK(t)'
  <2>1. CASE u = t
    BY <1>6, <2>1, RunnerOwnStep
  <2>2. CASE u # t
    BY <1>6, <2>2, RunFrame DEF RunnerOK
  <2> QED
    BY <2>1, <2>2
<1> QED
  BY <1>1, <1>2, <1>3, <1>4, <1>5, <1>6, Steps

-----------------------------------------------------------------------------
(* The loop and the abandoned runs *)

\* What the steps of the loop do to loop, stopping and the cancel requests.
LEMMA OtherLoop ==
  ASSUME IInv, OtherSteps
  PROVE  /\ loop = "down" <=> loop' = "down"
         /\ stopping # "no" => stopping' # "no"
         /\ loop = "unwinding" => loop' = "unwinding"
         /\ loop = "gather" => loop' \in {"gather", "unwinding"} \/ Running = {}
         /\ loop' \in {"gather", "unwinding"} \/ loop \notin {"gather", "unwinding"} \/ Running = {}
         /\ \/ cancelRequests' = cancelRequests
            \/ loop' = "unwinding"
            \/ stopping' # "no"
<1> USE DEF IInv, TypeOK, SchedulerType, runners, scheduler
<1>1. CASE Interrupt \/ Shutdown \/ GraceExpires
  BY <1>1 DEF Interrupt, Shutdown, GraceExpires
<1>2. CASE FetchFails \/ FetchNone \/ PublishFails \/ Gathered
  BY <1>2 DEF FetchFails, FetchNone, PublishFails, Gathered, Channels
<1>3. CASE SyncAdvances
  BY <1>3 DEF SyncAdvances, NextChannel, Channels
<1>4. CASE Confirm
  BY <1>4, FlightTask DEF Confirm, OutboxOK, Channels, Flights
<1>5. CASE Wake /\ ~ ProcessEnds
  BY <1>5 DEF Wake
<1>6. ASSUME NEW u \in Tasks, PluginReports(u) \/ PluginQueuesUpload(u) \/ Cancel(u) \/ Expire(u)
                              \/ CorruptRow(u)
      PROVE  UNCHANGED <<loop, stopping, cancelRequests>>
  BY <1>6 DEF PluginReports, PluginQueuesUpload, Cancel, Expire, CorruptRow
<1>7. ASSUME NEW u \in Tasks, Publish(u)
      PROVE  /\ UNCHANGED <<stopping, cancelRequests>> /\ loop \in Channels
             /\ loop' \in {"confirm", "sleep"}
  BY <1>7 DEF Publish, PublishProgress, PublishResult, PublishUpload, Channels
<1> QED
  BY <1>1, <1>2, <1>3, <1>4, <1>5, <1>6, <1>7 DEF OtherSteps, Channels

LEMMA RunLoop ==
  ASSUME IInv, NEW t \in Tasks, RunAdvances(t)
  PROVE  /\ UNCHANGED scheduler /\ pc[t] # "idle"
         /\ cancelRequests' \subseteq cancelRequests
  BY DEF RunAdvances, RunRefused, RunClaims, RunRegisters, RunMarksInvoked, RunInvokes,
         PluginReturns, PluginStopped, RunSettles, RunRequestsCleanup, CleanupEnds, RunCancelled,
         RunFinishes, RunEnds

LEMMA LoopStep ==
  ASSUME JInv, Next
  PROVE  LoopOK'
<1> USE DEF JInv, LoopOK
<1>1. CASE Start
  BY <1>1 DEF Start, runners, Running
<1>2. CASE Endings
  BY <1>2 DEF Endings, ProcessEnds, Running
<1>3. CASE OtherSteps
  <2>1. CASE Tasks = {}
    BY <1>3, <2>1, OtherLoop DEF Running
  <2>2. CASE Tasks # {}
    <3>1. UNCHANGED pc
      BY <1>3, <2>2, OtherFrame
    <3>2. Running' = Running
      BY <3>1 DEF Running
    <3> QED
      BY <1>3, <3>2, OtherLoop
  <2> QED
    BY <2>1, <2>2
<1>4. ASSUME NEW e \in Envelopes, Fetch(e)
      PROVE  LoopOK'
  BY <1>4 DEF Fetch, scheduler, runners, Running
<1>5. ASSUME NEW batch \in SUBSET Queued, Dispatch(batch)
      PROVE  LoopOK'
  BY <1>5 DEF Dispatch
<1>6. ASSUME NEW t \in Tasks, RunAdvances(t)
      PROVE  LoopOK'
  <2>1. t \in Running
    BY <1>6, RunLoop DEF Running
  <2> QED
    BY <1>6, <2>1, RunLoop DEF scheduler
<1> QED
  BY <1>1, <1>2, <1>3, <1>4, <1>5, <1>6, Steps

LEMMA AbandonedStep ==
  ASSUME JInv, Next
  PROVE  AbandonedOnlyByCancellation'
<1> SUFFICES ASSUME NEW t \in Tasks, loop' # "down", inbox_tasks'[t].state \in ActiveStates,
                    pc'[t] = "idle"
             PROVE  token'[t] = "cancelled" \/ loop' = "unwinding" \/ stopping' # "no"
  BY DEF AbandonedOnlyByCancellation
<1> USE DEF JInv, IInv, TypeOK, RowsType, RunnersType
<1>1. CASE Start
  BY <1>1 DEF Start, InterruptedRow, InboxRow, ActiveStates
<1>2. CASE Endings
  BY <1>2 DEF Endings, ProcessEnds
<1>3. CASE OtherSteps
  BY <1>3, OtherFrame, OtherLoop DEF AbandonedOnlyByCancellation
<1>4. ASSUME NEW e \in Envelopes, Fetch(e)
      PROVE  token'[t] = "cancelled" \/ loop' = "unwinding" \/ stopping' # "no"
  <2>1. inbox_tasks'[t] = inbox_tasks[t]
    BY <1>4, DeliveredRow DEF Fetch, IngestNew, IngestRepeat, ActiveStates
  <2> QED
    BY <1>4, <2>1 DEF Fetch, scheduler, runners, AbandonedOnlyByCancellation
<1>5. ASSUME NEW batch \in SUBSET Queued, Dispatch(batch)
      PROVE  token'[t] = "cancelled" \/ loop' = "unwinding" \/ stopping' # "no"
  <2>1. inbox_tasks'[t] = inbox_tasks[t] /\ pc[t] = "idle"
    BY <1>5 DEF Dispatch, InboxRow, ActiveStates, Queued, LoopOK, Running
  <2> QED
    BY <1>5, <2>1 DEF Dispatch, AbandonedOnlyByCancellation
<1>6. ASSUME NEW u \in Tasks, RunAdvances(u), u # t
      PROVE  token'[t] = "cancelled" \/ loop' = "unwinding" \/ stopping' # "no"
  BY <1>6, RunFrame, RunLoop DEF scheduler, AbandonedOnlyByCancellation
<1>7. CASE RunAdvances(t)
  <2> USE DEF RunnerOK, Goto, RunEnds, InboxRow, AttemptRow, SetState, CanTransition
  <2>1. CASE RunRefused(t) \/ RunClaims(t)
    <3>1. RefusedAs(t) \in {"none", "skipped", "blocked", "rejected"}
      BY DEF RefusedAs
    <3> QED
      BY <2>1, <3>1 DEF RunRefused, RunClaims, ActiveStates, rows
  <2>2. CASE RunRegisters(t)
    BY <2>2, Transitions DEF RunRegisters
  <2>3. CASE RunMarksInvoked(t)
    BY <2>3 DEF RunMarksInvoked, ClaimsOK, ActiveStates, Claimed
  <2>4. CASE RunInvokes(t) \/ (\E final \in {"completed", "failed"} : PluginReturns(t, final))
             \/ RunRequestsCleanup(t) \/ (\E succeeded \in BOOLEAN : CleanupEnds(t, succeeded))
    BY <2>4 DEF RunInvokes, PluginReturns, RunRequestsCleanup, CleanupEnds
  <2>5. CASE \E final \in {"failed", "cancelled"} : PluginStopped(t, final)
    BY <2>5 DEF PluginStopped
  <2>6. CASE RunSettles(t)
    BY <2>6, Transitions DEF RunSettles
  <2>7. CASE RunCancelled(t)
    BY <2>7 DEF RunCancelled, LoopOK, scheduler
  <2>8. CASE RunFinishes(t)
    BY <2>8, FinishCommits DEF ReportedStates, ActiveStates
  <2> QED
    BY <1>7, <2>1, <2>2, <2>3, <2>4, <2>5, <2>6, <2>7, <2>8 DEF RunAdvances
<1> QED
  BY <1>1, <1>2, <1>3, <1>4, <1>5, <1>6, <1>7, Steps

-----------------------------------------------------------------------------
(* Results *)

\* A key with a verdict belongs to one claimed task: nobody else's delivery or
\* verdict rewrites its effect row.
LEMMA VerdictStays ==
  ASSUME JInv, Next, NEW t \in Tasks, outbox_results[t].state # "absent"
  PROVE  idempotency_effects'[KeyOf(t)].terminal = idempotency_effects[KeyOf(t)].terminal
<1> USE DEF JInv, IInv, TypeOK, RowsType
<1>1. /\ Claimed(t) /\ Owns(t) /\ inbox_tasks[t].state \in ReportedStates
      /\ inbox_tasks[t].state # "absent"
  BY DEF ReportOK, ClaimsOK, ReportedStates
<1>2. KeyOf(t) \in Keys /\ Canonical(KeyOf(t)) # NoTask
  BY <1>1, EnvelopesAssumption DEF RowsOK, KeyOf, Owns
<1>3. ASSUME NEW e \in Envelopes, Fetch(e)
      PROVE  idempotency_effects'[KeyOf(t)].terminal = idempotency_effects[KeyOf(t)].terminal
  BY <1>2, <1>3 DEF Fetch, IngestNew, IngestRepeat, Canonical
<1>4. ASSUME NEW u \in Tasks, RunFinishes(u)
      PROVE  idempotency_effects'[KeyOf(t)].terminal = idempotency_effects[KeyOf(t)].terminal
  <2>1. inbox_tasks[u].state = "cleaning_up" /\ Claimed(u) /\ Owns(u)
    BY <1>4, FinishCommits DEF ClaimsOK, ActiveStates
  <2>2. KeyOf(u) # KeyOf(t)
    BY <1>1, <2>1 DEF Owns, ReportedStates
  <2> QED
    BY <1>2, <1>4, <2>2, FinishCommits
<1>5. ASSUME NEW u \in Tasks, RunClaims(u)
      PROVE  idempotency_effects'[KeyOf(t)].terminal = idempotency_effects[KeyOf(t)].terminal
  BY <1>2, <1>5 DEF RunClaims, EffectRow, rows
<1>6. CASE UNCHANGED idempotency_effects
  BY <1>6
<1> HIDE DEF JInv, IInv, TypeOK, RowsType
<1> QED
  BY ZenonT(60), <1>3, <1>4, <1>5, <1>6
  DEF Next, LoopAdvances, RunAdvances, Publish, tables, rows, Start,
      Crash, Interrupt, Unwound, Wake, FetchFails, FetchNone, FetchConflict,
      Dispatch, Gathered, RunRefused, RunRegisters, RunMarksInvoked,
      RunInvokes, RunSettles, RunRequestsCleanup, CleanupEnds, PluginReports,
      PluginQueuesUpload, PluginReturns, PluginStopped, RunCancelled, Cancel,
      Shutdown, GraceExpires, PublishProgress, PublishResult, PublishUpload,
      Confirm, PublishFails, SyncAdvances, Expire, CorruptRow

\* A result row is written by finish_with_result and then only confirmed; the
\* server gets the verdict that is stored.
LEMMA ResultSteps ==
  ASSUME JInv, Next, NEW t \in Tasks
  PROVE  /\ \/ outbox_results'[t] = outbox_results[t]
            \/ /\ Confirm /\ inflight.channel = "results" /\ inflight.task = t
               /\ outbox_results[t].state # "absent" /\ outbox_results'[t].state = "confirmed"
               /\ outbox_results'[t].local_state = outbox_results[t].local_state
            \/ RunFinishes(t)
         /\ \/ srvResults'[t] = srvResults[t]
            \/ /\ PublishResult(t) /\ outbox_results[t].state = "pending"
               /\ srvResults'[t] = srvResults[t] \union {outbox_results[t].local_state}
<1> USE DEF JInv, IInv, TypeOK, OutboxesType, WorldType
<1>1. \/ outbox_results'[t] = outbox_results[t]
      \/ /\ Confirm /\ inflight.channel = "results" /\ inflight.task = t
         /\ outbox_results[t].state # "absent" /\ outbox_results'[t].state = "confirmed"
         /\ outbox_results'[t].local_state = outbox_results[t].local_state
      \/ RunFinishes(t)
  <2>1. ASSUME NEW u \in Tasks, u # t, RunFinishes(u)
        PROVE  outbox_results'[t] = outbox_results[t]
    BY <2>1, FinishCommits
  <2>2. CASE Confirm
    <3>1. inflight \in Flights /\ inflight.task \in Tasks
      BY <2>2, FlightTask DEF Confirm, OutboxOK
    <3>2. \/ UNCHANGED outbox_results
          \/ /\ inflight.channel = "results"
             /\ outbox_results' = [outbox_results EXCEPT ![inflight.task].state = "confirmed"]
      BY <2>2, <3>1, FlightTask DEF Confirm, Channels
    <3>3. inflight.channel = "results" => outbox_results[inflight.task].state # "absent"
      BY <2>2 DEF Confirm, OutboxOK
    <3>4. outbox_results \in [Tasks -> ResultRow]
      OBVIOUS
    <3> HIDE DEF JInv, IInv, TypeOK, WorldType
    <3> QED
      BY <2>2, <3>1, <3>2, <3>3, <3>4 DEF ResultRow
  <2>3. CASE UNCHANGED outbox_results
    BY <2>3
  <2> HIDE DEF JInv, IInv, TypeOK, OutboxesType, WorldType
  <2> QED
    BY <2>1, <2>2, <2>3
    DEF Next, LoopAdvances, RunAdvances, Publish, tables, outboxes,
        Start, Crash, Interrupt, Unwound, Wake, FetchFails, FetchNone, Fetch,
        FetchConflict, Dispatch, Gathered, RunRefused, RunClaims,
        RunRegisters, RunMarksInvoked, RunInvokes, RunSettles,
        RunRequestsCleanup, CleanupEnds, PluginReports, PluginQueuesUpload,
        PluginReturns, PluginStopped, RunCancelled, Cancel, Shutdown,
        GraceExpires, PublishProgress, PublishResult, PublishUpload,
        PublishFails, SyncAdvances, Expire, CorruptRow
<1>2. \/ srvResults'[t] = srvResults[t]
      \/ /\ PublishResult(t) /\ outbox_results[t].state = "pending"
         /\ srvResults'[t] = srvResults[t] \union {outbox_results[t].local_state}
  <2>1. ASSUME NEW u \in Tasks, PublishResult(u)
        PROVE  \/ srvResults'[t] = srvResults[t]
               \/ /\ PublishResult(t) /\ outbox_results[t].state = "pending"
                  /\ srvResults'[t] = srvResults[t] \union {outbox_results[t].local_state}
    BY <2>1 DEF PublishResult
  <2>2. CASE UNCHANGED srvResults
    BY <2>2
  <2> HIDE DEF JInv, IInv, TypeOK, OutboxesType, WorldType
  <2> QED
    BY ZenonT(60), <2>1, <2>2
    DEF Next, LoopAdvances, RunAdvances, Publish, world, server,
        Start, Crash, Interrupt, Unwound, Wake, FetchFails, FetchNone, Fetch,
        FetchConflict, Dispatch, Gathered, RunRefused, RunClaims,
        RunRegisters, RunMarksInvoked, RunInvokes, RunSettles,
        RunRequestsCleanup, CleanupEnds, PluginReports, PluginQueuesUpload,
        PluginReturns, PluginStopped, RunCancelled, Cancel, Shutdown,
        GraceExpires, PublishProgress, PublishUpload, RunFinishes, Confirm,
        PublishFails, SyncAdvances, Expire, CorruptRow
<1> QED
  BY <1>1, <1>2

\* Only finish_with_result moves a task to a reported state, and the attempt
\* of a reported task is not touched again.
LEMMA ReportedSteps ==
  ASSUME JInv, Next, NEW t \in Tasks, ~ RunFinishes(t)
  PROVE  /\ inbox_tasks[t].state \in ReportedStates <=> inbox_tasks'[t].state \in ReportedStates
         /\ inbox_tasks[t].state \in ReportedStates =>
              /\ inbox_tasks'[t].state = inbox_tasks[t].state
              /\ KeyOf(t)' = KeyOf(t)
              /\ task_attempts'[t] = task_attempts[t]
<1> USE DEF JInv, IInv, TypeOK, RowsType, RunnersType, ReportedStates
<1>1. CASE Start
  BY <1>1 DEF Start, InterruptedRow, InterruptedAttempt, InboxRow, ActiveStates, KeyOf
<1>2. CASE Endings
  BY <1>2 DEF Endings, Crash, Unwound, Wake, FetchConflict, tables, rows, KeyOf
<1>3. CASE OtherSteps
  BY <1>3, OtherFrame DEF KeyOf
<1>4. ASSUME NEW e \in Envelopes, Fetch(e)
      PROVE  /\ UNCHANGED task_attempts
             /\ \/ inbox_tasks'[t] = inbox_tasks[t]
                \/ /\ inbox_tasks[t].state = "absent"
                   /\ inbox_tasks'[t].state \in {"queued", "duplicate", "blocked"}
  BY <1>4, DeliveredRow DEF Fetch, IngestNew, IngestRepeat
<1>5. ASSUME NEW batch \in SUBSET Queued, Dispatch(batch)
      PROVE  /\ UNCHANGED task_attempts
             /\ \/ inbox_tasks'[t] = inbox_tasks[t]
                \/ inbox_tasks[t].state = "queued" /\ inbox_tasks'[t].state = "rejected"
  BY <1>5 DEF Dispatch, Queued, InboxRow
<1>6. ASSUME NEW u \in Tasks, RunAdvances(u), u # t
      PROVE  inbox_tasks'[t] = inbox_tasks[t] /\ task_attempts'[t] = task_attempts[t]
  BY <1>6, RunFrame
<1>7. CASE RunAdvances(t)
  <2>1. pc[t] # "idle" /\ pc[t] \in RunnerPCs
    BY <1>7, RunLoop
  <2>2. inbox_tasks[t].state \in {"queued", "preparing", "running", "cancel_requested", "cleaning_up"}
    BY <2>1 DEF RunnerOK, RunnerPCs, Synchronous
  <2>3. RefusedAs(t) \in {"none", "skipped", "blocked", "rejected"}
    BY DEF RefusedAs
  <2>4. \/ inbox_tasks' = inbox_tasks
        \/ \E s \in {"skipped", "blocked", "rejected", "preparing", "running", "cancel_requested",
                     "cleaning_up"} : inbox_tasks' = SetState(t, s)
    BY <1>7, <2>3 DEF RunAdvances, RunRefused, RunClaims, RunRegisters, RunMarksInvoked, RunInvokes,
         PluginReturns, PluginStopped, RunSettles, RunRequestsCleanup, CleanupEnds, RunCancelled,
         tables, rows
  <2> QED
    BY <2>2, <2>4 DEF SetState, InboxRow
<1> QED
  BY <1>1, <1>2, <1>3, <1>4, <1>5, <1>6, <1>7, Steps DEF KeyOf

LEMMA ReportStep ==
  ASSUME JInv, Next, NEW t \in Tasks
  PROVE  ReportOK(t)'
<1> USE DEF JInv, IInv, TypeOK, RowsType, OutboxesType, WorldType
<1>1. CASE RunFinishes(t)
  <2>1. /\ inbox_tasks[t].state = "cleaning_up" /\ Claimed(t) /\ outcome[t] \in ReportedStates
        /\ KeyOf(t) \in Keys
    <3>1. inbox_tasks[t].state = "cleaning_up" /\ outcome[t] \in ReportedStates
      BY <1>1, FinishCommits
    <3>2. Claimed(t)
      BY <3>1 DEF ClaimsOK, ActiveStates
    <3>3. inbox_tasks[t].payload \in Envelopes
      BY <3>1 DEF RowsOK
    <3> QED
      BY <3>1, <3>2, <3>3, EnvelopesAssumption DEF KeyOf
  <2>2. outbox_results[t].state = "absent" /\ srvResults[t] = {}
    BY ZenonT(60), <2>1 DEF ReportOK, ReportedStates
  <2>3. /\ outbox_results'[t] = [state |-> "pending", local_state |-> outcome[t]]
        /\ srvResults'[t] = {}
    BY <1>1, <2>2, FinishCommits DEF RunFinishes, world, server
  <2>4. inbox_tasks'[t].state = outcome[t] /\ inbox_tasks'[t].payload = inbox_tasks[t].payload
    BY <1>1, FinishCommits DEF SetState, InboxRow
  <2>5. idempotency_effects'[KeyOf(t)].terminal = outcome[t]
    BY <1>1, <2>1, FinishCommits DEF EffectRow
  <2>6. /\ task_attempts[t].cleanup_requested /\ task_attempts[t].cleanup_attempts = 1
        /\ outcome[t] # "failed" => task_attempts[t].cleanup_completed
    BY <1>1 DEF RunFinishes, RunnerOK
  <2>7. /\ Claimed(t)' /\ task_attempts'[t].cleanup_requested
        /\ task_attempts'[t].cleanup_attempts = 1
        /\ outcome[t] # "failed" => task_attempts'[t].cleanup_completed
    <3>1. task_attempts' = [task_attempts EXCEPT ![t].finished = TRUE]
      BY <1>1, FinishCommits
    <3> HIDE DEF JInv, IInv
    <3> QED
      BY <2>1, <2>6, <3>1 DEF AttemptRow, Claimed
  <2> QED
    BY <2>1, <2>3, <2>4, <2>5, <2>7 DEF ReportOK, KeyOf, ReportedStates
<1>2. CASE ~ RunFinishes(t)
  <2>1. ReportOK(t)
    OBVIOUS
  <2>2. \/ outbox_results'[t] = outbox_results[t]
        \/ /\ outbox_results[t].state # "absent" /\ outbox_results'[t].state = "confirmed"
           /\ outbox_results'[t].local_state = outbox_results[t].local_state
    BY <1>2, ResultSteps
  <2>3. srvResults'[t] \subseteq {outbox_results'[t].local_state}
    BY <1>2, <2>1, <2>2, ResultSteps DEF ReportOK
  <2>4. outbox_results[t].state # "absent" =>
          idempotency_effects'[KeyOf(t)].terminal = idempotency_effects[KeyOf(t)].terminal
    BY VerdictStays
  <2> HIDE DEF JInv
  <2> QED
    BY <1>2, <2>1, <2>2, <2>3, <2>4, ReportedSteps DEF ReportOK, Claimed
<1> QED
  BY <1>1, <1>2

-----------------------------------------------------------------------------
(* Progress, uploads and what is in flight *)

\* The steps that touch no outbox channel.
LEMMA QuietSteps ==
  ASSUME Next, ~ Confirm,
         ~ \E t \in Tasks : PluginReports(t) \/ PluginQueuesUpload(t) \/ Publish(t)
  PROVE  /\ UNCHANGED <<outbox_progress, pending_uploads, srvProgress, srvUploads, srvResults>>
         /\ loop' = "confirm" => loop = "confirm" /\ inflight' = inflight
         /\ loop' \in {"results", "uploads"} =>
              \/ loop' = loop
              \/ loop = "progress" /\ ChannelDone("progress")
              \/ loop = "results"
<1>1. CASE SyncAdvances
  BY <1>1 DEF SyncAdvances, NextChannel, Channels, tables, outboxes, world, server
<1>2. ASSUME NEW t \in Tasks, RunAdvances(t)
      PROVE  UNCHANGED <<outbox_progress, pending_uploads, server, loop, inflight>>
  BY <1>2 DEF RunAdvances, RunRefused, RunClaims, RunRegisters, RunMarksInvoked, RunInvokes,
         PluginReturns, PluginStopped, RunSettles, RunRequestsCleanup, CleanupEnds, RunCancelled,
         RunFinishes, tables, outboxes, world, scheduler
<1>3. ASSUME NEW t \in Tasks, Cancel(t) \/ Expire(t) \/ CorruptRow(t)
      PROVE  UNCHANGED <<outbox_progress, pending_uploads, server, loop, inflight>>
  BY <1>3 DEF Cancel, Expire, CorruptRow, tables, outboxes, world, scheduler
<1> QED
  BY <1>1, <1>2, <1>3
  DEF Next, LoopAdvances, tables, outboxes, world, server, scheduler, Start, Crash, Interrupt,
      Unwound, Wake, ProcessEnds, FetchFails, FetchNone, Fetch, FetchConflict, Dispatch, Gathered,
      Shutdown, GraceExpires, PublishFails

\* An event is queued only while the plugin runs: the outboxes rest, and the
\* server knows no result of that task.
LEMMA ReportingRuns ==
  ASSUME JInv, NEW t \in Tasks, pc[t] = "executing"
  PROVE  loop \in {"gather", "unwinding"} /\ srvResults[t] = {}
<1>1. t \in Running
  BY DEF Running
<1>2. inbox_tasks[t].state = "running"
  BY DEF JInv, RunnerOK
<1>3. outbox_results[t].local_state = "none" /\ srvResults[t] \subseteq {"none"}
  BY <1>2 DEF JInv, ReportOK, ReportedStates
<1>4. srvResults[t] \subseteq ReportedStates
  BY DEF JInv, IInv, TypeOK, WorldType
<1> QED
  BY <1>1, <1>3, <1>4 DEF JInv, LoopOK, ReportedStates

\* The effect of each remaining step on the outboxes and the server.
LEMMA ReportsEvent ==
  ASSUME JInv, NEW t \in Tasks, PluginReports(t)
  PROVE  /\ pc[t] = "executing" /\ loop' = loop /\ inflight' = inflight
         /\ UNCHANGED <<pending_uploads, srvProgress, srvUploads, srvResults>>
         /\ \E n \in Events :
              /\ outbox_progress[t][n] = "absent"
              /\ \A m \in 1 .. n - 1 : outbox_progress[t][m] # "absent"
              /\ outbox_progress'[t][n] = "pending"
              /\ \A u \in Tasks, m \in Events : u # t \/ m # n =>
                   outbox_progress'[u][m] = outbox_progress[u][m]
  BY DEF PluginReports, JInv, IInv, TypeOK, OutboxesType, world, server, scheduler

LEMMA ConfirmRow ==
  ASSUME JInv, Confirm
  PROVE  /\ UNCHANGED <<srvProgress, srvUploads, srvResults>>
         /\ inflight.channel \in Channels /\ loop' = inflight.channel
         /\ \A t \in Tasks, n \in Events :
              \/ outbox_progress'[t][n] = outbox_progress[t][n]
              \/ /\ inflight.channel = "progress" /\ inflight.task = t /\ inflight.sequence = n
                 /\ outbox_progress'[t][n] = "confirmed"
         /\ inflight.channel # "progress" => UNCHANGED outbox_progress
         /\ \A t \in Tasks :
              \/ pending_uploads'[t] = pending_uploads[t]
              \/ inflight.channel = "uploads" /\ inflight.task = t
<1>1. inflight \in Flights
  BY DEF Confirm, JInv, IInv, OutboxOK
<1>2. inflight.channel \in Channels /\ inflight.task \in Tasks
  BY <1>1 DEF Flights, Channels
<1>3. CASE inflight.channel = "progress"
  <2>1. inflight.sequence \in Events
    BY <1>1, <1>3 DEF Flights
  <2> QED
    BY <1>2, <1>3, <2>1 DEF Confirm, JInv, IInv, TypeOK, OutboxesType, world, server
<1>4. CASE inflight.channel = "results"
  BY <1>2, <1>4 DEF Confirm, world, server
<1>5. CASE inflight.channel = "uploads"
  BY <1>2, <1>5 DEF Confirm, JInv, IInv, TypeOK, OutboxesType, world, server
<1> QED
  BY <1>2, <1>3, <1>4, <1>5 DEF Channels

LEMMA FlightStep ==
  ASSUME JInv, Next
  PROVE  FlightOK'
<1> SUFFICES ASSUME loop' = "confirm"
             PROVE  FlightOK'
  BY DEF FlightOK
<1> USE DEF JInv
<1>1. CASE Confirm
  BY <1>1, ConfirmRow DEF Channels
<1>2. ASSUME NEW t \in Tasks, PluginReports(t) \/ PluginQueuesUpload(t)
      PROVE  FALSE
  BY <1>2, ReportingRuns DEF PluginReports, PluginQueuesUpload, scheduler
<1>3. ASSUME NEW t \in Tasks, NEW n \in Events, PublishProgress(t, n)
      PROVE  FlightOK'
  <2>1. /\ inflight' = [channel |-> "progress", task |-> t, sequence |-> n]
        /\ srvProgress'[t] = srvProgress[t] \union {n} /\ UNCHANGED outbox_progress
        /\ outbox_progress[t][n] = "pending"
    BY <1>3 DEF PublishProgress, NextEvent, tables, outboxes, IInv, TypeOK, WorldType
  <2> QED
    BY <2>1 DEF FlightOK
<1>4. ASSUME NEW t \in Tasks, PublishResult(t)
      PROVE  FlightOK'
  <2>1. inflight' = [channel |-> "results", task |-> t] /\ srvResults'[t] # {}
    BY <1>4 DEF PublishResult, IInv, TypeOK, WorldType
  <2> QED
    BY <2>1 DEF FlightOK
<1>5. ASSUME NEW t \in Tasks, PublishUpload(t)
      PROVE  FlightOK'
  BY <1>5 DEF PublishUpload, FlightOK
<1>6. CASE ~ Confirm /\ ~ \E t \in Tasks : PluginReports(t) \/ PluginQueuesUpload(t) \/ Publish(t)
  BY <1>6, QuietSteps DEF FlightOK
<1> QED
  BY <1>1, <1>2, <1>3, <1>4, <1>5, <1>6 DEF Publish

\* The events of every task stay without gaps.
LEMMA GapFreeStep ==
  ASSUME JInv, Next, NEW t \in Tasks, NEW n \in Events, NEW m \in Events, m < n,
         outbox_progress'[t][m] = "absent"
  PROVE  outbox_progress'[t][n] = "absent"
<1> USE DEF JInv, ProgressOK
<1>1. CASE Confirm
  <2>1. outbox_progress[t][m] = "absent"
    BY <1>1, ConfirmRow
  <2>2. outbox_progress[t][n] = "absent"
    BY <2>1
  <2> QED
    <3>1. loop = "confirm"
      BY <1>1 DEF Confirm
    <3>2. ~ (inflight.channel = "progress" /\ inflight.task = t /\ inflight.sequence = n)
      BY <2>2, <3>1 DEF FlightOK
    <3> QED
      BY <1>1, <2>2, <3>2, ConfirmRow
<1>2. ASSUME NEW u \in Tasks, PluginReports(u)
      PROVE  outbox_progress'[t][n] = "absent"
  <2>1. PICK i \in Events : /\ outbox_progress[u][i] = "absent"
                            /\ \A j \in 1 .. i - 1 : outbox_progress[u][j] # "absent"
                            /\ outbox_progress'[u][i] = "pending"
                            /\ \A v \in Tasks, j \in Events : v # u \/ j # i =>
                                 outbox_progress'[v][j] = outbox_progress[v][j]
    BY <1>2, ReportsEvent
  <2>2. outbox_progress[t][m] = "absent" /\ outbox_progress[t][n] = "absent"
    BY <2>1
  <2>3. ~ (u = t /\ i = n)
    BY <2>1, <2>2, BoundsAssumption DEF Events
  <2> QED
    BY <2>1, <2>2, <2>3
<1>3. ASSUME NEW u \in Tasks, PluginQueuesUpload(u) \/ Publish(u)
      PROVE  UNCHANGED outbox_progress
  BY <1>3 DEF PluginQueuesUpload, Publish, PublishProgress, PublishResult, PublishUpload, tables,
              outboxes
<1> QED
  BY <1>1, <1>2, <1>3, QuietSteps

\* Results and uploads are published when no event is pending.
LEMMA DrainedStep ==
  ASSUME JInv, Next, NEW t \in Tasks, NEW n \in Events,
         \/ loop' \in {"results", "uploads"}
         \/ loop' = "confirm" /\ inflight'.channel \in {"results", "uploads"}
  PROVE  outbox_progress'[t][n] # "pending"
<1> USE DEF JInv, ProgressOK
<1>1. CASE Confirm
  <2>1. loop = "confirm" /\ loop' = inflight.channel /\ loop' \in Channels
    BY <1>1, ConfirmRow DEF Confirm
  <2>2. inflight.channel \in {"results", "uploads"}
    BY <2>1 DEF Channels
  <2>3. UNCHANGED outbox_progress
    BY <1>1, <2>2, ConfirmRow
  <2> QED
    BY <2>1, <2>2, <2>3
<1>2. ASSUME NEW u \in Tasks, PluginReports(u) \/ PluginQueuesUpload(u)
      PROVE  FALSE
  BY <1>2, ReportingRuns DEF PluginReports, PluginQueuesUpload, scheduler
<1>3. ASSUME NEW u \in Tasks, Publish(u)
      PROVE  outbox_progress'[t][n] # "pending"
  <2>1. UNCHANGED outbox_progress
    BY <1>3 DEF Publish, PublishProgress, PublishResult, PublishUpload, tables, outboxes
  <2>2. loop \in {"results", "uploads"}
    BY <1>3 DEF Publish, PublishProgress, PublishResult, PublishUpload
  <2> QED
    BY <2>1, <2>2
<1>4. CASE ~ Confirm /\ ~ \E u \in Tasks : PluginReports(u) \/ PluginQueuesUpload(u) \/ Publish(u)
  BY <1>4, QuietSteps DEF ChannelDone
<1> QED
  BY <1>1, <1>2, <1>3, <1>4

LEMMA ProgressStep ==
  ASSUME JInv, Next
  PROVE  ProgressOK'
  BY GapFreeStep, DrainedStep DEF ProgressOK

-----------------------------------------------------------------------------
(* SchedulerInOrder *)

LEMMA DeliveredStep ==
  ASSUME JInv, Next
  PROVE  ConfirmedWasDelivered'
<1> USE DEF JInv, SchedulerInOrder, ConfirmedWasDelivered
<1>1. ASSUME NEW t \in Tasks
      PROVE  srvProgress[t] \subseteq srvProgress'[t] /\ srvUploads \subseteq srvUploads'
  <2>1. ASSUME NEW u \in Tasks, PluginReports(u) \/ PluginQueuesUpload(u) \/ Publish(u)
        PROVE  srvProgress[t] \subseteq srvProgress'[t] /\ srvUploads \subseteq srvUploads'
    BY <2>1 DEF PluginReports, PluginQueuesUpload, Publish, PublishProgress, PublishResult,
                PublishUpload, world, server, IInv, TypeOK, WorldType
  <2> QED
    BY <2>1, QuietSteps, ConfirmRow
<1>2. ASSUME NEW t \in Tasks, NEW n \in Events, outbox_progress'[t][n] = "confirmed"
      PROVE  n \in srvProgress'[t]
  <2>1. CASE Confirm
    <3>1. outbox_progress[t][n] = "confirmed" => n \in srvProgress[t]
      OBVIOUS
    <3>2. inflight.channel = "progress" => inflight.sequence \in srvProgress[inflight.task]
      BY <2>1 DEF Confirm, FlightOK
    <3> QED
      BY <1>1, <1>2, <2>1, <3>1, <3>2, ConfirmRow
  <2>2. ASSUME NEW u \in Tasks, PluginReports(u)
        PROVE  n \in srvProgress'[t]
    BY <1>1, <1>2, <2>2, ReportsEvent
  <2>3. ASSUME NEW u \in Tasks, PluginQueuesUpload(u) \/ Publish(u)
        PROVE  UNCHANGED outbox_progress
    BY <2>3 DEF PluginQueuesUpload, Publish, PublishProgress, PublishResult, PublishUpload, tables,
                outboxes
  <2> QED
    BY <1>1, <1>2, <2>1, <2>2, <2>3, QuietSteps
<1>3. ASSUME NEW t \in Tasks, outbox_results'[t].state = "confirmed"
      PROVE  srvResults'[t] # {}
  <2>1. srvResults[t] \subseteq srvResults'[t]
    BY ResultSteps
  <2>2. CASE Confirm /\ inflight.channel = "results" /\ inflight.task = t
    BY <2>1, <2>2 DEF Confirm, FlightOK
  <2>3. CASE outbox_results'[t] = outbox_results[t]
    BY <1>3, <2>1, <2>3
  <2>4. CASE RunFinishes(t)
    <3>1. outbox_results'[t].state = "pending"
      BY <2>4, FinishCommits DEF IInv, TypeOK, OutboxesType
    <3> QED
      BY <1>3, <3>1
  <2> QED
    BY <2>2, <2>3, <2>4, ResultSteps
<1>4. ASSUME NEW t \in Tasks, pending_uploads'[t] = "confirmed"
      PROVE  t \in srvUploads'
  <2>1. CASE Confirm
    <3>1. inflight.channel = "uploads" => inflight.task \in srvUploads
      BY <2>1 DEF Confirm, FlightOK
    <3> QED
      BY <1>1, <1>4, <2>1, <3>1, ConfirmRow
  <2>2. ASSUME NEW u \in Tasks, PluginQueuesUpload(u)
        PROVE  t \in srvUploads'
    BY <1>1, <1>4, <2>2 DEF PluginQueuesUpload, IInv, TypeOK, OutboxesType
  <2>3. ASSUME NEW u \in Tasks, PluginReports(u) \/ Publish(u)
        PROVE  UNCHANGED pending_uploads
    BY <2>3 DEF PluginReports, Publish, PublishProgress, PublishResult, PublishUpload, tables,
                outboxes
  <2> QED
    BY <1>1, <1>4, <2>1, <2>2, <2>3, QuietSteps
<1> QED
  BY <1>2, <1>3, <1>4

\* The server's events grow by the next pending one.
LEMMA ServerGapFree ==
  ASSUME JInv, Next, NEW t \in Tasks, NEW n \in srvProgress'[t], NEW m \in 1 .. n
  PROVE  m \in srvProgress'[t]
<1> USE DEF JInv, SchedulerInOrder
<1>1. CASE srvProgress'[t] = srvProgress[t]
  BY <1>1 DEF ProgressPrecedesResult
<1>2. ASSUME NEW i \in Events, PublishProgress(t, i)
      PROVE  m \in srvProgress'[t]
  <2>1. srvProgress'[t] = srvProgress[t] \union {i}
    BY <1>2 DEF PublishProgress, IInv, TypeOK, WorldType
  <2>2. CASE n \in srvProgress[t]
    BY <2>1, <2>2 DEF ProgressPrecedesResult
  <2>3. CASE n = i /\ m = i
    BY <2>1, <2>3
  <2>4. CASE n = i /\ m # i
    <3>1. m \in Events /\ m < i /\ m \in 1 .. i - 1
      BY <2>4, BoundsAssumption DEF Events
    <3>2. outbox_progress[t][i] = "pending" /\ outbox_progress[t][m] # "pending"
      BY <1>2, <3>1 DEF PublishProgress, NextEvent
    <3>3. outbox_progress[t][m] # "absent" /\ outbox_progress[t][m] \in RowStates
      BY <3>1, <3>2 DEF ProgressOK, IInv, TypeOK, OutboxesType
    <3>4. m \in srvProgress[t]
      BY <3>1, <3>2, <3>3 DEF ConfirmedWasDelivered, RowStates
    <3> QED
      BY <2>1, <3>4
  <2> QED
    BY <2>1, <2>2, <2>3, <2>4
<1>3. ASSUME NEW u \in Tasks, Publish(u)
      PROVE  srvProgress'[t] = srvProgress[t] \/ \E i \in Events : PublishProgress(t, i)
  BY <1>3 DEF Publish, PublishProgress, PublishResult, PublishUpload, IInv, TypeOK, WorldType
<1>4. ASSUME NEW u \in Tasks, PluginReports(u) \/ PluginQueuesUpload(u)
      PROVE  UNCHANGED srvProgress
  BY <1>4 DEF PluginReports, PluginQueuesUpload, world, server
<1> QED
  BY <1>1, <1>2, <1>3, <1>4, QuietSteps, ConfirmRow

LEMMA ResultAfterProgress ==
  ASSUME JInv, Next, NEW t \in Tasks, srvResults'[t] # {}, NEW n \in Events,
         outbox_progress'[t][n] # "absent"
  PROVE  n \in srvProgress'[t]
<1> USE DEF JInv, SchedulerInOrder
<1>1. srvProgress[t] \subseteq srvProgress'[t]
  <2>1. ASSUME NEW u \in Tasks, PluginReports(u) \/ PluginQueuesUpload(u) \/ Publish(u)
        PROVE  srvProgress[t] \subseteq srvProgress'[t]
    BY <2>1 DEF PluginReports, PluginQueuesUpload, Publish, PublishProgress, PublishResult,
                PublishUpload, world, server, IInv, TypeOK, WorldType
  <2> QED
    BY <2>1, QuietSteps, ConfirmRow
<1>2. CASE PublishResult(t)
  <2>1. loop = "results" /\ UNCHANGED outbox_progress
    BY <1>2 DEF PublishResult, tables, outboxes
  <2>2. outbox_progress[t][n] # "pending" /\ outbox_progress[t][n] \in RowStates
    BY <2>1 DEF ProgressOK, IInv, TypeOK, OutboxesType
  <2>3. outbox_progress[t][n] = "confirmed"
    BY <2>1, <2>2 DEF RowStates
  <2> QED
    BY <1>1, <2>3 DEF ConfirmedWasDelivered
<1>3. CASE srvResults'[t] = srvResults[t]
  <2>1. outbox_progress[t][n] # "absent" => n \in srvProgress[t]
    BY <1>3 DEF ProgressPrecedesResult
  <2>2. CASE Confirm
    <3>1. inflight.channel = "progress" => inflight.sequence \in srvProgress[inflight.task]
      BY <2>2 DEF Confirm, FlightOK
    <3> QED
      BY <1>1, <2>1, <2>2, <3>1, ConfirmRow
  <2>3. ASSUME NEW u \in Tasks, PluginReports(u)
        PROVE  n \in srvProgress'[t]
    <3>1. u # t
      BY <1>3, <2>3, ReportingRuns DEF PluginReports
    <3> QED
      BY <1>1, <2>1, <2>3, <3>1, ReportsEvent
  <2>4. ASSUME NEW u \in Tasks, PluginQueuesUpload(u) \/ Publish(u)
        PROVE  UNCHANGED outbox_progress
    BY <2>4 DEF PluginQueuesUpload, Publish, PublishProgress, PublishResult, PublishUpload, tables,
                outboxes
  <2> QED
    BY <1>1, <2>1, <2>2, <2>3, <2>4, QuietSteps
<1> QED
  BY <1>2, <1>3, ResultSteps

\* Coroutines are created by Dispatch, which finds none running.
LEMMA RunningSteps ==
  ASSUME JInv, Next
  PROVE  Running' \subseteq Running
         \/ \E batch \in SUBSET Queued : Dispatch(batch) /\ Running = {} /\ Running' \subseteq batch
<1> USE DEF JInv, Running
<1>1. CASE Start \/ Endings
  BY <1>1 DEF Start, runners, Endings, ProcessEnds
<1>2. CASE OtherSteps
  BY <1>2, OtherFrame
<1>3. ASSUME NEW e \in Envelopes, Fetch(e)
      PROVE  Running' \subseteq Running
  BY <1>3 DEF Fetch, runners
<1>4. ASSUME NEW batch \in SUBSET Queued, Dispatch(batch)
      PROVE  Running = {} /\ Running' \subseteq batch
  BY <1>4 DEF Dispatch, LoopOK
<1>5. ASSUME NEW u \in Tasks, RunAdvances(u)
      PROVE  Running' \subseteq Running
  BY <1>5, RunFrame, RunLoop
<1> QED
  BY <1>1, <1>2, <1>3, <1>4, <1>5, Steps

LEMMA ConcurrencyStep ==
  ASSUME JInv, Next
  PROVE  WithinConcurrency'
<1>1. IsFiniteSet(Running) /\ Cardinality(Running) <= MaxConcurrency
      /\ Cardinality(Running) \in Nat /\ MaxConcurrency \in Nat
  BY BoundsAssumption, FS_Subset, FS_CardinalityType
  DEF JInv, SchedulerInOrder, WithinConcurrency, Running
<1>2. CASE Running' \subseteq Running
  BY <1>1, <1>2, FS_Subset, FS_CardinalityType DEF WithinConcurrency
<1>3. ASSUME NEW batch \in SUBSET Queued, Dispatch(batch), Running = {}, Running' \subseteq batch
      PROVE  WithinConcurrency'
  <2>1. IsFiniteSet(batch) /\ Cardinality(batch) \in Nat
    BY BoundsAssumption, FS_Subset, FS_CardinalityType DEF Queued
  <2>2. Cardinality(Running) = 0
    BY <1>3, FS_EmptySet
  <2>3. Cardinality(batch) <= MaxConcurrency
    BY <1>1, <1>3, <2>1, <2>2 DEF Dispatch, OldestQueued
  <2>4. Cardinality(Running') <= Cardinality(batch) /\ Cardinality(Running') \in Nat
    BY <1>3, <2>1, FS_Subset, FS_CardinalityType
  <2> QED
    BY <1>1, <2>1, <2>3, <2>4 DEF WithinConcurrency
<1> QED
  BY <1>2, <1>3, RunningSteps

-----------------------------------------------------------------------------
(* Invariance *)

LEMMA InitJInv == Init => JInv
<1> SUFFICES ASSUME Init PROVE JInv
  OBVIOUS
<1>1. IInv
  BY InitIInv
<1>2. \A t \in Tasks : RunnerOK(t) /\ ReportOK(t)
  BY DEF Init, RunnerOK, ReportOK, ReportedStates
<1>3. Running = {} /\ LoopOK
  BY DEF Init, LoopOK, Running
<1>4. AbandonedOnlyByCancellation /\ FlightOK /\ ProgressOK
  BY DEF Init, AbandonedOnlyByCancellation, FlightOK, ProgressOK
<1>5. ConfirmedWasDelivered /\ ProgressPrecedesResult
  BY DEF Init, ConfirmedWasDelivered, ProgressPrecedesResult
<1>6. WithinConcurrency
  BY <1>3, FS_EmptySet, BoundsAssumption DEF WithinConcurrency
<1> QED
  BY <1>1, <1>2, <1>3, <1>4, <1>5, <1>6 DEF JInv, SchedulerInOrder

LEMMA StepJInv == JInv /\ [Next]_vars => JInv'
<1> SUFFICES ASSUME JInv, [Next]_vars PROVE JInv'
  OBVIOUS
<1>1. IInv'
  BY StepIInv DEF JInv
<1>2. CASE Next
  <2>1. \A t \in Tasks : RunnerOK(t)' /\ ReportOK(t)'
    BY <1>2, RunnerStep, ReportStep
  <2>2. LoopOK' /\ AbandonedOnlyByCancellation' /\ FlightOK' /\ ProgressOK'
    BY <1>2, LoopStep, AbandonedStep, FlightStep, ProgressStep
  <2>3. ProgressPrecedesResult'
    BY <1>2, ServerGapFree, ResultAfterProgress DEF ProgressPrecedesResult
  <2>4. ConfirmedWasDelivered' /\ WithinConcurrency'
    BY <1>2, DeliveredStep, ConcurrencyStep
  <2> QED
    BY <1>1, <2>1, <2>2, <2>3, <2>4 DEF JInv, SchedulerInOrder
<1>3. CASE UNCHANGED vars
  <2> USE DEF vars, tables, rows, outboxes, intake, runners, scheduler, world, server
  <2>1. \A t \in Tasks : RunnerOK(t)' /\ ReportOK(t)'
    BY <1>3 DEF JInv, RunnerOK, ReportOK, Claimed, KeyOf
  <2>2. LoopOK' /\ AbandonedOnlyByCancellation' /\ FlightOK' /\ ProgressOK'
    BY <1>3 DEF JInv, LoopOK, Running, AbandonedOnlyByCancellation, FlightOK, ProgressOK
  <2>3. SchedulerInOrder'
    BY <1>3 DEF JInv, SchedulerInOrder, ConfirmedWasDelivered, ProgressPrecedesResult,
                WithinConcurrency, Running
  <2> QED
    BY <1>1, <2>1, <2>2, <2>3 DEF JInv
<1> QED
  BY <1>2, <1>3

LEMMA OutcomeInvariance == Spec => []JInv
  BY InitJInv, StepJInv, PTL DEF Spec

\* However a run ends, its tables tell one story: a result row exists exactly
\* for a reported task, agrees with the task row, the effect row and the
\* server, and follows one cleanup; a claimed task is left over only when
\* somebody cancelled it (TaskRunner.run, finish_with_result, recovery).
THEOREM RunsTheorem == Spec => []RunsAccounted
<1>1. JInv => RunsAccounted
  BY DEF JInv, ReportOK, RunsAccounted, ResultsAgree, CleanupBeforeResult
<1> QED
  BY <1>1, OutcomeInvariance, PTL

\* Scheduler.run_once marks a row confirmed only after the server has it, shows
\* the server a task's events without gaps and before its result, and never has
\* more than max_concurrency coroutines.
THEOREM SchedulerTheorem == Spec => []SchedulerInOrder
<1>1. JInv => SchedulerInOrder
  BY DEF JInv
<1> QED
  BY <1>1, OutcomeInvariance, PTL

-----------------------------------------------------------------------------
(* The refinement of EffectLedger *)

\* The canonical task of a key is stored and carries the key; a key nobody
\* owns has no verdict.
CanonicalOK ==
  \A k \in Keys :
    IF Canonical(k) = NoTask THEN idempotency_effects[k].terminal = "none"
    ELSE /\ Canonical(k) \in Tasks
         /\ inbox_tasks[Canonical(k)].state # "absent" /\ KeyOf(Canonical(k)) = k

KInv == JInv /\ CanonicalOK

\* The refinement mapping.
Status == [k \in Keys |-> LedgerStatus(k)]
Ran == {k \in Keys : \E t \in Tasks : invocations[t] > 0 /\ KeyOf(t) = k}
Verdict == [k \in Keys |-> idempotency_effects[k].terminal]
Delivered == [k \in Keys |-> UNION {srvResults[t] : t \in
               {u \in Tasks : srvResults[u] # {} /\ KeyOf(u) = k}}]

LEMMA CanonicalStep ==
  ASSUME KInv, Next
  PROVE  CanonicalOK'
<1> SUFFICES ASSUME NEW k \in Keys
             PROVE  IF Canonical(k)' = NoTask THEN idempotency_effects'[k].terminal = "none"
                    ELSE /\ Canonical(k)' \in Tasks
                         /\ inbox_tasks'[Canonical(k)'].state # "absent"
                         /\ KeyOf(Canonical(k))' = k
  BY DEF CanonicalOK, KeyOf, Canonical
<1> USE DEF KInv, JInv
<1>1. CASE Canonical(k) # NoTask
  <2> DEFINE c == Canonical(k)
  <2>1. c \in Tasks /\ inbox_tasks[c].state # "absent" /\ KeyOf(c) = k
    BY <1>1 DEF CanonicalOK
  <2>2. Canonical(k)' = c
    BY <1>1, EffectStep
  <2>3. inbox_tasks'[c].payload = inbox_tasks[c].payload /\ inbox_tasks'[c].state # "absent"
    BY <2>1, RowStep DEF PreExecutionTerminal, ActiveStates, ExecutionTerminal
  <2> QED
    BY <1>1, <2>1, <2>2, <2>3 DEF KeyOf
<1>2. CASE Canonical(k) = NoTask
  <2>1. idempotency_effects[k].terminal = "none"
    BY <1>2 DEF CanonicalOK
  <2>2. CASE idempotency_effects'[k] = idempotency_effects[k]
    BY <1>2, <2>1, <2>2 DEF Canonical
  <2>3. ASSUME NEW e \in Envelopes, Fetch(e), IngestNew(e), e.idempotency_key = k
        PROVE  Canonical(k)' = e.task_id /\ e.task_id \in Tasks /\ inbox_tasks'[e.task_id].payload = e
               /\ inbox_tasks'[e.task_id].state # "absent"
    BY <2>3, DeliveredRow DEF IngestNew, Canonical, IInv, TypeOK, RowsType
  <2>4. ASSUME NEW e \in Envelopes, Fetch(e)
        PROVE  idempotency_effects'[k] = idempotency_effects[k]
               \/ (IngestNew(e) /\ e.idempotency_key = k)
    BY <2>4 DEF Fetch, IngestNew, IngestRepeat, IInv, TypeOK, RowsType
  <2>5. ASSUME NEW t \in Tasks, RunClaims(t) \/ RunFinishes(t)
        PROVE  idempotency_effects'[k] = idempotency_effects[k]
    <3>1. CASE idempotency_effects' # idempotency_effects
      <4>1. inbox_tasks[t].state \in {"queued", "cleaning_up"}
        BY <2>5, <3>1, FinishCommits DEF RunClaims, Claimable, rows
      <4>2. Owns(t)
        BY <4>1 DEF IInv, ClaimsOK, ActiveStates
      <4>3. KeyOf(t) # k
        BY <1>2, <4>2, EnvelopesAssumption DEF Owns
      <4> QED
        BY <2>5, <4>3, FinishCommits DEF RunClaims, rows, IInv, TypeOK, RowsType
    <3> QED
      BY <3>1
  <2>6. CASE UNCHANGED idempotency_effects
    BY <2>2, <2>6
  <2>7. \/ UNCHANGED idempotency_effects
        \/ \E e \in Envelopes : Fetch(e)
        \/ \E t \in Tasks : RunClaims(t) \/ RunFinishes(t)
    <3> HIDE DEF KInv, JInv
    <3> QED
      BY ZenonT(60) DEF Next, LoopAdvances, RunAdvances, Publish, tables, rows, Start,
      Crash, Interrupt, Unwound, Wake, FetchFails, FetchNone, FetchConflict,
      Dispatch, Gathered, RunRefused, RunRegisters, RunMarksInvoked,
      RunInvokes, RunSettles, RunRequestsCleanup, CleanupEnds, PluginReports,
      PluginQueuesUpload, PluginReturns, PluginStopped, RunCancelled, Cancel,
      Shutdown, GraceExpires, PublishProgress, PublishResult, PublishUpload,
      Confirm, PublishFails, SyncAdvances, Expire, CorruptRow
  <2>8. ASSUME NEW e \in Envelopes, Fetch(e), IngestNew(e), e.idempotency_key = k
        PROVE  KeyOf(Canonical(k))' = k
    BY <2>3, <2>8 DEF KeyOf
  <2> QED
    BY <2>2, <2>3, <2>4, <2>5, <2>6, <2>7, <2>8, EnvelopesAssumption
<1> QED
  BY <1>1, <1>2

LEMMA CanonicalInvariance == Spec => []KInv
<1>1. Init => KInv
  <2> SUFFICES ASSUME Init PROVE CanonicalOK
    BY InitJInv DEF KInv
  <2> QED
    BY DEF Init, CanonicalOK, Canonical
<1>2. KInv /\ [Next]_vars => KInv'
  <2> SUFFICES ASSUME KInv, [Next]_vars PROVE CanonicalOK'
    BY StepJInv DEF KInv
  <2>1. CASE UNCHANGED vars
    BY <2>1 DEF KInv, CanonicalOK, Canonical, KeyOf, vars, tables, rows
  <2> QED
    BY <2>1, CanonicalStep
<1> QED
  BY <1>1, <1>2, PTL DEF Spec

\* What ran and what was delivered under a key is what its canonical task ran
\* and delivered: no other task of the key is ever claimed.
ByOwner ==
  \A k \in Keys :
    /\ k \in Ran <=> Canonical(k) # NoTask /\ invocations[Canonical(k)] > 0
    /\ Delivered[k] = IF Canonical(k) = NoTask THEN {} ELSE srvResults[Canonical(k)]

LEMMA LedgerView == KInv => ByOwner
<1> SUFFICES ASSUME KInv, NEW k \in Keys
             PROVE  /\ k \in Ran <=> Canonical(k) # NoTask /\ invocations[Canonical(k)] > 0
                    /\ Delivered[k] = IF Canonical(k) = NoTask THEN {} ELSE srvResults[Canonical(k)]
  BY DEF ByOwner
<1> USE DEF KInv, JInv
<1>1. \A t \in Tasks : invocations[t] > 0 => Owns(t)
  <2>1. \A t \in Tasks : invocations[t] > 0 => Claimed(t)
    BY DEF IInv, RunsOK
  <2> QED
    BY <2>1 DEF IInv, ClaimsOK
<1>2. \A t \in Tasks : srvResults[t] # {} => Owns(t)
  <2> SUFFICES ASSUME NEW t \in Tasks, srvResults[t] # {}
               PROVE  Claimed(t)
    BY DEF IInv, ClaimsOK
  <2>1. srvResults[t] \subseteq ReportedStates
    BY DEF IInv, TypeOK, WorldType
  <2>2. outbox_results[t].local_state # "none"
    BY <2>1 DEF ReportOK, ReportedStates
  <2> QED
    BY <2>2 DEF ReportOK
<1>3. Canonical(k) # NoTask => Canonical(k) \in Tasks /\ KeyOf(Canonical(k)) = k
  BY DEF CanonicalOK
<1>4. k \in Ran <=> Canonical(k) # NoTask /\ invocations[Canonical(k)] > 0
  BY <1>1, <1>3, EnvelopesAssumption DEF Ran, Owns
<1>5. \A t \in Tasks : srvResults[t] # {} /\ KeyOf(t) = k => t = Canonical(k)
  BY <1>2 DEF Owns
<1>6. \A x : x \in Delivered[k] <=>
              \E t \in Tasks : srvResults[t] # {} /\ KeyOf(t) = k /\ x \in srvResults[t]
  <2>1. Delivered[k] = UNION {srvResults[t] : t \in
                         {u \in Tasks : srvResults[u] # {} /\ KeyOf(u) = k}}
    BY DEF Delivered
  <2> QED
    BY <2>1, Zenon
<1>7. Delivered[k] = IF Canonical(k) = NoTask THEN {} ELSE srvResults[Canonical(k)]
  <2> HIDE DEF KInv, JInv
  <2>1. CASE Canonical(k) = NoTask
    BY <1>5, <1>6, <2>1, EnvelopesAssumption
  <2>2. CASE Canonical(k) # NoTask
    BY <1>3, <1>5, <1>6, <2>2
  <2> QED
    BY <2>1, <2>2
<1> QED
  BY <1>4, <1>7

\* A key whose owner did nothing the ledger records keeps its entry.
LEMMA EntryKept ==
  ASSUME KInv, KInv', NEW k \in Keys, Canonical(k)' = Canonical(k),
         Canonical(k) # NoTask =>
           LET c == Canonical(k)
           IN  /\ \/ inbox_tasks'[c].state = inbox_tasks[c].state
                  \/ inbox_tasks'[c].state \in ActiveStates /\ inbox_tasks[c].state \in ActiveStates
               /\ invocations'[c] = invocations[c] /\ srvResults'[c] = srvResults[c]
  PROVE  /\ Status'[k] = Status[k]
         /\ k \in Ran' <=> k \in Ran
         /\ Delivered'[k] = Delivered[k]
<1>1. ByOwner /\ ByOwner'
  BY LedgerView, PTL
<1>2. k \in Ran' <=> k \in Ran
  BY <1>1 DEF ByOwner
<1>3. Delivered'[k] = Delivered[k]
  BY <1>1 DEF ByOwner
<1>4. Status'[k] = Status[k]
  BY DEF Status, LedgerStatus, ActiveStates
<1> QED
  BY <1>2, <1>3, <1>4

\* Entries that are all kept are an unchanged ledger.
LEMMA LedgerKept ==
  ASSUME \A k \in Keys : /\ Status'[k] = Status[k] /\ (k \in Ran' <=> k \in Ran)
                         /\ Delivered'[k] = Delivered[k] /\ Verdict'[k] = Verdict[k]
  PROVE  UNCHANGED <<Status, Ran, Verdict, Delivered>>
<1>1. Status' = Status
  BY DEF Status
<1>2. Ran' = Ran
  BY DEF Ran
<1>3. Verdict' = Verdict
  BY DEF Verdict
<1>4. Delivered' = Delivered
  BY DEF Delivered
<1> QED
  BY <1>1, <1>2, <1>3, <1>4

\* The ledger's word for the state of an owner's row.
EntryStatus(state) ==
  IF state = "queued" THEN "accepted" ELSE IF state \in ActiveStates THEN "claimed" ELSE "closed"

\* A step of one owner changes the entry of its key alone.
LEMMA OneEntry ==
  ASSUME KInv, KInv', NEW t \in Tasks, Owns(t), KeyOf(t) \in Keys,
         \A k \in Keys : Canonical(k)' = Canonical(k),
         \A u \in Tasks : u # t =>
           /\ inbox_tasks'[u] = inbox_tasks[u] /\ invocations'[u] = invocations[u]
           /\ srvResults'[u] = srvResults[u],
         \A k \in Keys : k # KeyOf(t) => Verdict'[k] = Verdict[k]
  PROVE  /\ Status[KeyOf(t)] = EntryStatus(inbox_tasks[t].state)
         /\ Status' = [Status EXCEPT ![KeyOf(t)] = EntryStatus(inbox_tasks'[t].state)]
         /\ KeyOf(t) \in Ran <=> invocations[t] > 0
         /\ Ran' = IF invocations'[t] > 0 THEN Ran \union {KeyOf(t)} ELSE Ran \ {KeyOf(t)}
         /\ Verdict' = [Verdict EXCEPT ![KeyOf(t)] = Verdict'[KeyOf(t)]]
         /\ Delivered[KeyOf(t)] = srvResults[t]
         /\ Delivered' = [Delivered EXCEPT ![KeyOf(t)] = srvResults'[t]]
<1>0. PICK o \in Keys : o = KeyOf(t)
  OBVIOUS
<1>1. ByOwner /\ ByOwner'
  BY LedgerView, PTL
<1>2. o \in Keys /\ Canonical(o) = t /\ Canonical(o)' = t /\ t # NoTask
  BY <1>0, EnvelopesAssumption DEF Owns
<1>3. \A k \in Keys : k # o => Canonical(k) # t
  BY <1>0, EnvelopesAssumption DEF KInv, CanonicalOK
<1>4. \A k \in Keys : k # o => Status'[k] = Status[k] /\ (k \in Ran' <=> k \in Ran)
                               /\ Delivered'[k] = Delivered[k]
  <2> SUFFICES ASSUME NEW k \in Keys, k # o
               PROVE  Status'[k] = Status[k] /\ (k \in Ran' <=> k \in Ran)
                      /\ Delivered'[k] = Delivered[k]
    OBVIOUS
  <2>1. Canonical(k) # NoTask => Canonical(k) \in Tasks /\ Canonical(k) # t
    BY <1>3 DEF KInv, CanonicalOK
  <2> QED
    BY <2>1, EntryKept
<1>5. Status[o] = EntryStatus(inbox_tasks[t].state) /\ Status'[o] = EntryStatus(inbox_tasks'[t].state)
  BY <1>2 DEF Status, LedgerStatus, EntryStatus
<1>6. Status' = [Status EXCEPT ![o] = EntryStatus(inbox_tasks'[t].state)]
  BY <1>2, <1>4, <1>5 DEF Status
<1>7. (o \in Ran <=> invocations[t] > 0) /\ (o \in Ran' <=> invocations'[t] > 0)
  BY <1>1, <1>2 DEF ByOwner
<1>8. Ran' = IF invocations'[t] > 0 THEN Ran \union {o} ELSE Ran \ {o}
  <2>1. Ran \subseteq Keys /\ Ran' \subseteq Keys
    BY DEF Ran
  <2> QED
    BY <1>2, <1>4, <1>7, <2>1
<1>9. Delivered[o] = srvResults[t] /\ Delivered'[o] = srvResults'[t]
  BY <1>1, <1>2 DEF ByOwner
<1>10. Delivered' = [Delivered EXCEPT ![o] = srvResults'[t]]
  BY <1>2, <1>4, <1>9 DEF Delivered
<1>11. Verdict' = [Verdict EXCEPT ![o] = Verdict'[o]]
  BY <1>0, <1>2 DEF Verdict
<1> QED
  BY <1>0, <1>5, <1>6, <1>7, <1>8, <1>9, <1>10, <1>11

\* The ledger's actions in terms of the mapping.
LEMMA LedgerAccepts ==
  ASSUME NEW k \in Keys, Status[k] = "free", Status' = [Status EXCEPT ![k] = "accepted"],
         UNCHANGED <<Ran, Verdict, Delivered>>
  PROVE  Ledger!Next
<1>1. Ledger!Accept(k)
  BY DEF Ledger!Accept, Status, Ran, Verdict, Delivered
<1> QED
  BY <1>1 DEF Ledger!Next

LEMMA LedgerClaims ==
  ASSUME NEW k \in Keys, Status[k] = "accepted", Status' = [Status EXCEPT ![k] = "claimed"],
         UNCHANGED <<Ran, Verdict, Delivered>>
  PROVE  Ledger!Next
<1>1. Ledger!Claim(k)
  BY DEF Ledger!Claim, Status, Ran, Verdict, Delivered
<1> QED
  BY <1>1 DEF Ledger!Next

LEMMA LedgerRuns ==
  ASSUME NEW k \in Keys, Status[k] = "claimed", k \notin Ran, Ran' = Ran \union {k},
         UNCHANGED <<Status, Verdict, Delivered>>
  PROVE  Ledger!Next
<1>1. Ledger!Run(k)
  BY DEF Ledger!Run, Status, Ran, Verdict, Delivered
<1> QED
  BY <1>1 DEF Ledger!Next

LEMMA LedgerReports ==
  ASSUME NEW k \in Keys, NEW v \in ReportedStates, Status[k] = "claimed", k \in Ran,
         Status' = [Status EXCEPT ![k] = "closed"], Verdict' = [Verdict EXCEPT ![k] = v],
         UNCHANGED <<Ran, Delivered>>
  PROVE  Ledger!Next
<1>1. Ledger!Report(k, v)
  BY DEF Ledger!Report, Status, Ran, Verdict, Delivered
<1> QED
  BY <1>1 DEF Ledger!Next

LEMMA LedgerDelivers ==
  ASSUME NEW k \in Keys, Verdict[k] # "none", Delivered' = [Delivered EXCEPT ![k] = {Verdict[k]}],
         UNCHANGED <<Status, Ran, Verdict>>
  PROVE  Ledger!Next
<1>1. Ledger!Deliver(k)
  BY DEF Ledger!Deliver, Status, Ran, Verdict, Delivered
<1> QED
  BY <1>1 DEF Ledger!Next

LEMMA LedgerCloses ==
  ASSUME NEW K \in SUBSET Keys, (\A k \in K : Status[k] = "accepted") \/ (\A k \in K : Status[k] = "claimed"),
         Status' = [k \in Keys |-> IF k \in K THEN "closed" ELSE Status[k]],
         UNCHANGED <<Ran, Verdict, Delivered>>
  PROVE  Ledger!Next
<1> USE DEF Status, Ran, Verdict, Delivered
<1>1. Ledger!Refuse(K) \/ Ledger!Abandon(K) => Ledger!Next
  BY DEF Ledger!Next
<1> QED
  BY <1>1 DEF Ledger!Refuse, Ledger!Abandon

\* The steps of the pipeline, mapped.
Simulates == Ledger!Next \/ UNCHANGED <<Status, Ran, Verdict, Delivered>>

\* Recovery closes every claimed key, and Dispatch every accepted one whose
\* owner's row is corrupt.
LEMMA RowsClosed ==
  ASSUME KInv, KInv', NEW C \in SUBSET Tasks,
         (\A t \in C : inbox_tasks[t].state = "queued")
           \/ (\A t \in C : inbox_tasks[t].state \in ActiveStates),
         \A t \in C : inbox_tasks'[t].state \in TerminalStates,
         \A t \in Tasks : t \notin C => inbox_tasks'[t].state = inbox_tasks[t].state,
         UNCHANGED <<idempotency_effects, invocations, srvResults>>
  PROVE  Simulates
<1> DEFINE K == {k \in Keys : Canonical(k) # NoTask /\ Canonical(k) \in C}
<1>1. \A k \in Keys : Canonical(k)' = Canonical(k) /\ Verdict'[k] = Verdict[k]
  BY DEF Canonical, Verdict
<1>2. ByOwner /\ ByOwner'
  BY LedgerView, PTL
<1>3. \A k \in Keys : (k \in Ran' <=> k \in Ran) /\ Delivered'[k] = Delivered[k]
  BY <1>1, <1>2 DEF ByOwner
<1>4. Ran' = Ran /\ Delivered' = Delivered /\ Verdict' = Verdict
  <2>1. Ran' = Ran
    BY <1>3 DEF Ran
  <2>2. Delivered' = Delivered
    BY <1>3 DEF Delivered
  <2> QED
    BY <2>1, <2>2 DEF Verdict
<1>5. \A k \in Keys : Canonical(k) # NoTask => Canonical(k) \in Tasks
  BY DEF KInv, CanonicalOK
<1>6. \A k \in Keys : k \notin K => Status'[k] = Status[k]
  BY <1>1, <1>5 DEF Status, LedgerStatus
<1>7. \A k \in K : Status'[k] = "closed"
  BY <1>1 DEF Status, LedgerStatus, TerminalStates, PreExecutionTerminal, ExecutionTerminal,
              ActiveStates
<1>8. (\A k \in K : Status[k] = "accepted") \/ (\A k \in K : Status[k] = "claimed")
  BY DEF Status, LedgerStatus, ActiveStates
<1>9. Status' = [k \in Keys |-> IF k \in K THEN "closed" ELSE Status[k]]
  BY <1>6, <1>7 DEF Status
<1> HIDE DEF K
<1>10. K \in SUBSET Keys
  BY DEF K
<1> QED
  BY <1>4, <1>8, <1>9, <1>10, LedgerCloses DEF Simulates

LEMMA FetchSimulates ==
  ASSUME KInv, KInv', NEW e \in Envelopes, Fetch(e)
  PROVE  Simulates
<1> DEFINE k == e.idempotency_key
           t == e.task_id
<1> USE DEF KInv, JInv
<1>1. /\ t \in Tasks /\ k \in Keys /\ inbox_tasks[t].state = "absent"
      /\ UNCHANGED <<invocations, srvResults>>
  BY DeliveredRow DEF Fetch, world, server
<1>2. \A u \in Tasks : u # t => inbox_tasks'[u] = inbox_tasks[u]
  BY DEF Fetch, IngestNew, IngestRepeat, IInv, TypeOK, RowsType
<1>3. \A j \in Keys : Canonical(j) # NoTask => Canonical(j) \in Tasks /\ Canonical(j) # t
  BY <1>1 DEF CanonicalOK
<1>4. ASSUME NEW j \in Keys, idempotency_effects'[j] = idempotency_effects[j]
      PROVE  /\ Status'[j] = Status[j] /\ (j \in Ran' <=> j \in Ran)
             /\ Delivered'[j] = Delivered[j] /\ Verdict'[j] = Verdict[j]
  <2>1. Canonical(j)' = Canonical(j) /\ Verdict'[j] = Verdict[j]
    BY <1>4 DEF Canonical, Verdict
  <2> HIDE DEF KInv, JInv
  <2>2. Canonical(j) # NoTask =>
          inbox_tasks'[Canonical(j)] = inbox_tasks[Canonical(j)]
    BY <1>2, <1>3
  <2> QED
    BY <1>1, <2>1, <2>2, EntryKept
<1>5. CASE UNCHANGED idempotency_effects
  BY <1>4, <1>5, LedgerKept DEF Simulates
<1>6. CASE IngestNew(e)
  <2>1. \A j \in Keys : j # k => idempotency_effects'[j] = idempotency_effects[j]
    BY <1>6 DEF IngestNew, IInv, TypeOK, RowsType
  <2>2. /\ Canonical(k) = NoTask /\ idempotency_effects'[k].terminal = "none"
        /\ idempotency_effects'[k].canonical = t /\ inbox_tasks'[t].state = "queued"
    BY <1>1, <1>6 DEF IngestNew, Canonical, NewRow, IInv, TypeOK, RowsType
  <2>3. Status[k] = "free" /\ Status'[k] = "accepted"
    BY <1>1, <2>2, EnvelopesAssumption DEF Status, LedgerStatus, Canonical
  <2>4. Verdict'[k] = Verdict[k]
    BY <1>1, <2>2 DEF CanonicalOK, Verdict
  <2>5. invocations[t] = 0 /\ srvResults[t] = {}
    <3>1. ~ Claimed(t) /\ srvResults[t] \subseteq {"none"} /\ srvResults[t] \subseteq ReportedStates
      BY <1>1 DEF IInv, ClaimsOK, ReportOK, ReportedStates, ActiveStates, ExecutionTerminal, TypeOK,
                  WorldType
    <3> QED
      BY <1>1, <3>1 DEF IInv, RunsOK, ReportedStates
  <2>6. (k \in Ran' <=> k \in Ran) /\ Delivered'[k] = Delivered[k]
    <3>1. ByOwner /\ ByOwner'
      BY LedgerView, PTL
    <3>2. idempotency_effects'[k].canonical = t /\ t # NoTask
      BY <1>1, <2>2, EnvelopesAssumption
    <3> HIDE DEF KInv, JInv
    <3>3. k \notin Ran /\ Delivered[k] = {}
      BY <1>1, <2>2, <3>1 DEF ByOwner
    <3>4. invocations'[t] = 0 /\ srvResults'[t] = {}
      BY <1>1, <2>5
    <3>5. k \notin Ran' /\ Delivered'[k] = {}
      BY <1>1, <3>1, <3>2, <3>4 DEF ByOwner, Canonical
    <3> QED
      BY <3>3, <3>5
  <2> HIDE DEF KInv, JInv
  <2>7. Status' = [Status EXCEPT ![k] = "accepted"]
    BY <1>1, <1>4, <2>1, <2>3 DEF Status
  <2>8. Ran' = Ran /\ Delivered' = Delivered /\ Verdict' = Verdict
    <3>1. \A j \in Keys : (j \in Ran' <=> j \in Ran) /\ Delivered'[j] = Delivered[j]
                         /\ Verdict'[j] = Verdict[j]
      BY <1>4, <2>1, <2>4, <2>6
    <3>2. Ran' = Ran
      BY <3>1 DEF Ran
    <3>3. Delivered' = Delivered
      BY <3>1 DEF Delivered
    <3>4. Verdict' = Verdict
      BY <3>1 DEF Verdict
    <3> QED
      BY <3>2, <3>3, <3>4
  <2> QED
    BY <1>1, <2>3, <2>7, <2>8, LedgerAccepts DEF Simulates
<1> QED
  BY <1>5, <1>6 DEF Fetch, IngestRepeat

\* A coroutine's step changes the entry of its own key, if any.
LEMMA RunSimulates ==
  ASSUME KInv, KInv', Next, NEW t \in Tasks, RunAdvances(t)
  PROVE  Simulates
<1> USE DEF KInv, JInv
<1>1. /\ inbox_tasks[t].state \in {"queued"} \union ActiveStates /\ Owns(t)
      /\ KeyOf(t) \in Keys /\ Canonical(KeyOf(t)) # NoTask
  <2>1. pc[t] # "idle" /\ pc[t] \in RunnerPCs
    BY RunLoop DEF IInv, TypeOK, RunnersType
  <2>2. inbox_tasks[t].state \in {"queued"} \union ActiveStates
    BY <2>1 DEF RunnerOK, RunnerPCs, Synchronous, ActiveStates
  <2>3. Owns(t) /\ inbox_tasks[t].payload \in Envelopes
    BY <2>2 DEF IInv, ClaimsOK, RowsOK, ActiveStates
  <2> QED
    BY <2>2, <2>3, EnvelopesAssumption DEF KeyOf, Owns
<1>2. \/ UNCHANGED idempotency_effects
      \/ /\ RunClaims(t) /\ Claimable(t)
         /\ idempotency_effects' = [idempotency_effects EXCEPT ![KeyOf(t)].claimed = TRUE]
      \/ /\ RunFinishes(t)
         /\ idempotency_effects' = [idempotency_effects EXCEPT ![KeyOf(t)].terminal = outcome[t]]
  <2>1. CASE RunFinishes(t)
    BY <2>1, FinishCommits
  <2>2. CASE ~ RunFinishes(t)
    <3> HIDE DEF KInv, JInv
    <3> QED
      BY <2>2 DEF RunAdvances, RunRefused, RunClaims, RunRegisters, RunMarksInvoked, RunInvokes,
         PluginReturns, PluginStopped, RunSettles, RunRequestsCleanup, CleanupEnds, RunCancelled,
         tables, rows
  <2> QED
    BY <2>1, <2>2
<1>3. \A k \in Keys : Canonical(k)' = Canonical(k) /\ (k # KeyOf(t) => Verdict'[k] = Verdict[k])
  BY <1>1, <1>2 DEF IInv, TypeOK, RowsType, EffectRow, Canonical, Verdict
<1>4. ~ RunFinishes(t) => Verdict' = Verdict
  BY <1>1, <1>2 DEF IInv, TypeOK, RowsType, EffectRow, Verdict
<1>5. UNCHANGED srvResults
  <2> HIDE DEF KInv, JInv
  <2> QED
    BY DEF RunAdvances, RunRefused, RunClaims, RunRegisters, RunMarksInvoked, RunInvokes,
         PluginReturns, PluginStopped, RunSettles, RunRequestsCleanup, CleanupEnds, RunCancelled,
         RunFinishes, world, server
<1>6. \A u \in Tasks : u # t => inbox_tasks'[u] = inbox_tasks[u] /\ invocations'[u] = invocations[u]
  BY RunFrame
<1>7. PICK o \in Keys : o = KeyOf(t)
  BY <1>1
<1>8. /\ Status[o] = EntryStatus(inbox_tasks[t].state)
      /\ Status' = [Status EXCEPT ![o] = EntryStatus(inbox_tasks'[t].state)]
      /\ o \in Ran <=> invocations[t] > 0
      /\ Ran' = IF invocations'[t] > 0 THEN Ran \union {o} ELSE Ran \ {o}
      /\ Verdict' = [Verdict EXCEPT ![o] = Verdict'[o]]
      /\ Delivered[o] = srvResults[t]
      /\ Delivered' = [Delivered EXCEPT ![o] = srvResults'[t]]
  <2> HIDE DEF KInv, JInv
  <2> QED
    BY <1>1, <1>3, <1>5, <1>6, <1>7, OneEntry
<1>9. Delivered' = Delivered
  BY <1>5, <1>8 DEF Delivered
<1>10. invocations'[t] = invocations[t] => Ran' = Ran
  BY <1>8
<1>11. EntryStatus(inbox_tasks'[t].state) = EntryStatus(inbox_tasks[t].state) => Status' = Status
  BY <1>7, <1>8 DEF Status
<1>12. ~ RunInvokes(t) => invocations' = invocations
  <2> HIDE DEF KInv, JInv
  <2> QED
    BY DEF RunAdvances, RunRefused, RunClaims, RunRegisters, RunMarksInvoked,
         PluginReturns, PluginStopped, RunSettles, RunRequestsCleanup, CleanupEnds, RunCancelled,
         RunFinishes, world
<1>13. CASE RunRefused(t)
  <2>1. RefusedAs(t) \in {"skipped", "blocked", "rejected"}
    BY <1>13 DEF RunRefused, RefusedAs
  <2>2. inbox_tasks[t].state = "queued"
    BY <1>13 DEF RunRefused, RunnerOK
  <2>3. inbox_tasks'[t].state = RefusedAs(t)
    BY <1>13, <2>1, <2>2 DEF RunRefused, CanTransition, AllowedTransitions, SetState, IInv, TypeOK,
                             RowsType, InboxRow
  <2>4. Status[o] = "accepted" /\ Status' = [Status EXCEPT ![o] = "closed"]
    BY <1>8, <2>1, <2>2, <2>3 DEF EntryStatus, ActiveStates
  <2>5. Ran' = Ran /\ Verdict' = Verdict
    BY <1>4, <1>10, <1>13 DEF RunRefused, RunFinishes, world
  <2> HIDE DEF KInv, JInv
  <2>6. Status' = [k \in Keys |-> IF k \in {o} THEN "closed" ELSE Status[k]]
    BY <1>7, <2>4 DEF Status
  <2> QED
    BY <1>7, <1>9, <2>4, <2>5, <2>6, LedgerCloses DEF Simulates
<1>14. CASE RunClaims(t) /\ Claimable(t)
  <2>1. inbox_tasks[t].state = "queued" /\ inbox_tasks'[t].state = "preparing"
    BY <1>14 DEF RunClaims, Claimable, SetState, IInv, TypeOK, RowsType, InboxRow
  <2>2. Status[o] = "accepted" /\ Status' = [Status EXCEPT ![o] = "claimed"]
    BY <1>8, <2>1 DEF EntryStatus, ActiveStates
  <2>3. Ran' = Ran /\ Verdict' = Verdict
    BY <1>4, <1>10, <1>14 DEF RunClaims, RunFinishes, world
  <2> QED
    BY <1>7, <1>9, <2>2, <2>3, LedgerClaims DEF Simulates
<1>15. CASE RunInvokes(t)
  <2>1. inbox_tasks[t].state = "running" /\ UNCHANGED inbox_tasks /\ invocations[t] = 0
    BY <1>15 DEF RunInvokes, RunnerOK, tables, rows, IInv, RunsOK
  <2>2. invocations'[t] = 1
    BY <1>15, <2>1 DEF RunInvokes, IInv, TypeOK, WorldType
  <2>3. Status[o] = "claimed" /\ Status' = Status
    BY <1>8, <1>11, <2>1 DEF EntryStatus, ActiveStates
  <2>4. o \notin Ran /\ Ran' = Ran \union {o} /\ Verdict' = Verdict
    BY <1>4, <1>8, <1>15, <2>1, <2>2 DEF RunInvokes, RunFinishes
  <2> QED
    BY <1>7, <1>9, <2>3, <2>4, LedgerRuns DEF Simulates
<1>16. CASE RunFinishes(t)
  <2>1. outcome[t] \in ReportedStates /\ inbox_tasks[t].state = "cleaning_up"
        /\ inbox_tasks' = SetState(t, outcome[t])
    BY <1>16, FinishCommits
  <2>2. inbox_tasks'[t].state = outcome[t]
    BY <2>1 DEF SetState, IInv, TypeOK, RowsType, InboxRow
  <2>3. Status[o] = "claimed" /\ Status' = [Status EXCEPT ![o] = "closed"]
    BY <1>8, <2>1, <2>2 DEF EntryStatus, ActiveStates, ReportedStates
  <2>4. invocations[t] = 1 /\ UNCHANGED invocations
    BY <1>16 DEF RunFinishes, RunnerOK, world
  <2>5. o \in Ran /\ Ran' = Ran
    BY <1>8, <1>10, <2>4
  <2>6. Verdict'[o] = outcome[t]
    BY <1>7, <1>16, FinishCommits DEF Verdict, IInv, TypeOK, RowsType, EffectRow
  <2> QED
    BY <1>7, <1>8, <1>9, <2>1, <2>3, <2>5, <2>6, LedgerReports DEF Simulates
<1>17. CASE /\ ~ RunRefused(t) /\ ~ RunInvokes(t) /\ ~ RunFinishes(t)
            /\ ~ (RunClaims(t) /\ Claimable(t))
  <2>1. \/ inbox_tasks' = inbox_tasks
        \/ \E s \in ActiveStates : inbox_tasks' = SetState(t, s) /\ pc[t] # "scheduled"
    <3> HIDE DEF KInv, JInv
    <3> QED
      BY <1>17 DEF RunAdvances, RunClaims, RunRegisters, RunMarksInvoked,
         PluginReturns, PluginStopped, RunSettles, RunRequestsCleanup, CleanupEnds, RunCancelled,
         tables, rows, ActiveStates
  <2>2. pc[t] # "scheduled" => inbox_tasks[t].state \in ActiveStates
    <3>1. pc[t] # "idle" /\ pc[t] \in RunnerPCs
      BY RunLoop DEF IInv, TypeOK, RunnersType
    <3> QED
      BY <3>1 DEF RunnerOK, RunnerPCs, Synchronous, ActiveStates
  <2>3. EntryStatus(inbox_tasks'[t].state) = EntryStatus(inbox_tasks[t].state)
    BY <2>1, <2>2 DEF EntryStatus, SetState, IInv, TypeOK, RowsType, InboxRow, ActiveStates
  <2> QED
    BY <1>4, <1>9, <1>10, <1>11, <1>12, <1>17, <2>3 DEF Simulates
<1> QED
  BY <1>13, <1>14, <1>15, <1>16, <1>17

\* A published result is the stored verdict of the key, however often it goes
\* out.
LEMMA PublishSimulates ==
  ASSUME KInv, KInv', NEW t \in Tasks, PublishResult(t)
  PROVE  Simulates
<1> USE DEF KInv, JInv
<1>1. /\ Claimed(t) /\ inbox_tasks[t].state = outbox_results[t].local_state
      /\ idempotency_effects[KeyOf(t)].terminal = outbox_results[t].local_state
      /\ srvResults[t] \subseteq {outbox_results[t].local_state}
      /\ outbox_results[t].local_state \in ReportedStates
  BY DEF PublishResult, ReportOK, IInv, OutboxOK
<1>2. Owns(t) /\ inbox_tasks[t].payload \in Envelopes
  BY <1>1 DEF IInv, ClaimsOK, RowsOK, ReportedStates
<1>3. PICK o \in Keys : o = KeyOf(t)
  BY <1>2, EnvelopesAssumption DEF KeyOf
<1>4. UNCHANGED <<inbox_tasks, idempotency_effects, invocations>>
  BY DEF PublishResult, tables, rows
<1>5. srvResults'[t] = {outbox_results[t].local_state}
      /\ \A u \in Tasks : u # t => srvResults'[u] = srvResults[u]
  BY <1>1 DEF PublishResult, IInv, TypeOK, WorldType
<1>6. \A k \in Keys : Canonical(k)' = Canonical(k) /\ Verdict'[k] = Verdict[k]
  BY <1>4 DEF Canonical, Verdict
<1> HIDE DEF KInv, JInv
<1>7. /\ Status[o] = EntryStatus(inbox_tasks[t].state)
      /\ Status' = [Status EXCEPT ![o] = EntryStatus(inbox_tasks'[t].state)]
      /\ o \in Ran <=> invocations[t] > 0
      /\ Ran' = IF invocations'[t] > 0 THEN Ran \union {o} ELSE Ran \ {o}
      /\ Delivered' = [Delivered EXCEPT ![o] = srvResults'[t]]
  BY <1>2, <1>3, <1>4, <1>5, <1>6, OneEntry
<1>8. Status' = Status
  BY <1>3, <1>4, <1>7 DEF Status
<1>9. Ran' = Ran /\ Verdict' = Verdict
  <2>1. Verdict' = Verdict
    BY <1>6 DEF Verdict
  <2> QED
    BY <1>4, <1>7, <2>1
<1>10. Verdict[o] = outbox_results[t].local_state /\ Verdict[o] # "none"
  BY <1>1, <1>3 DEF Verdict, ReportedStates
<1> QED
  BY <1>3, <1>5, <1>7, <1>8, <1>9, <1>10, LedgerDelivers DEF Simulates

LEMMA StepSimulates ==
  ASSUME KInv, KInv', [Next]_vars
  PROVE  Simulates
<1> USE DEF KInv, JInv
<1>1. CASE Start
  <2> DEFINE C == {t \in Tasks : inbox_tasks[t].state \in ActiveStates}
  <2>1. UNCHANGED <<idempotency_effects, invocations, srvResults>>
    BY <1>1 DEF Start, world, server
  <2>2. /\ \A t \in C : inbox_tasks'[t].state \in TerminalStates
        /\ \A t \in Tasks : t \notin C => inbox_tasks'[t].state = inbox_tasks[t].state
    BY <1>1 DEF Start, InterruptedRow, TerminalStates, ExecutionTerminal, IInv, TypeOK, RowsType,
                InboxRow
  <2> HIDE DEF KInv, JInv
  <2> QED
    BY <2>1, <2>2, RowsClosed
<1>2. ASSUME NEW batch \in SUBSET Queued, Dispatch(batch)
      PROVE  Simulates
  <2> DEFINE C == {t \in batch : ~ inbox_tasks[t].intact}
  <2>1. UNCHANGED <<idempotency_effects, invocations, srvResults>>
    BY <1>2 DEF Dispatch, world, server
  <2>2. C \in SUBSET Tasks /\ \A t \in C : inbox_tasks[t].state = "queued"
    BY DEF Queued
  <2>3. /\ \A t \in C : inbox_tasks'[t].state \in TerminalStates
        /\ \A t \in Tasks : t \notin C => inbox_tasks'[t].state = inbox_tasks[t].state
    BY <1>2, <2>2 DEF Dispatch, TerminalStates, PreExecutionTerminal, IInv, TypeOK, RowsType, InboxRow
  <2> HIDE DEF KInv, JInv, C
  <2> QED
    BY <2>1, <2>2, <2>3, RowsClosed
<1>3. ASSUME \A t \in Tasks : inbox_tasks'[t].state = inbox_tasks[t].state,
             UNCHANGED <<idempotency_effects, invocations, srvResults>>
      PROVE  Simulates
  <2> HIDE DEF KInv, JInv
  <2>1. PICK C \in SUBSET Tasks : C = {}
    OBVIOUS
  <2>2. /\ \A t \in C : inbox_tasks[t].state = "queued" /\ inbox_tasks'[t].state \in TerminalStates
        /\ \A t \in Tasks : t \notin C => inbox_tasks'[t].state = inbox_tasks[t].state
    BY <1>3, <2>1
  <2> QED
    BY <1>3, <2>2, RowsClosed
<1>4. CASE Endings
  <2> HIDE DEF KInv, JInv
  <2> QED
    BY <1>3, <1>4 DEF Endings, Crash, Unwound, Wake, FetchConflict, tables, rows, world, server
<1>5. CASE OtherSteps /\ ~ \E t \in Tasks : PublishResult(t)
  <2>1. \A t \in Tasks : inbox_tasks'[t].state = inbox_tasks[t].state
    BY <1>5, OtherFrame
  <2>2. UNCHANGED <<idempotency_effects, invocations, srvResults>>
    <3> HIDE DEF KInv, JInv
    <3> QED
      BY <1>5 DEF OtherSteps, Interrupt, Shutdown, FetchFails, FetchNone, PublishFails, Gathered,
         Confirm, SyncAdvances, GraceExpires, Wake, PluginReports, PluginQueuesUpload, Publish,
         PublishProgress, PublishUpload, Cancel, Expire, CorruptRow, tables, rows, world, server
  <2> QED
    BY <1>3, <2>1, <2>2
<1>6. CASE UNCHANGED vars
  <2> HIDE DEF KInv, JInv
  <2> QED
    BY <1>3, <1>6 DEF vars, tables, rows, world, server
<1> HIDE DEF KInv, JInv
<1>7. CASE Next
  BY <1>1, <1>2, <1>4, <1>5, <1>7, Steps, FetchSimulates, RunSimulates, PublishSimulates
<1> QED
  BY <1>6, <1>7

\* The agent implements EffectLedger: per idempotency key, one acceptance, one
\* claim, one run and at most one verdict, which is the only one the server is
\* ever told, across duplicates, crashes, cancellations and lost answers.
THEOREM LedgerTheorem == Spec => ImplementsLedger
<1>1. Init => Ledger!Init
  <2> SUFFICES ASSUME Init PROVE Ledger!Init
    OBVIOUS
  <2>1. Status = [k \in Keys |-> "free"]
    BY DEF Init, Status, LedgerStatus, Canonical
  <2>2. Ran = {} /\ Verdict = [k \in Keys |-> "none"]
    BY DEF Init, Ran, Verdict
  <2>3. ASSUME NEW k \in Keys
        PROVE  Delivered[k] = {}
    <3>1. ByOwner /\ Canonical(k) = NoTask
      <4>1. JInv /\ CanonicalOK
        BY InitJInv DEF Init, CanonicalOK, Canonical
      <4> QED
        BY <4>1, LedgerView DEF KInv, Init, Canonical
    <3> QED
      BY <3>1 DEF ByOwner
  <2>4. Delivered = [k \in Keys |-> {}]
    BY <2>3 DEF Delivered
  <2> QED
    BY <2>1, <2>2, <2>4 DEF Ledger!Init, Status, Ran, Verdict, Delivered
<1>2. KInv /\ KInv' /\ [Next]_vars => [Ledger!Next]_Ledger!ledger
  BY StepSimulates DEF Simulates, Ledger!ledger, Status, Ran, Verdict, Delivered
<1> QED
  BY <1>1, <1>2, CanonicalInvariance, PTL DEF Spec, ImplementsLedger, Ledger!Spec
=============================================================================
