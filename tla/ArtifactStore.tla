--------------------------- MODULE ArtifactStore ---------------------------
(***************************************************************************)
(* The artifact outbox of the desktop agent: SQLiteArtifactStager over a   *)
(* directory of files and the pending_uploads table of the agent's store.  *)
(*                                                                         *)
(* Two processes share the directory and the table and no lock: the agent  *)
(* service, which stages artifacts, and `wto-agent maintenance             *)
(* prune-artifacts`, which prunes confirmed ones.  Each runs the startup   *)
(* reconciliation when it builds its stager, so each may meet the other's  *)
(* unfinished work, and each may be killed between any two steps.          *)
(***************************************************************************)
EXTENDS Naturals, FiniteSets

CONSTANTS
  Artifacts,    \* artifact ids
  Authorities,  \* TRUE: staged with a capture authority, a version 2 intent; FALSE: without
  MaxObjects,   \* bound: staged copies ever made
  MaxOps,       \* bound: prune operations ever journalled
  MaxEntries,   \* reconciliation_maximum_entries: what one reconciliation may inspect
  MaxFaults     \* bound: crashes, I/O errors, expired deadlines, lost grace periods

NoArtifact == "none"

ASSUME ArtifactAssumption ==
  /\ NoArtifact \notin Artifacts /\ Authorities \subseteq BOOLEAN
  /\ MaxObjects \in Nat /\ MaxOps \in Nat /\ MaxEntries \in Nat /\ MaxFaults \in Nat

VARIABLES
  obj,      \* each staged copy: its artifact, its place, its intent, its transaction
  row,      \* pending_uploads, by artifact
  op,       \* the prune journal: each operation's object, active record and events
  thr,      \* the threads at work on the directory
  call,     \* the coroutine inside stage(), which holds _stage_lock
  svc,      \* the service: down, starting, up, or up with a poisoned stager
  raced,    \* history: copies reconciled while their staging worker was at work
  faults

vars == <<obj, row, op, thr, call, svc, raced, faults>>

Objects == 1..MaxObjects
Ops     == 1..MaxOps
Workers == {"w1", "w2"}          \* worker threads of the service
Threads == Workers \cup {"cli"}

\* _PruneStage
Stages == {"PREPARED", "QUARANTINED", "SQLITE_UPDATED", "MANUAL_RECOVERY_REQUIRED"}

\* _StagingState
TxnStates == {"COPYING", "READY_TO_COMMIT", "COMMITTING", "COMMITTED", "ABORTED"}

\* Where a copy is: still being written or complete under its .staging- name,
\* published in the outbox, or moved aside for good.  A published copy has
\* name 0 (artifact-...) or k, the quarantine name planned by operation k.
\* An intent is "gone" when it was moved aside inside intents/ under a name that
\* reconciliation skips, "moved" under .artifact-cleanup-quarantine-, which it
\* does not skip and cannot read.
Places == {"none", "part", "temp", "out", "dead"}

ObjectRecord == [art : Artifacts \cup {NoArtifact}, cap : BOOLEAN, loc : Places, name : 0..MaxOps,
                 intent : {"none", "torn", "live", "gone", "moved"}, txn : TxnStates]
RowRecord    == [state : {"absent", "pending", "confirmed"}, obj : 0..MaxObjects,
                 path : 0..MaxOps]
OpRecord     == [obj : 0..MaxObjects,
                 active : {"none", "torn", "active", "retired", "conflict"},
                 ev : [Stages -> {"none", "torn", "ok"}]]
Kinds  == {"idle", "startup", "preflight", "stage", "recovery", "prune"}
Steps  == {"idle", "ops", "select", "prepare", "PREPARED", "quarantine", "QUARANTINED",
           "update", "SQLITE_UPDATED", "retire", "MANUAL_RECOVERY_REQUIRED", "conflict",
           "intents", "publish", "queue", "dropTemp", "dropIntent",
           "open", "seal", "intent", "ready", "commit", "rename", "insert",
           "close", "cleanTemp", "cleanIntent", "done"}
Results == {"none", "found", "missing", "staged", "error", "cancelled"}
ThreadRecord == [kind : Kinds, pc : Steps, art : Artifacts \cup {NoArtifact},
                 obj : 0..MaxObjects, op : 0..MaxOps, ops : SUBSET Ops,
                 todo : SUBSET Objects, seen : SUBSET Objects, arts : SUBSET Artifacts,
                 bad : BOOLEAN, stop : BOOLEAN, res : Results]

IdleThread == [kind |-> "idle", pc |-> "idle", art |-> NoArtifact, obj |-> 0, op |-> 0,
               ops |-> {}, todo |-> {}, seen |-> {}, arts |-> {}, bad |-> FALSE, stop |-> FALSE,
               res |-> "none"]
NoCall == [pc |-> "idle", art |-> NoArtifact, cap |-> FALSE, w |-> "w1", started |-> FALSE, out |-> "none"]

Init ==
  /\ obj = [o \in Objects |-> [art |-> NoArtifact, cap |-> FALSE, loc |-> "none", name |-> 0,
                               intent |-> "none", txn |-> "COPYING"]]
  /\ row = [a \in Artifacts |-> [state |-> "absent", obj |-> 0, path |-> 0]]
  /\ op = [k \in Ops |-> [obj |-> 0, active |-> "none",
                          ev |-> [s \in Stages |-> "none"]]]
  /\ thr = [t \in Threads |-> IdleThread]
  /\ call = NoCall
  /\ svc = "down"
  /\ raced = {}
  /\ faults = 0

-----------------------------------------------------------------------------
(* Shared helpers.                                                         *)

At(t, pc) == thr[t].pc = pc
Goto(t, pc) == thr' = [thr EXCEPT ![t].pc = pc]
Fault == faults < MaxFaults /\ faults' = faults + 1

\* A finished worker keeps its result until the coroutine reads it.
Finish(t, res) ==
  thr' = [thr EXCEPT ![t] = [IdleThread EXCEPT !.pc = "done", !.res = res]]

Published(o) == obj[o].loc = "out" /\ obj[o].name = 0
RowFileExists(a) == LET o == row[a].obj IN obj[o].loc = "out" /\ obj[o].name = row[a].path

\* A worker is unfinished while it runs; the maintenance process has no workers.
Unfinished(t) == thr[t].pc \notin {"idle", "done"}

\* _ensure_available: no poison and no worker left behind by an earlier call.
_ensure_available == svc = "up" /\ \A t \in Workers : ~Unfinished(t)

-----------------------------------------------------------------------------
(* The prune journal, run by `prune_confirmed` and by the reconciliation   *)
(* of a starting process.  A step that raises leaves the operation where   *)
(* it is, records an issue, and goes on with the next one.                 *)

NextOp(t) == IF thr[t].kind = "prune" THEN "select" ELSE "ops"

\* event_guard: the active record is still in place and no event was replaced.
event_guard(t) == op[thr[t].op].active = "active"

Committed(k, s) == op[k].ev[s] = "ok"

\* The first step that recovery takes for operation k, from what the journal,
\* the directory and the table say: the first case that applies.
RecoveryStep(k) ==
  LET o == op[k].obj
      r == row[obj[o].art]
  IN IF op[k].active # "active" \/ \E s \in Stages : op[k].ev[s] = "torn" THEN "ops"
     ELSE IF Committed(k, "MANUAL_RECOVERY_REQUIRED") THEN "conflict"
     ELSE IF \/ ~Committed(k, "PREPARED")
             \/ Committed(k, "SQLITE_UPDATED") /\ ~Committed(k, "QUARANTINED")
     THEN "MANUAL_RECOVERY_REQUIRED"
     ELSE IF Committed(k, "SQLITE_UPDATED") THEN "retire"
     ELSE IF r.state # "confirmed" \/ r.obj # o THEN "MANUAL_RECOVERY_REQUIRED"
     ELSE IF obj[o].loc = "out" /\ obj[o].name = k
     THEN IF Committed(k, "QUARANTINED") THEN "update" ELSE "QUARANTINED"
     ELSE IF Published(o) /\ r.path = 0 THEN "quarantine"
     ELSE "MANUAL_RECOVERY_REQUIRED"

\* _reconcile_prune_intents: the next active record, in some order.
RecoverOp(t) ==
  /\ At(t, "ops")
  /\ \E k \in thr[t].ops :
       thr' = [thr EXCEPT ![t].ops = @ \ {k}, ![t].op = k, ![t].pc = RecoveryStep(k)]
  /\ UNCHANGED <<obj, row, op, call, svc, faults, raced>>

\* intents/ as a listing finds it: every intent ever written has an entry, and
\* the name of one that is "gone" is skipped (_intent_quarantine_prefixes).
Entries == {o \in Objects : obj[o].intent # "none"}
Intents == {o \in Entries : obj[o].intent # "gone"}

OpsDone(t) ==
  /\ At(t, "ops") /\ thr[t].ops = {}
  /\ thr' = [thr EXCEPT ![t].pc = "intents", ![t].todo = Intents, ![t].seen = Entries]
  /\ UNCHANGED <<obj, row, op, call, svc, faults, raced>>

\* _prune_confirmed_sync: the next selected row; the file must still be there.
SelectRow(t) ==
  /\ At(t, "select")
  /\ \E a \in thr[t].arts, k \in Ops :
       /\ op[k].active = "none"
       /\ \A j \in Ops : j < k => op[j].active # "none"
       /\ thr' = [thr EXCEPT
            ![t].arts = @ \ {a}, ![t].op = k, ![t].obj = row[a].obj,
            ![t].pc = IF RowFileExists(a) /\ row[a].path = 0 THEN "prepare" ELSE "select"]
  /\ UNCHANGED <<obj, row, op, call, svc, faults, raced>>

PruneDone(t) ==
  /\ At(t, "select")
  /\ thr[t].arts = {} \/ \A k \in Ops : op[k].active # "none"
  /\ thr' = [thr EXCEPT ![t] = IdleThread]
  /\ UNCHANGED <<obj, row, op, call, svc, faults, raced>>

\* _new_prune_operation: bound to the copy that was validated.
NewOperation(o) == [obj |-> o, active |-> "active", ev |-> [s \in Stages |-> "none"]]

\* _create_prune_active, durable before the first event.
CreateActive(t) ==
  /\ At(t, "prepare")
  /\ op' = [op EXCEPT ![thr[t].op] = NewOperation(thr[t].obj)]
  /\ Goto(t, "PREPARED")
  /\ UNCHANGED <<obj, row, call, svc, faults, raced>>

AfterEvent(s) ==
  CASE s = "PREPARED"       -> "quarantine"
    [] s = "QUARANTINED"    -> "update"
    [] s = "SQLITE_UPDATED" -> "retire"
    [] OTHER                -> "conflict"

\* _write_prune_event: one new file under the planned name, never overwritten.
_write_prune_event(k, s) == op' = [op EXCEPT ![k].ev[s] = "ok"]

\* _append_planned_prune_event: a new file under the planned name; it fails
\* when the other process wrote that event or moved the active record.
AppendEvent(t) ==
  /\ thr[t].pc \in Stages
  /\ LET s == thr[t].pc
         k == thr[t].op
     IN IF event_guard(t) /\ op[k].ev[s] = "none"
        THEN _write_prune_event(k, s) /\ Goto(t, AfterEvent(s))
        ELSE UNCHANGED op /\ Goto(t, NextOp(t))
  /\ UNCHANGED <<obj, row, call, svc, faults, raced>>

\* logical_quarantine under the planned name: one rename that never
\* overwrites, and the directory's fsync.
Quarantine(t) ==
  /\ At(t, "quarantine")
  /\ LET k == thr[t].op
         o == op[k].obj
     IN IF event_guard(t) /\ Published(o)
        THEN obj' = [obj EXCEPT ![o].name = k] /\ Goto(t, "QUARANTINED")
        ELSE UNCHANGED obj /\ Goto(t, NextOp(t))
  /\ UNCHANGED <<row, op, call, svc, faults, raced>>

\* SQLiteStore.update_confirmed_artifact_path: the WHERE clause of its UPDATE.
PathUpdates(a, o) == row[a].state = "confirmed" /\ row[a].obj = o /\ row[a].path = 0

\* _finish_prune_sqlite_association: compare-and-set of the confirmed row's
\* path; an already moved path of this operation counts as done.
UpdateRow(t) ==
  /\ At(t, "update")
  /\ LET k == thr[t].op
         a == obj[op[k].obj].art
         r == row[a]
         hit == PathUpdates(a, op[k].obj)
     IN IF ~event_guard(t)
        THEN UNCHANGED row /\ Goto(t, NextOp(t))
        ELSE /\ row' = IF hit THEN [row EXCEPT ![a].path = k] ELSE row
             /\ Goto(t, IF hit \/ (r.state = "confirmed" /\ r.path = k)
                        THEN "SQLITE_UPDATED"
                        ELSE "MANUAL_RECOVERY_REQUIRED")
  /\ UNCHANGED <<obj, op, call, svc, faults, raced>>

\* _retire_prune_active and _move_prune_active_to_conflict.
MoveActive(t, to) ==
  /\ op' = IF event_guard(t) THEN [op EXCEPT ![thr[t].op].active = to] ELSE op
  /\ Goto(t, NextOp(t))
  /\ UNCHANGED <<obj, row, call, svc, faults, raced>>

Retire(t)   == At(t, "retire")   /\ MoveActive(t, "retired")
Conflict(t) == At(t, "conflict") /\ MoveActive(t, "conflict")

\* A step of the journal raises: the issue is recorded, the next one begins.
PruneFault(t) ==
  /\ thr[t].pc \in Stages \cup {"prepare", "quarantine", "update", "retire", "conflict"}
  /\ Fault
  /\ Goto(t, NextOp(t))
  /\ UNCHANGED <<obj, row, op, call, svc, raced>>

-----------------------------------------------------------------------------
(* Reconciliation of staging intents: _reconcile_startup_sync,             *)
(* _reconcile_relevant_sync and _reconcile_intent.                         *)

Relevant(t, o) == thr[t].kind = "startup" \/ obj[o].art = thr[t].art

IntentStep_NeedsBytes(o) ==
  CASE Published(o)                        -> "queue"
    [] obj[o].loc = "temp" /\ obj[o].cap   -> "publish"
    [] obj[o].loc = "temp" /\ ~obj[o].cap  -> "dropTemp"
    [] OTHER                               -> "bad"

\* What _reconcile_intent does first with a readable intent.
IntentStep(o) ==
  CASE Published(o)                        -> "queue"
    [] obj[o].loc = "temp" /\ obj[o].cap   -> "publish"
    [] obj[o].loc = "temp" /\ ~obj[o].cap  -> "dropTemp"
    [] obj[o].loc # "temp" /\ ~Published(o) /\ ~obj[o].cap -> "dropIntent"
    [] OTHER                               -> "bad"

\* _read_intent, then the branch; every intent is read, the relevant ones
\* are reconciled, one that cannot be read or completed is an issue.
ReadIntent(t) ==
  /\ At(t, "intents")
  /\ \E o \in thr[t].todo :
       LET s == IF obj[o].intent # "live" THEN "bad"
                ELSE IF Relevant(t, o) THEN IntentStep(o) ELSE "intents"
       IN /\ thr' = [thr EXCEPT ![t].todo = @ \ {o},
                       ![t].obj = IF s \in {"bad", "intents"} THEN 0 ELSE o,
                       ![t].pc = IF s = "bad" THEN "intents" ELSE s,
                       ![t].bad = @ \/ s = "bad"]
          /\ raced' = IF \E w \in Workers : thr[w].obj = o /\ thr[w].kind = "stage" /\ Unfinished(w)
                       THEN raced \cup {o} ELSE raced
  /\ UNCHANGED <<obj, row, op, call, svc, faults>>

Issue(t) == thr' = [thr EXCEPT ![t].pc = "intents", ![t].obj = 0, ![t].bad = TRUE]

\* A capture's durable intent is completed: its bytes are published.
PublishIntent(t) ==
  /\ At(t, "publish")
  /\ LET o == thr[t].obj
     IN IF obj[o].loc = "temp"
        THEN obj' = [obj EXCEPT ![o].loc = "out"] /\ Goto(t, "queue")
        ELSE UNCHANGED obj /\ Issue(t)
  /\ UNCHANGED <<row, op, call, svc, faults, raced>>

\* SQLiteStore.ensure_artifact_queued: insert, accept the identical row, or
\* refuse a different one.
Queued(o) == row[obj[o].art].obj = o /\ row[obj[o].art].path = 0
ensure_artifact_queued(o) ==
  row' = IF row[obj[o].art].state = "absent"
         THEN [row EXCEPT ![obj[o].art] = [state |-> "pending", obj |-> o, path |-> 0]]
         ELSE row

QueueIntent(t) ==
  /\ At(t, "queue")
  /\ LET o == thr[t].obj
     IN IF Published(o) /\ (row[obj[o].art].state = "absent" \/ Queued(o))
        THEN ensure_artifact_queued(o) /\ Goto(t, "dropIntent")
        ELSE UNCHANGED row /\ Issue(t)
  /\ UNCHANGED <<obj, op, call, svc, faults, raced>>

\* logical_quarantine of the uncommitted copy.
DropTemp(t) ==
  /\ At(t, "dropTemp")
  /\ LET o == thr[t].obj
     IN IF obj[o].loc = "temp"
        THEN obj' = [obj EXCEPT ![o].loc = "dead"] /\ Goto(t, "dropIntent")
        ELSE UNCHANGED obj /\ Issue(t)
  /\ UNCHANGED <<row, op, call, svc, faults, raced>>

\* logical_quarantine of the intent, last.
DropIntent(t) ==
  /\ At(t, "dropIntent")
  /\ LET o == thr[t].obj
     IN IF obj[o].intent = "live"
        THEN /\ obj' = [obj EXCEPT ![o].intent = "gone"]
             /\ thr' = [thr EXCEPT ![t].pc = "intents", ![t].obj = 0]
        ELSE UNCHANGED obj /\ Issue(t)
  /\ UNCHANGED <<row, op, call, svc, faults, raced>>

\* control.inspect_entry: each name of intents/ counts, the skipped ones too;
\* then the active rows (startup) or the one row asked for.
LimitExceeded(t) ==
  LET rows == IF thr[t].kind = "startup"
              THEN Cardinality({a \in Artifacts : row[a].state = "pending"}) ELSE 1
  IN Cardinality(thr[t].seen) + rows > MaxEntries

\* The listing ends, or the limit ends it at an entry.
IntentsDone(t) ==
  /\ At(t, "intents")
  /\ thr[t].todo = {} \/ Cardinality(thr[t].seen) > MaxEntries

\* SQLiteStore.confirmed_artifacts_for_pruning: confirmed and not yet in a
\* quarantine; the retention limits pick some of them.
Prunable == {a \in Artifacts : row[a].state = "confirmed" /\ row[a].path = 0}

\* The audit of rows that still need their file; any issue, or the limit,
\* refuses to start.
StartupRows(t) ==
  /\ IntentsDone(t) /\ thr[t].kind = "startup"
  /\ LET bad == \/ thr[t].bad \/ LimitExceeded(t)
                \/ \E a \in Artifacts : row[a].state = "pending" /\ ~RowFileExists(a)
     IN IF t = "cli"
        THEN /\ UNCHANGED svc
             /\ IF bad
                THEN thr' = [thr EXCEPT ![t] = IdleThread]
                ELSE \E sel \in SUBSET Prunable :
                       thr' = [thr EXCEPT ![t] = [IdleThread EXCEPT !.kind = "prune",
                                                     !.pc = "select", !.arts = sel]]
        ELSE /\ svc' = IF bad THEN "down" ELSE "up"
             /\ thr' = [thr EXCEPT ![t] = IdleThread]
  /\ UNCHANGED <<obj, row, op, call, faults, raced>>

\* _existing_staged: the row's manifest and its file, validated.
_existing_staged(a) ==
  IF row[a].state = "absent" THEN "missing"
  ELSE IF RowFileExists(a) THEN "found" ELSE "error"

\* _reconcile_and_find_existing, after the intents.
RelevantRows(t) ==
  /\ IntentsDone(t) /\ thr[t].kind \in {"preflight", "recovery"}
  /\ Finish(t, IF thr[t].bad \/ LimitExceeded(t) THEN "error" ELSE _existing_staged(thr[t].art))
  /\ UNCHANGED <<obj, row, op, call, svc, faults, raced>>

ReconcileSteps == {"ops", "intents", "publish", "queue", "dropTemp", "dropIntent"}

\* control.check(): the stop event, the deadline or the byte limit ends the
\* reconciliation between two of its steps.
ReconcileStopped(t) ==
  /\ thr[t].pc \in ReconcileSteps
  /\ IF thr[t].stop THEN UNCHANGED faults ELSE Fault
  /\ IF thr[t].kind = "startup"
     THEN /\ thr' = [thr EXCEPT ![t] = IdleThread]
          /\ svc' = IF t = "cli" THEN svc ELSE "down"
     ELSE Finish(t, "error") /\ UNCHANGED svc
  /\ UNCHANGED <<obj, row, op, call, raced>>

-----------------------------------------------------------------------------
(* The staging worker, _stage_sync, and its _StagingTransaction.           *)

\* A fresh copy under a .staging- name.
StageOpen(t) ==
  /\ At(t, "open")
  /\ \E o \in Objects :
       /\ obj[o].art = NoArtifact /\ \A p \in Objects : p < o => obj[p].art # NoArtifact
       /\ obj' = [obj EXCEPT ![o].art = thr[t].art, ![o].cap = call.cap, ![o].loc = "part"]
       /\ thr' = [thr EXCEPT ![t].obj = o, ![t].pc = "seal"]
  /\ UNCHANGED <<row, op, call, svc, faults, raced>>

\* _StagingTransaction.check between chunks; the complete copy is fsynced.
StageSeal(t) ==
  /\ At(t, "seal")
  /\ IF obj[thr[t].obj].txn = "ABORTED"
     THEN UNCHANGED obj /\ Goto(t, "cleanTemp")
     ELSE obj' = [obj EXCEPT ![thr[t].obj].loc = "temp"] /\ Goto(t, "intent")
  /\ UNCHANGED <<row, op, call, svc, faults, raced>>

\* _write_intent: durable before anything is published.
StageIntent(t) ==
  /\ At(t, "intent")
  /\ obj' = [obj EXCEPT ![thr[t].obj].intent = "live"]
  /\ Goto(t, "ready")
  /\ UNCHANGED <<row, op, call, svc, faults, raced>>

\* ready and begin_commit: each aborts for good when the transaction is no
\* longer in the state before it.
Advance(t, from, to, next) ==
  /\ IF obj[thr[t].obj].txn = from
     THEN obj' = [obj EXCEPT ![thr[t].obj].txn = to] /\ Goto(t, next)
     ELSE obj' = [obj EXCEPT ![thr[t].obj].txn = "ABORTED"] /\ Goto(t, "cleanTemp")
  /\ UNCHANGED <<row, op, call, svc, faults, raced>>

StageReady(t)       == At(t, "ready")  /\ Advance(t, "COPYING", "READY_TO_COMMIT", "commit")
StageBeginCommit(t) == At(t, "commit") /\ Advance(t, "READY_TO_COMMIT", "COMMITTING", "rename")

StagePublish_IntentFirst(t) ==
  /\ At(t, "rename")
  /\ LET o == thr[t].obj
     IN IF obj[o].loc = "temp"
        THEN obj' = [obj EXCEPT ![o].loc = "out", ![o].intent = "gone"] /\ Goto(t, "insert")
        ELSE UNCHANGED obj /\ Goto(t, "cleanTemp")
  /\ UNCHANGED <<row, op, call, svc, faults, raced>>

\* _publish_without_overwrite; the copy may have been published or moved
\* aside by the other process's reconciliation.
StagePublish(t) ==
  /\ At(t, "rename")
  /\ LET o == thr[t].obj
     IN IF obj[o].loc = "temp"
        THEN obj' = [obj EXCEPT ![o].loc = "out"] /\ Goto(t, "insert")
        ELSE UNCHANGED obj /\ Goto(t, "cleanTemp")
  /\ UNCHANGED <<row, op, call, svc, faults, raced>>

StageQueue(t) ==
  /\ At(t, "insert")
  /\ LET o == thr[t].obj
     IN IF Published(o) /\ (row[obj[o].art].state = "absent" \/ Queued(o))
        THEN ensure_artifact_queued(o) /\ Goto(t, "close")
        ELSE UNCHANGED row /\ Finish(t, "error")
  /\ UNCHANGED <<obj, op, call, svc, faults, raced>>

\* The intent is moved aside, then committed().
StageClose(t) ==
  /\ At(t, "close")
  /\ LET o == thr[t].obj
     IN IF obj[o].intent = "live"
        THEN /\ obj' = [obj EXCEPT ![o].intent = "gone", ![o].txn = "COMMITTED"]
             /\ Finish(t, "staged")
        ELSE UNCHANGED obj /\ Finish(t, "error")
  /\ UNCHANGED <<row, op, call, svc, faults, raced>>

\* The cancellation token or the deadline, noticed at a check.
StageCancelled(t) ==
  /\ thr[t].pc \in {"seal", "ready", "commit"}
  /\ Fault
  /\ obj' = [obj EXCEPT ![thr[t].obj].txn = "ABORTED"]
  /\ Goto(t, "cleanTemp")
  /\ UNCHANGED <<row, op, call, svc, raced>>

\* Any step raises.  Before publication the copy and the intent are moved
\* aside; after it they stay for reconciliation.  _write_intent moves its own
\* half-written intent aside, or leaves it when it has no identity yet.
StageFault(t) ==
  /\ thr[t].pc \in {"seal", "intent", "ready", "rename", "insert", "close"}
  /\ Fault
  /\ IF thr[t].pc \in {"insert", "close"}
     THEN UNCHANGED obj /\ Finish(t, "error")
     ELSE /\ \E i \in IF thr[t].pc = "intent" THEN {"gone", "torn"}
                      ELSE {obj[thr[t].obj].intent} :
               obj' = [obj EXCEPT ![thr[t].obj].intent = i]
          /\ Goto(t, "cleanTemp")
  /\ UNCHANGED <<row, op, call, svc, raced>>

\* The error path: the copy first, the intent second, both moved aside under
\* .artifact-cleanup-quarantine-; a failed clean-up is only a note on the error.
CleanResult(t) == IF obj[thr[t].obj].txn = "ABORTED" THEN "cancelled" ELSE "error"

CleanTemp(t) ==
  /\ At(t, "cleanTemp")
  /\ obj' = [obj EXCEPT ![thr[t].obj].loc = IF @ \in {"part", "temp"} THEN "dead" ELSE @]
  /\ Goto(t, "cleanIntent")
  /\ UNCHANGED <<row, op, call, svc, faults, raced>>

CleanIntent(t) ==
  /\ At(t, "cleanIntent")
  /\ obj' = [obj EXCEPT ![thr[t].obj].intent = IF @ = "live" THEN "moved" ELSE @]
  /\ Finish(t, CleanResult(t))
  /\ UNCHANGED <<row, op, call, svc, faults, raced>>

CleanFault(t) ==
  /\ thr[t].pc \in {"cleanTemp", "cleanIntent"}
  /\ Fault
  /\ IF At(t, "cleanTemp") THEN Goto(t, "cleanIntent") ELSE Finish(t, CleanResult(t))
  /\ UNCHANGED <<obj, row, op, call, svc, raced>>

-----------------------------------------------------------------------------
(* The coroutine: stage() and stage_from_descriptor() under _stage_lock,   *)
(* _preflight_existing and _stage_exclusive.                               *)

\* A thread of the pool that is free: the first one, when both are.
FreeWorker(w) == ~Unfinished(w) /\ (w = "w2" => Unfinished("w1"))

Launch(w, kind, pc, a) ==
  thr' = [thr EXCEPT ![w] = [IdleThread EXCEPT !.kind = kind, !.pc = pc, !.art = a,
                               !.todo = IF pc = "intents" THEN Intents ELSE {},
                               !.seen = IF pc = "intents" THEN Entries ELSE {}]]

Return(out) ==
  call' = [NoCall EXCEPT !.art = call.art, !.out = out]

\* The coroutine returns what its finished worker left.
Answer(out) == Return(out) /\ thr' = [thr EXCEPT ![call.w] = IdleThread]

Stage(a, cap) ==
  /\ call.pc = "idle" /\ _ensure_available
  /\ \E o \in Objects : obj[o].art = NoArtifact
  /\ \E w \in Workers :
       /\ FreeWorker(w)
       /\ Launch(w, "preflight", "intents", a)
       /\ call' = [NoCall EXCEPT !.pc = "preflight", !.art = a, !.cap = cap, !.w = w]
  /\ UNCHANGED <<obj, row, op, svc, faults, raced>>

\* The preflight worker answers: the artifact is there already, or the
\* staging worker starts.
PreflightDone ==
  /\ call.pc = "preflight" /\ At(call.w, "done")
  /\ IF thr[call.w].res = "missing"
     THEN /\ Launch(call.w, "stage", "open", call.art)
          /\ call' = [call EXCEPT !.pc = "staging"]
     ELSE Answer(IF thr[call.w].res = "found" THEN "staged" ELSE "error")
  /\ UNCHANGED <<obj, row, op, svc, faults, raced>>

\* The deadline, the token or a task cancellation: the stop event is set and
\* the worker gets a grace period.
PreflightStop ==
  /\ call.pc = "preflight" /\ Unfinished(call.w)
  /\ thr' = [thr EXCEPT ![call.w].stop = TRUE]
  /\ call' = [call EXCEPT !.pc = "stopping"]
  /\ UNCHANGED <<obj, row, op, svc, faults, raced>>

PreflightStopped ==
  /\ call.pc = "stopping" /\ At(call.w, "done")
  /\ Answer("cancelled")
  /\ UNCHANGED <<obj, row, op, svc, faults, raced>>

\* The grace period ends first: the stager is poisoned for the process's life.
_poison ==
  /\ call.pc = "stopping" /\ Unfinished(call.w)
  /\ Fault
  /\ svc' = "poisoned"
  /\ Return("cancelled")
  /\ UNCHANGED <<obj, row, op, thr, raced>>

StageDone ==
  /\ call.pc = "staging" /\ At(call.w, "done")
  /\ Answer(thr[call.w].res)
  /\ UNCHANGED <<obj, row, op, svc, faults, raced>>

request_cancel_Always ==
  /\ call.pc = "staging" /\ Unfinished(call.w) /\ thr[call.w].obj # 0
  /\ obj' = [obj EXCEPT ![thr[call.w].obj].txn = "ABORTED"]
  /\ call' = [call EXCEPT !.pc = "cancelling", !.started = FALSE]
  /\ UNCHANGED <<row, op, thr, svc, faults, raced>>

\* request_cancel: aborts a transaction that has not begun to commit; one
\* that has keeps going, and the coroutine remembers which.
request_cancel ==
  /\ call.pc = "staging" /\ Unfinished(call.w) /\ thr[call.w].obj # 0
  /\ LET o == thr[call.w].obj
         early == obj[o].txn \in {"COPYING", "READY_TO_COMMIT"}
     IN /\ obj' = IF early THEN [obj EXCEPT ![o].txn = "ABORTED"] ELSE obj
        /\ call' = [call EXCEPT !.pc = "cancelling",
                      !.started = obj[o].txn \in {"COMMITTING", "COMMITTED"}]
  /\ UNCHANGED <<row, op, thr, svc, faults, raced>>

CancelSettled_CommitOnly ==
  /\ call.pc = "cancelling" /\ At(call.w, "done")
  /\ thr[call.w].res = "staged" /\ call.started
  /\ Answer("staged")
  /\ UNCHANGED <<obj, row, op, svc, faults, raced>>

\* The worker ends within the grace period: a commit wins over the
\* cancellation, a failed commit is reconciled before the answer.
CancelSettled ==
  /\ call.pc = "cancelling" /\ At(call.w, "done")
  /\ CASE thr[call.w].res = "staged" /\ call.started -> Answer("staged")
       [] thr[call.w].res = "error" /\ call.started ->
            /\ Launch(call.w, "recovery", "intents", call.art)
            /\ call' = [call EXCEPT !.pc = "recovering"]
       [] OTHER -> Answer("cancelled")
  /\ UNCHANGED <<obj, row, op, svc, faults, raced>>

RecoveryDone ==
  /\ call.pc = "recovering" /\ At(call.w, "done")
  /\ Answer(IF thr[call.w].res = "found" THEN "staged" ELSE "cancelled")
  /\ UNCHANGED <<obj, row, op, svc, faults, raced>>

\* The grace period ends first: the caller is told "cancelled" and the worker
\* goes on alone.
GraceExpired ==
  /\ call.pc \in {"cancelling", "recovering"} /\ Unfinished(call.w)
  /\ Fault
  /\ Return("cancelled")
  /\ UNCHANGED <<obj, row, op, thr, svc, raced>>

-----------------------------------------------------------------------------
(* Processes: start, crash, and the upload's confirmation.                 *)

StartThread == [IdleThread EXCEPT !.kind = "startup", !.pc = "ops",
                  !.ops = {k \in Ops : op[k].active \in {"torn", "active"}}]

StartService ==
  /\ svc = "down"
  /\ svc' = "starting"
  /\ thr' = [thr EXCEPT !["w1"] = StartThread]
  /\ UNCHANGED <<obj, row, op, call, faults, raced>>

StartPruning ==
  /\ At("cli", "idle")
  /\ thr' = [thr EXCEPT !["cli"] = StartThread]
  /\ UNCHANGED <<obj, row, op, call, svc, faults, raced>>

\* A killed process leaves the files as they are; a record it was writing may
\* be left incomplete.
TornIntents(ts) == {o \in Objects : \E t \in ts : At(t, "intent") /\ thr[t].obj = o}
TornActive(ts)  == {k \in Ops : \E t \in ts : At(t, "prepare") /\ thr[t].op = k}

Crash(ts) ==
  /\ \E t \in ts : Unfinished(t) \/ (t \in Workers /\ svc # "down")
  /\ Fault
  /\ \E torn \in BOOLEAN :
       /\ obj' = [o \in Objects |-> IF torn /\ o \in TornIntents(ts)
                                    THEN [obj[o] EXCEPT !.intent = "torn"] ELSE obj[o]]
       /\ op' = [k \in Ops |->
                   IF torn /\ k \in TornActive(ts) THEN [op[k] EXCEPT !.active = "torn"]
                   ELSE IF torn
                   THEN [op[k] EXCEPT !.ev = [s \in Stages |->
                           IF \E t \in ts : At(t, s) /\ thr[t].op = k /\ @[s] = "none"
                           THEN "torn" ELSE @[s]]]
                   ELSE op[k]]
  /\ thr' = [t \in Threads |-> IF t \in ts THEN IdleThread ELSE thr[t]]
  /\ IF "cli" \in ts THEN UNCHANGED <<svc, call>>
     ELSE svc' = "down" /\ call' = NoCall
  /\ UNCHANGED <<row, raced>>

CrashService == Crash(Workers)
CrashPruning == Crash({"cli"})

\* confirm_outbox("pending_uploads", ...).
Confirm(a) ==
  /\ row[a].state = "pending"
  /\ row' = [row EXCEPT ![a].state = "confirmed"]
  /\ UNCHANGED <<obj, op, thr, call, svc, faults, raced>>

-----------------------------------------------------------------------------
PruneStep(t) ==
  \/ RecoverOp(t) \/ OpsDone(t) \/ SelectRow(t) \/ PruneDone(t) \/ CreateActive(t)
  \/ AppendEvent(t) \/ Quarantine(t) \/ UpdateRow(t) \/ Retire(t) \/ Conflict(t)

ReconcileStep(t) ==
  \/ ReadIntent(t) \/ PublishIntent(t) \/ QueueIntent(t) \/ DropTemp(t)
  \/ DropIntent(t) \/ StartupRows(t) \/ RelevantRows(t)

StageStep(t) ==
  \/ StageOpen(t) \/ StageSeal(t) \/ StageIntent(t) \/ StageReady(t) \/ StageBeginCommit(t)
  \/ StagePublish(t) \/ StageQueue(t) \/ StageClose(t) \/ CleanTemp(t) \/ CleanIntent(t)

ThreadStep(t) == PruneStep(t) \/ ReconcileStep(t) \/ StageStep(t)

ThreadFault(t) ==
  PruneFault(t) \/ ReconcileStopped(t) \/ StageCancelled(t) \/ StageFault(t) \/ CleanFault(t)

CallStep == PreflightDone \/ PreflightStopped \/ StageDone \/ CancelSettled \/ RecoveryDone

CallFault == PreflightStop \/ _poison \/ request_cancel \/ GraceExpired

Next ==
  \/ \E t \in Threads : ThreadStep(t) \/ ThreadFault(t)
  \/ CallStep \/ CallFault
  \/ \E a \in Artifacts : Confirm(a) \/ \E cap \in Authorities : Stage(a, cap)
  \/ StartService \/ StartPruning \/ CrashService \/ CrashPruning

Spec == Init /\ [][Next]_vars

\* Threads run, the event loop runs what is ready, and the service manager
\* starts a service that is down.
FairSpec ==
  /\ Spec
  /\ \A t \in Threads : WF_vars(ThreadStep(t))
  /\ WF_vars(CallStep)
  /\ WF_vars(StartService)

-----------------------------------------------------------------------------
(* Properties.                                                             *)

\* Every variable has the shape the code gives it.
TypeOK ==
  /\ obj \in [Objects -> ObjectRecord]
  /\ row \in [Artifacts -> RowRecord]
  /\ op \in [Ops -> OpRecord]
  /\ thr \in [Threads -> ThreadRecord]
  /\ call \in [pc : {"idle", "preflight", "stopping", "staging", "cancelling", "recovering"},
               art : Artifacts \cup {NoArtifact}, cap : BOOLEAN, w : Workers, started : BOOLEAN,
               out : Results]
  /\ svc \in {"down", "starting", "up", "poisoned"}
  /\ raced \subseteq Objects
  /\ faults \in 0..MaxFaults

\* A row waiting for its upload has its bytes under the name the row gives,
\* whichever process died between publication, insertion and clean-up.
QueuedHasBytes ==
  \A a \in Artifacts : row[a].state = "pending" => row[a].path = 0 /\ RowFileExists(a)

\* A confirmed artifact is never lost by pruning: its bytes are under the
\* row's path, or the row still has the original path and a journalled
\* operation that was not retired names the quarantine the bytes are in.
ConfirmedLocatable ==
  \A a \in Artifacts : row[a].state = "confirmed" =>
    \/ RowFileExists(a)
    \/ /\ row[a].path = 0
       /\ LET o == row[a].obj
          IN /\ obj[o].loc = "out" /\ obj[o].name # 0
             /\ op[obj[o].name].obj = o
             /\ op[obj[o].name].active \in {"active", "conflict"}
             /\ Committed(obj[o].name, "PREPARED")

\* No published file is an orphan: a row or a durable intent names it.  (The
\* exception: a capture's copy that the maintenance process publishes while
\* the service is giving it up.)
PublishedTracked ==
  \A o \in Objects : obj[o].loc = "out" =>
    \/ obj[o].intent = "live" \/ row[obj[o].art].obj = o
    \/ obj[o].cap /\ o \in raced

\* An artifact is published at most once, however often it is staged again
\* after a cancellation, a crash or an abandoned worker; same exception.
PublishedOnce ==
  \A o, p \in Objects :
    (obj[o].loc = "out" /\ obj[p].loc = "out" /\ obj[o].art = obj[p].art) =>
      o = p \/ {q \in raced : obj[q].cap} \cap {o, p} # {}

\* Rows and files account for each other at every crash point of staging,
\* publication, reconciliation and pruning (artifacts.py).
RowsAndFilesAgree ==
  TypeOK /\ QueuedHasBytes /\ ConfirmedLocatable /\ PublishedTracked /\ PublishedOnce

\* The transaction decides between a cancellation and the commit: a copy
\* whose transaction was aborted is not published, unless its intent carries
\* a capture's authority, which reconciliation completes.
AbortedNotPublished ==
  \A o \in Objects :
    (obj[o].txn = "ABORTED" /\ ~obj[o].cap) => obj[o].loc # "out"

\* stage() says "staged" only of an artifact that has a row.
StagedIsQueued == call.out = "staged" => row[call.art].state # "absent"

\* One worker of the service is at work at a time: a call is refused while
\* one that was abandoned at the end of its grace period still runs.
OneWorker == \A v, w \in Workers : Unfinished(v) /\ Unfinished(w) => v = w

\* What stage() answers stays true, with one worker at a time, whatever a
\* cancelled, late or abandoned worker still does (artifacts.py:354-560).
AnswersHold == AbortedNotPublished /\ StagedIsQueued /\ OneWorker

\* What every later start refuses: an intent torn by a crash, or moved aside by
\* the error path of a staging that was cancelled or failed; a capture's intent
\* that outlived its copy, moved aside by the error path or by a pruning that
\* found the row confirmed; a second copy of a raced capture, whose row names
\* the first; and more intents ever written, with the rows still to upload,
\* than one reconciliation may inspect.
Damaged ==
  \/ Cardinality(Entries) + Cardinality({a \in Artifacts : row[a].state = "pending"})
       > MaxEntries
  \/ \E o \in Objects :
    \/ obj[o].intent \in {"torn", "moved"}
    \/ /\ obj[o].intent = "live"
       /\ \/ obj[o].cap /\ (obj[o].loc = "dead" \/ obj[o].name # 0)
          \/ raced # {} /\ row[obj[o].art].obj \notin {0, o}

\* Every stage() call returns: no wait of the coroutine is unbounded.
StageReturns == (call.pc # "idle") ~> (call.pc = "idle")

\* A service that is down comes up again, unless what it refuses is there.
StartRecovers == (svc = "down") ~> (svc = "up" \/ Damaged)

\* The start reconciles the intents it finds
\* (docs/phase07/installation-and-distributions.md:80): a service that is down
\* comes up again unless a crash tore an intent.
StartReconciles == (svc = "down") ~> (svc = "up" \/ \E o \in Objects : obj[o].intent = "torn")

=============================================================================
