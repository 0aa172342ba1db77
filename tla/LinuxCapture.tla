--------------------------- MODULE LinuxCapture ---------------------------
(***************************************************************************)
(* Monitor-mode capture on a Linux capture node: CaptureCoordinator with   *)
(* its durable evidence, the per-request marker, the interface journal,    *)
(* the reserved output file and the binding.                               *)
(*                                                                         *)
(* A capture takes a wireless interface away from NetworkManager with      *)
(* several commands, runs dumpcap, puts the interface back with several    *)
(* more and hands the bytes to the artifact stager.  The process may die   *)
(* between any two steps and any command may fail, after its effect or     *)
(* before it; the same request is then executed again and continues from   *)
(* what it finds on disk.  A refused call changes nothing and is not a     *)
(* step, whatever refuses it: a second caller (the concurrency limit is    *)
(* one), the grant and the policy, the connectivity interface, a preflight,*)
(* a snapshot that could not be restored, evidence only an operator may    *)
(* judge.  Only in a new process may such a call leave a trace: it has     *)
(* opened the journal before it is refused (RefusedCall).                  *)
(***************************************************************************)
EXTENDS Naturals, Sequences, FiniteSets

CONSTANTS
  Keys,        \* idempotency keys of the requests, one interface for all of them
  Profiles,    \* NetworkManager connection UUIDs, in the order sorted() gives them
  Homes,       \* states the interface may have before the first capture
  Radio,       \* states in which iw reports a channel: the driver's choice
  MaxFaults    \* bound: crashes, failed commands, unavailable observations, failed I/O

NoKey  == "none"
NoConn == "none"
Conns  == {Profiles[i] : i \in DOMAIN Profiles}

\* InterfaceState, cut down to what set_managed, set_link, set_type,
\* set_frequency and restore_connection change.
InterfaceState ==
  [type : {"managed", "monitor", "AP"}, up : BOOLEAN, freq : {"home", "capture"},
   managed : BOOLEAN, conns : SUBSET Conns, primary : Conns \cup {NoConn}]

\* The connections NetworkManager may run on an interface
Connected(s) ==
  /\ s.primary = NoConn <=> s.conns = {}
  /\ s.conns # {} => s.managed /\ s.primary \in s.conns

\* _validate_restorable_snapshot, on what the model keeps of a snapshot: the
\* connections are coherent and the radio is complete.
Restorable(s) == Connected(s) /\ s \in Radio

ASSUME CaptureAssumption ==
  /\ NoKey \notin Keys
  /\ IsFiniteSet(Conns)
  /\ Homes # {} /\ Homes \subseteq InterfaceState /\ Radio \subseteq InterfaceState
  /\ \A s \in Homes : Restorable(s)
  /\ MaxFaults \in Nat

VARIABLES
  nic,      \* the interface, with what NetworkManager runs on it
  home,     \* the interface as it was before the first capture
  marker,   \* capture-markers/<key>.jsonl
  journal,  \* capture-journal/<execution>.json or its .pending. temporary
  saved,    \* the InterfaceState inside that journal
  source,   \* the reserved PCAP of the marker's operation token
  staging,  \* what the artifact stager holds of it
  binding,  \* capture-bindings/<key>.json
  act,      \* the key execute() is at work on, under _execution_lock
  pc,       \* where it is
  step,     \* the mutation it issues next
  failed,   \* the command just issued raised
  live,     \* CaptureLiveDependencies exist in this process
  overlapped, \* history: a snapshot was taken beside another request's journal
  faults

vars == <<nic, home, marker, journal, saved, source, staging, binding,
          act, pc, step, failed, live, overlapped, faults>>

\* CaptureMarkerState.  "none": no marker under this name (never begun, or
\* retired); "empty": the file is created and its first event not yet written.
MarkerStates == {"none", "empty", "RESERVATION_PLANNED", "RESERVED", "CAPTURE_COMPLETE",
                 "ROLLBACK_VERIFICATION_PENDING", "INTERFACE_RESTORED",
                 "STAGING_INTENT_DURABLE", "LOCAL_ARTIFACT_COMMITTED", "BINDING_PUBLISHED"}

\* st: the last event; done: there is a CAPTURE_COMPLETE event; n, last: the
\* rollback steps reported as completed, and how the one after them stands;
\* verified: the last report is a complete one.
MarkerRecord == [st : MarkerStates, done : BOOLEAN, n : Nat,
                 last : {"none", "planned", "failed"}, verified : BOOLEAN]
NoMarker == [st |-> "none", done |-> FALSE, n |-> 0, last |-> "none", verified |-> FALSE]

Pcs == {"idle", "create", "write", "reserve", "reserved", "open", "temp", "publish", "mutate",
        "tune", "dump", "dumping", "complete", "rollback", "next", "command", "check", "verify",
        "abort_clear", "abort_source", "abort_retire", "restored", "clear", "stage", "staging",
        "find", "committed", "bind", "bound", "release", "retire"}

-----------------------------------------------------------------------------
(* Commands: what the tools do to the interface (external), as the set of  *)
(* states a successful command may leave.                                  *)

\* nmcli device set managed: giving the interface back lets NetworkManager
\* bring up any of its profiles by itself.
SetManaged(s, on) ==
  IF on <=> s.managed THEN {s}
  ELSE IF on THEN {t \in InterfaceState :
                     /\ Connected(t)
                     /\ t = [s EXCEPT !.managed = TRUE, !.conns = t.conns, !.primary = t.primary]}
  ELSE {[s EXCEPT !.managed = FALSE, !.conns = {}, !.primary = NoConn]}

\* ip link set up or down
SetLink(s, on) ==
  IF on THEN {[s EXCEPT !.up = TRUE]}
  ELSE {[s EXCEPT !.up = FALSE, !.conns = {}, !.primary = NoConn]}

\* nmcli connection up: the connection activated last is the device's own
ConnectionUp(s, c) == [s EXCEPT !.conns = @ \cup {c}, !.primary = c]

\* The effect of one command of the capture or of the rollback to state o.
Effect(name, s, o) ==
  CASE name = "unmanage"               -> SetManaged(s, FALSE)
    [] name = "link_down"              -> SetLink(s, FALSE)
    [] name = "set_monitor"            -> {[s EXCEPT !.type = "monitor"]}
    [] name = "link_up"                -> SetLink(s, TRUE)
    [] name = "set_frequency"          -> {[s EXCEPT !.freq = "capture"]}
    [] name = "restore_type"           -> {[s EXCEPT !.type = o.type]}
    [] name = "restore_frequency"      -> {[s EXCEPT !.freq = o.freq]}
    [] name = "restore_link"           -> SetLink(s, o.up)
    [] name = "restore_networkmanager" -> SetManaged(s, o.managed)

\* networkmanager_restore_plan: the secondaries in order, the primary last.  The
\* connections of o that come before c, and the i-th to be restored.
Before(o, c) ==
  {d \in o.conns \ {o.primary, c} :
     c = o.primary \/ \E i, j \in DOMAIN Profiles : i < j /\ Profiles[i] = d /\ Profiles[j] = c}
RestorePlan(o, i) == {c \in o.conns : Cardinality(Before(o, c)) = i - 1}

Generic == <<"link_down", "restore_type", "restore_frequency", "restore_link",
             "restore_networkmanager">>

\* _rollback_step_names: how many steps a rollback to o has
StepCount(o) == Len(Generic) + Cardinality(o.conns)

\* LinuxCommandCaptureBackend.snapshot: what a complete observation reports
Snapshot == nic

\* _connection_effect_observed
Observed(o, i) ==
  \E c \in RestorePlan(o, i - Len(Generic)) :
    IF c = o.primary THEN Snapshot.primary = c ELSE c \in Snapshot.conns

\* _mutate_and_capture: the commands before dumpcap
Mutations(o) ==
  (IF o.managed THEN <<"unmanage">> ELSE <<>>)
    \o <<"link_down", "set_monitor", "link_up", "set_frequency">>

-----------------------------------------------------------------------------
CaptureInit ==
  /\ home \in Homes
  /\ nic = home
  /\ marker = [k \in Keys |-> NoMarker]
  /\ journal = [k \in Keys |-> "none"]
  /\ saved = [k \in Keys |-> home]
  /\ source = [k \in Keys |-> "none"]
  /\ staging = [k \in Keys |-> "none"]
  /\ binding = [k \in Keys |-> FALSE]
  /\ act = NoKey /\ pc = "idle" /\ step = 1 /\ failed = FALSE
  /\ live = FALSE /\ overlapped = FALSE
  /\ faults = 0

history == <<home, overlapped>>
disk == <<marker, journal, saved, source, staging, binding>>

Fault == faults < MaxFaults /\ faults' = faults + 1

\* The step of execute(k) at place a, which goes on at place b.
At(a)  == act # NoKey /\ pc = a
Go(b)  == pc' = b /\ UNCHANGED act

Return == act' = NoKey /\ pc' = "idle"

Set(k, st) == marker' = [marker EXCEPT ![k].st = st]

-----------------------------------------------------------------------------
(* execute(): the call, and the place on the durable path where it starts. *)

ResumePoint_AnyVerified(k, j) ==
  CASE marker[k].st = "none"                          -> "create"
    [] marker[k].st = "RESERVATION_PLANNED"           -> "reserve"
    [] marker[k].st = "RESERVED"                      -> IF j = "none" THEN "open" ELSE "rollback"
    [] marker[k].st = "CAPTURE_COMPLETE"              -> "rollback"
    [] marker[k].st = "ROLLBACK_VERIFICATION_PENDING" ->
         IF marker[k].verified THEN "abort_clear" ELSE "rollback"
    [] marker[k].st = "INTERFACE_RESTORED"            -> IF j = "none" THEN "stage" ELSE "clear"
    [] marker[k].st = "STAGING_INTENT_DURABLE"        -> "find"
    [] marker[k].st = "LOCAL_ARTIFACT_COMMITTED"      -> "bind"

\* Where _continue_durable_capture takes the request up, from what is on disk.
\* A journal that is there counts as pending.
ResumePoint(k, j) ==
  CASE marker[k].st = "none"                          -> "create"
    [] marker[k].st = "RESERVATION_PLANNED"           -> "reserve"
    [] marker[k].st = "RESERVED"                      -> IF j = "none" THEN "open" ELSE "rollback"
    [] marker[k].st = "CAPTURE_COMPLETE"              -> "rollback"
    [] marker[k].st = "ROLLBACK_VERIFICATION_PENDING" ->
         IF ~marker[k].done /\ marker[k].verified THEN "abort_clear" ELSE "rollback"
    [] marker[k].st = "INTERFACE_RESTORED"            -> IF j = "none" THEN "stage" ELSE "clear"
    [] marker[k].st = "STAGING_INTENT_DURABLE"        -> "find"
    [] marker[k].st = "LOCAL_ARTIFACT_COMMITTED"      -> "bind"

\* _read_marker_snapshot: a marker without a complete first event
UnreadableMarker(k) == marker[k].st = "empty"

\* _pending says yes and _recover_state finds no snapshot
UnreadableJournal(k) == journal[k] = "torn"

\* RESERVED with a file that is gone or has bytes and no completion
UnexpectedOutput(k) == marker[k].st = "RESERVED" /\ source[k] # "empty"

\* _validate_rollback_progress lets a failed step stand: it is never retried.
FailedStep(k) == marker[k].last = "failed"

\* open_reserved finds no file
OutputGone(k) == marker[k].st = "ROLLBACK_VERIFICATION_PENDING" /\ source[k] = "none"

\* The stager gave up after the intent was noted on the marker.
StagingGivenUp(k) == marker[k].st = "STAGING_INTENT_DURABLE" /\ staging[k] = "none"

\* _inspect_artifact finds no file
ArtifactGone(k) == marker[k].st = "LOCAL_ARTIFACT_COMMITTED" /\ staging[k] = "pruned"

\* What the code cannot continue from, and leaves to the operator
ManualRecovery(k) ==
  \/ UnreadableMarker(k) \/ UnreadableJournal(k) \/ UnexpectedOutput(k)
  \/ FailedStep(k) \/ OutputGone(k) \/ StagingGivenUp(k) \/ ArtifactGone(k)

\* find_existing: an artifact of this request without marker and binding
LegacyArtifact(k) == marker[k].st = "none" /\ staging[k] # "none"

\* _recover_temporaries, in the constructor of the journal: every complete
\* temporary of an earlier process is published.
RecoverTemporaries ==
  [k \in Keys |-> IF ~live /\ journal[k] = "temp" THEN "valid" ELSE journal[k]]

\* The request is about to take the interface from its present state ...
NeedsSnapshot(k, j) ==
  \/ marker[k].st \in {"none", "RESERVATION_PLANNED"}
  \/ marker[k].st = "RESERVED" /\ j = "none"

\* ... which is the only case in which a process that has its dependencies looks
\* at the interface before it goes on.
Admitted(k, j) ==
  /\ ~ManualRecovery(k) /\ ~LegacyArtifact(k)
  /\ NeedsSnapshot(k, j) => Restorable(Snapshot)

\* A binding is resolved before anything else: its result is returned again
\* and nothing changes.
Resolved(k) == binding[k]

\* A new process, whatever it will find on disk, first needs a snapshot that it
\* could restore: without it no dependencies are opened.
Opens == live \/ Restorable(Snapshot)

\* DeferredCaptureCoordinator.execute, CaptureCoordinator.execute,
\* _execute_durable and _execute_durable_locked up to the first durable step.
\* Only a request without a binding goes on, and only with nobody at work: a
\* second caller is refused.
Execute(k) ==
  /\ act = NoKey /\ ~Resolved(k) /\ Opens
  /\ LET j == RecoverTemporaries
     IN  /\ Admitted(k, j[k])
         /\ journal' = j
         /\ pc' = ResumePoint(k, j[k])
  /\ act' = k
  /\ live' = TRUE
  /\ step' = 1 /\ failed' = FALSE
  /\ UNCHANGED <<nic, history, marker, saved, source, staging, binding, faults>>

\* The first call of a process, refused after the dependencies were opened
RefusedCall(k) ==
  /\ act = NoKey /\ ~Resolved(k) /\ Opens /\ ~live
  /\ ~Admitted(k, RecoverTemporaries[k])
  /\ journal' = RecoverTemporaries
  /\ live' = TRUE
  /\ UNCHANGED <<nic, history, marker, saved, source, staging, binding, act, pc, step, failed, faults>>

\* begin_marker creates the file with O_EXCL ...
CreateMarker ==
  /\ At("create") /\ Set(act, "empty") /\ Go("write")
  /\ UNCHANGED <<nic, history, journal, saved, source, staging, binding, step, failed, live, faults>>

\* ... and writes its first event, with a new operation token and so a new source name.
WriteMarker ==
  /\ At("write")
  /\ marker' = [marker EXCEPT ![act] = [NoMarker EXCEPT !.st = "RESERVATION_PLANNED"]]
  /\ source' = [source EXCEPT ![act] = "none"]
  /\ Go("reserve")
  /\ UNCHANGED <<nic, history, journal, saved, staging, binding, step, failed, live, faults>>

\* open_reserved adopts the empty file of an earlier attempt, else reserve creates it.
Reserve ==
  /\ At("reserve")
  /\ source' = [source EXCEPT ![act] = "empty"]
  /\ Go("reserved")
  /\ UNCHANGED <<nic, history, marker, journal, saved, staging, binding, step, failed, live, faults>>

AdvanceReserved ==
  /\ At("reserved") /\ Set(act, "RESERVED") /\ Go("open")
  /\ UNCHANGED <<nic, history, journal, saved, source, staging, binding, step, failed, live, faults>>

-----------------------------------------------------------------------------
(* FileCaptureJournal.record: create a temporary, write and fsync it,      *)
(* rename it.  The interface is untouched until record() has returned.     *)

RecordOpen ==
  /\ At("open")
  /\ journal' = [journal EXCEPT ![act] = "torn"]
  /\ Go("temp")
  /\ UNCHANGED <<nic, history, marker, saved, source, staging, binding, step, failed, live, faults>>

\* The snapshot was taken by this call, after the lock and before the marker.
RecordWrite ==
  /\ At("temp")
  /\ journal' = [journal EXCEPT ![act] = "temp"]
  /\ saved' = [saved EXCEPT ![act] = Snapshot]
  /\ overlapped' = (overlapped \/ \E k \in Keys \ {act} : journal[k] = "valid")
  /\ Go("publish")
  /\ UNCHANGED <<nic, home, marker, source, staging, binding, step, failed, live, faults>>

RecordPublish ==
  /\ At("publish")
  /\ journal' = [journal EXCEPT ![act] = "valid"]
  /\ Go("mutate")
  /\ UNCHANGED <<nic, history, marker, saved, source, staging, binding, step, failed, live, faults>>

\* record() raises before the rename, its temporary moved aside, or after it,
\* or is cancelled while its thread goes on to publish.
RecordFails ==
  /\ pc \in {"temp", "publish"} /\ act # NoKey /\ Fault
  /\ \/ journal' = [journal EXCEPT ![act] = "none"]
     \/ pc = "publish" /\ journal' = [journal EXCEPT ![act] = "valid"]
  /\ Return
  /\ UNCHANGED <<nic, history, marker, saved, source, staging, binding, step, failed, live>>

-----------------------------------------------------------------------------
(* _mutate_and_capture                                                     *)

Mutate ==
  /\ At("mutate")
  /\ nic' \in Effect(Mutations(saved[act])[step], nic, saved[act])
  /\ IF step = Len(Mutations(saved[act])) THEN step' = 1 /\ Go("tune")
                                          ELSE step' = step + 1 /\ Go("mutate")
  /\ UNCHANGED <<history, disk, failed, live, faults>>

\* The command fails or times out, or the task is cancelled inside it: with or
\* without its effect.  Every error on this path goes to the rollback.
MutateFails ==
  /\ At("mutate") /\ Fault
  /\ nic' \in {nic} \cup Effect(Mutations(saved[act])[step], nic, saved[act])
  /\ Go("rollback")
  /\ UNCHANGED <<history, disk, step, failed, live>>

\* The read-back of type, frequency, channel, width and centres
Tune ==
  /\ At("tune")
  /\ IF Snapshot.type = "monitor" /\ Snapshot.freq = "capture" THEN Go("dump") ELSE Go("rollback")
  /\ UNCHANGED <<nic, history, disk, step, failed, live, faults>>

\* dumpcap starts to write to the reserved descriptor.
Dump ==
  /\ At("dump")
  /\ source' = [source EXCEPT ![act] = "partial"]
  /\ Go("dumping")
  /\ UNCHANGED <<nic, history, marker, journal, saved, staging, binding, step, failed, live, faults>>

\* dumpcap ends well; hash_completed accepts the size.
DumpEnds ==
  /\ At("dumping")
  /\ source' = [source EXCEPT ![act] = "full"]
  /\ Go("complete")
  /\ UNCHANGED <<nic, history, marker, journal, saved, staging, binding, step, failed, live, faults>>

\* The read-back, dumpcap or the check of its output fails, or the call is cancelled.
CaptureFails ==
  /\ pc \in {"tune", "dump", "dumping"} /\ act # NoKey /\ Fault
  /\ Go("rollback")
  /\ UNCHANGED <<nic, history, disk, step, failed, live>>

AdvanceComplete ==
  /\ At("complete")
  /\ marker' = [marker EXCEPT ![act].st = "CAPTURE_COMPLETE", ![act].done = TRUE]
  /\ Go("rollback")
  /\ UNCHANGED <<nic, history, journal, saved, source, staging, binding, step, failed, live, faults>>

-----------------------------------------------------------------------------
(* _durable_rollback: the steps after the durable prefix, each checkpointed *)
(* on the marker, then a read-only verification.                           *)

Pending == "ROLLBACK_VERIFICATION_PENDING"

\* The first event of a rollback: nothing of it is completed.
RollbackPending(m) == [st |-> Pending, done |-> m.done, n |-> 0, last |-> "none", verified |-> FALSE]

RollbackBegin_Restarts ==
  /\ At("rollback")
  /\ marker' = [marker EXCEPT ![act] = RollbackPending(@)]
  /\ Go("next")
  /\ UNCHANGED <<nic, history, journal, saved, source, staging, binding, step, failed, live, faults>>

RollbackBegin ==
  /\ At("rollback")
  /\ IF marker[act].st = Pending
     THEN UNCHANGED marker
     ELSE marker' = [marker EXCEPT ![act] = RollbackPending(@)]
  /\ Go("next")
  /\ UNCHANGED <<nic, history, journal, saved, source, staging, binding, step, failed, live, faults>>

\* Which step is next: none after a failed one, none after the last.
RollbackNext ==
  LET o == saved[act]
      m == marker[act]
      i == m.n + 1
      confirm == marker' = [marker EXCEPT ![act].n = i, ![act].last = "none"]
  IN  /\ At("next")
      /\ \/ m.last = "failed" /\ Return /\ UNCHANGED marker
         \/ m.last # "failed" /\ m.n = StepCount(o) /\ Go("verify") /\ UNCHANGED marker
         \/ m.last # "failed" /\ i <= Len(Generic) /\ Go("command") /\ UNCHANGED marker
            \* A connection: what is already there is confirmed without a command.
         \/ /\ m.last # "failed" /\ Len(Generic) < i /\ i <= StepCount(o)
            /\ IF Observed(o, i) THEN confirm /\ Go("next")
               ELSE marker' = [marker EXCEPT ![act].last = "planned"] /\ Go("command")
      /\ UNCHANGED <<nic, history, journal, saved, source, staging, binding, step, failed, live,
                     faults>>

\* The observation a connection step needs is partial or unavailable: the step
\* stays planned and the rollback incomplete.
ObservationUnavailable ==
  /\ At("next") /\ Fault
  /\ marker[act].last # "failed"
  /\ Len(Generic) <= marker[act].n /\ marker[act].n < StepCount(saved[act])
  /\ marker' = [marker EXCEPT ![act].last = "planned"]
  /\ Return
  /\ UNCHANGED <<nic, history, journal, saved, source, staging, binding, step, failed, live>>

\* What the command of rollback step i may leave
RollbackEffect(o, i) ==
  IF i <= Len(Generic) THEN Effect(Generic[i], nic, o)
                       ELSE {ConnectionUp(nic, c) : c \in RestorePlan(o, i - Len(Generic))}

RollbackCommand ==
  /\ At("command")
  /\ nic' \in RollbackEffect(saved[act], marker[act].n + 1)
  /\ failed' = FALSE
  /\ Go("check")
  /\ UNCHANGED <<history, disk, step, live, faults>>

\* attempt() catches every error, a cancellation too.
RollbackCommandFails ==
  /\ At("command") /\ Fault
  /\ nic' \in {nic} \cup RollbackEffect(saved[act], marker[act].n + 1)
  /\ failed' = TRUE
  /\ Go("check")
  /\ UNCHANGED <<history, disk, step, live>>

\* The checkpoint after the command
RollbackCheck ==
  /\ At("check")
  /\ marker' = IF failed THEN [marker EXCEPT ![act].last = "failed"]
               ELSE [marker EXCEPT ![act].n = @ + 1, ![act].last = "none"]
  /\ Go("next")
  /\ UNCHANGED <<nic, history, journal, saved, source, staging, binding, step, failed, live, faults>>

Verify_TrustsCommands ==
  /\ At("verify")
  /\ marker' = [marker EXCEPT ![act].verified = TRUE]
  /\ Go(IF marker[act].done THEN "restored" ELSE "abort_clear")
  /\ UNCHANGED <<nic, history, journal, saved, source, staging, binding, step, failed, live,
                 faults>>

\* _verify_rollback and the report that is persisted, complete or not
Verify ==
  LET same == Snapshot = saved[act]
  IN  /\ At("verify")
      /\ marker' = [marker EXCEPT ![act].verified = same]
      /\ IF ~same THEN Return
         ELSE Go(IF marker[act].done THEN "restored" ELSE "abort_clear")
      /\ UNCHANGED <<nic, history, journal, saved, source, staging, binding, step, failed, live,
                     faults>>

VerifyUnavailable ==
  /\ At("verify") /\ Fault
  /\ marker' = [marker EXCEPT ![act].verified = FALSE]
  /\ Return
  /\ UNCHANGED <<nic, history, journal, saved, source, staging, binding, step, failed, live>>

-----------------------------------------------------------------------------
(* A capture that did not complete: the journal, the output and the marker *)
(* are retired in this order and the error is raised.                      *)

AbortClear ==
  /\ At("abort_clear")
  /\ journal' = [journal EXCEPT ![act] = "none"]
  /\ Go("abort_source")
  /\ UNCHANGED <<nic, history, marker, saved, source, staging, binding, step, failed, live, faults>>

AbortSource ==
  /\ At("abort_source")
  /\ source' = [source EXCEPT ![act] = "none"]
  /\ Go("abort_retire")
  /\ UNCHANGED <<nic, history, marker, journal, saved, staging, binding, step, failed, live, faults>>

AbortRetire ==
  /\ At("abort_retire")
  /\ marker' = [marker EXCEPT ![act] = NoMarker]
  /\ Return
  /\ UNCHANGED <<nic, history, journal, saved, source, staging, binding, step, failed, live, faults>>

-----------------------------------------------------------------------------
(* A capture that completed: stage the bytes, publish the binding, retire. *)

AdvanceRestored ==
  /\ At("restored") /\ Set(act, "INTERFACE_RESTORED") /\ Go("clear")
  /\ UNCHANGED <<nic, history, journal, saved, source, staging, binding, step, failed, live, faults>>

Clear ==
  /\ At("clear")
  /\ journal' = [journal EXCEPT ![act] = "none"]
  /\ Go("stage")
  /\ UNCHANGED <<nic, history, marker, saved, source, staging, binding, step, failed, live, faults>>

\* stage_from_descriptor: the intent is durable, then note_intent_durable.
StageIntent ==
  /\ At("stage")
  /\ staging' = [staging EXCEPT ![act] = "intent"]
  /\ Set(act, "STAGING_INTENT_DURABLE")
  /\ Go("staging")
  /\ UNCHANGED <<nic, history, journal, saved, source, binding, step, failed, live, faults>>

StageCommit ==
  /\ At("staging")
  /\ staging' = [staging EXCEPT ![act] = "queued"]
  /\ Go("committed")
  /\ UNCHANGED <<nic, history, marker, journal, saved, source, binding, step, failed, live, faults>>

\* The stager fails before its intent; after it, with the copy and the intent
\* moved aside; or the caller gives up while the worker still goes on.
StageFails ==
  /\ pc \in {"stage", "staging"} /\ act # NoKey /\ Fault
  /\ \/ UNCHANGED staging
     \/ pc = "staging" /\ staging' = [staging EXCEPT ![act] = "none"]
  /\ Return
  /\ UNCHANGED <<nic, history, marker, journal, saved, source, binding, step, failed, live>>

FindExisting_NoReconcile ==
  /\ At("find")
  /\ IF staging[act] = "intent" THEN Return ELSE Go("committed")
  /\ UNCHANGED <<nic, history, marker, journal, saved, source, staging, binding, step, failed, live,
                 faults>>

\* find_existing, after the reconciliation of capture intents
FindExisting ==
  /\ At("find")
  /\ staging' = [staging EXCEPT ![act] = IF @ = "intent" THEN "queued" ELSE @]
  /\ Go("committed")
  /\ UNCHANGED <<nic, history, marker, journal, saved, source, binding, step, failed, live, faults>>

AdvanceCommitted ==
  /\ At("committed") /\ Set(act, "LOCAL_ARTIFACT_COMMITTED") /\ Go("bind")
  /\ UNCHANGED <<nic, history, journal, saved, source, staging, binding, step, failed, live, faults>>

\* publish_binding inspects the artifact first: a pruned one raises.
PublishBinding ==
  /\ At("bind")
  /\ IF staging[act] = "queued" THEN binding' = [binding EXCEPT ![act] = TRUE] /\ Go("bound")
     ELSE Return /\ UNCHANGED binding
  /\ UNCHANGED <<nic, history, marker, journal, saved, source, staging, step, failed, live, faults>>

AdvanceBound ==
  /\ At("bound") /\ Set(act, "BINDING_PUBLISHED") /\ Go("release")
  /\ UNCHANGED <<nic, history, journal, saved, source, staging, binding, step, failed, live, faults>>

\* validate_binding_artifact, then the source is moved aside.
ReleaseSource ==
  /\ At("release")
  /\ IF staging[act] = "queued"
     THEN source' = [source EXCEPT ![act] = "none"] /\ Go("retire")
     ELSE Return /\ UNCHANGED source
  /\ UNCHANGED <<nic, history, marker, journal, saved, staging, binding, step, failed, live, faults>>

Retire ==
  /\ At("retire")
  /\ marker' = [marker EXCEPT ![act] = NoMarker]
  /\ Return
  /\ UNCHANGED <<nic, history, journal, saved, source, staging, binding, step, failed, live, faults>>

-----------------------------------------------------------------------------
(* The environment                                                         *)

\* The process dies with everything in its control group, and is restarted.
Crash ==
  /\ Fault
  /\ Return /\ step' = 1 /\ failed' = FALSE /\ live' = FALSE
  /\ UNCHANGED <<nic, history, disk>>

\* A confirmed upload whose retention is over is pruned (module ArtifactStore).
Prune(k) ==
  /\ staging[k] = "queued" /\ Fault
  /\ staging' = [staging EXCEPT ![k] = "pruned"]
  /\ UNCHANGED <<nic, history, marker, journal, saved, source, binding, act, pc, step, failed, live>>

CaptureSteps ==
  \/ CreateMarker \/ WriteMarker \/ Reserve \/ AdvanceReserved
  \/ RecordOpen \/ RecordWrite \/ RecordPublish
  \/ Mutate \/ Tune \/ Dump \/ DumpEnds \/ AdvanceComplete
  \/ RollbackBegin \/ RollbackNext \/ RollbackCommand \/ RollbackCheck \/ Verify
  \/ AbortClear \/ AbortSource \/ AbortRetire
  \/ AdvanceRestored \/ Clear \/ StageIntent \/ StageCommit \/ FindExisting
  \/ AdvanceCommitted \/ PublishBinding \/ AdvanceBound \/ ReleaseSource \/ Retire

Failures ==
  \/ RecordFails \/ MutateFails \/ CaptureFails \/ ObservationUnavailable
  \/ RollbackCommandFails \/ VerifyUnavailable \/ StageFails
  \/ Crash

Next ==
  \/ \E k \in Keys : Execute(k) \/ RefusedCall(k) \/ Prune(k)
  \/ CaptureSteps
  \/ Failures

Spec == CaptureInit /\ [][Next]_vars

\* A call in progress goes on: every tool runs under a deadline.  Nothing is
\* assumed of the callers, nor that a call of theirs is ever admitted.
FairSpec == Spec /\ WF_vars(CaptureSteps)

-----------------------------------------------------------------------------
(* Properties                                                              *)

TypeOK ==
  /\ nic \in InterfaceState /\ home \in Homes
  /\ marker \in [Keys -> MarkerRecord]
  /\ journal \in [Keys -> {"none", "torn", "temp", "valid"}]
  /\ saved \in [Keys -> InterfaceState]
  /\ source \in [Keys -> {"none", "empty", "partial", "full"}]
  /\ staging \in [Keys -> {"none", "intent", "queued", "pruned"}]
  /\ binding \in [Keys -> BOOLEAN]
  /\ act \in Keys \cup {NoKey} /\ pc \in Pcs /\ (act = NoKey <=> pc = "idle")
  /\ step \in 1..5 /\ failed \in BOOLEAN /\ live \in BOOLEAN /\ overlapped \in BOOLEAN
  /\ faults \in 0..MaxFaults

\* Whenever the interface is not as the first capture found it, whatever
\* failed or crashed, a published journal holds the state to restore: it is
\* recorded before the first command and cleared after a complete verification.
\* A request that starts beside the unresolved journal of another takes the
\* changed interface for the original one, and its rollback goes back to that:
\* _execute_durable_locked looks for the journal of its own execution only.
InterfaceJournaled ==
  nic # home /\ ~overlapped => \E k \in Keys : journal[k] = "valid" /\ saved[k] = home

\* The bytes of a capture that is recorded as complete are in the reserved
\* file until the stager holds them: no error path moves them aside before.
BytesKept ==
  \A k \in Keys : marker[k].done => source[k] = "full" \/ staging[k] \in {"queued", "pruned"}

\* A binding is only published for bytes the stager has committed, with the
\* interface verified and its journal cleared.
BoundIsComplete ==
  \A k \in Keys : binding[k] => journal[k] = "none" /\ staging[k] \in {"queued", "pruned"}

\* The evidence of a capture is neither lost nor handed on early.
EvidenceKept == TypeOK /\ BytesKept /\ BoundIsComplete

Rank(m) ==
  CASE m.st = "none"                     -> 0
    [] m.st = "empty"                    -> 1
    [] m.st = "RESERVATION_PLANNED"      -> 2
    [] m.st = "RESERVED"                 -> 3
    [] m.st = "CAPTURE_COMPLETE"         -> 4
    [] m.st = Pending                    -> 5
    [] m.st = "INTERFACE_RESTORED"       -> 6
    [] m.st = "STAGING_INTENT_DURABLE"   -> 7
    [] m.st = "LOCAL_ARTIFACT_COMMITTED" -> 8
    [] m.st = "BINDING_PUBLISHED"        -> 9

\* Across crashes and retries a marker only moves forward, or away once the
\* interface is verified: the confirmed prefix of a rollback never shrinks, so
\* no confirmed command is issued again, and a failed step stays failed.
MarkerAdvances ==
  [][\A k \in Keys :
       LET m == marker[k]
           p == marker'[k]
       IN  \/ Rank(p) > Rank(m)
           \/ Rank(p) = Rank(m) /\ p.n >= m.n /\ (m.last = "failed" => p.last = "failed")
           \/ p.st = "none" /\ (m.verified \/ binding[k])]_vars

\* NetworkManager, given the interface back, runs a connection that the
\* snapshot does not have.  No rollback step takes one down.
ForeignConnection(k) ==
  /\ marker[k].st = Pending /\ marker[k].n = StepCount(saved[k])
  /\ nic = [saved[k] EXCEPT !.conns = nic.conns, !.primary = nic.primary]
  /\ nic.conns \ saved[k].conns # {}

\* No request goes round for ever.  However often it is repeated, only finitely
\* many of its calls get to work, as each leaves its evidence further on than it
\* found it; so it comes to its binding, or to a state in which calls are
\* refused (~Opens, ~Admitted).  Excepted are a rollback whose every command
\* succeeded and that NetworkManager's own choice of connections keeps
\* incomplete, and two requests let loose on one interface.
CaptureSettles ==
  \A k \in Keys : <>[](act # k \/ ForeignConnection(k) \/ overlapped)
=============================================================================
