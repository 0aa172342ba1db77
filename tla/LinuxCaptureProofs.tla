------------------------ MODULE LinuxCaptureProofs ------------------------
(***************************************************************************)
(* Proofs about LinuxCapture for every set of requests, every list of      *)
(* NetworkManager profiles, every state the interface may start from and   *)
(* every number of faults.                                                 *)
(***************************************************************************)
EXTENDS LinuxCapture, FiniteSetTheorems, SequenceTheorems, TLAPS

-----------------------------------------------------------------------------
(* The inductive invariant *)

Committed == {"queued", "pruned"}

\* The marker states before dumpcap has ended, and after the interface is back
Early == {"none", "empty", "RESERVATION_PLANNED", "RESERVED"}
Late  == {"STAGING_INTENT_DURABLE", "LOCAL_ARTIFACT_COMMITTED", "BINDING_PUBLISHED"}

\* What the last event of a marker says of its rollback and of the journal.
MarkerOK(k) ==
  LET m == marker[k]
      j == journal[k]
  IN  /\ m.st \in Early => ~m.done /\ ~m.verified /\ m.n = 0 /\ m.last = "none"
      /\ m.st \in Early \ {"RESERVED"} => j = "none"
      /\ m.st \in {"CAPTURE_COMPLETE", "INTERFACE_RESTORED"} \cup Late => m.done
      /\ m.st = "CAPTURE_COMPLETE" => ~m.verified /\ j = "valid"
      /\ m.st = Pending => j = "valid" \/ (j = "none" /\ m.verified /\ ~m.done)
      /\ m.st = "INTERFACE_RESTORED" => m.verified /\ j \in {"valid", "none"}
      /\ m.st \in Late => j = "none"
      /\ m.verified => m.n = StepCount(saved[k]) /\ m.last # "failed"

\* Where the bytes are, and what a binding says of them.
BytesOK(k) ==
  /\ marker[k].st = "LOCAL_ARTIFACT_COMMITTED" => staging[k] \in Committed
  /\ marker[k].done => source[k] = "full" \/ binding[k]
  /\ marker[k].st = "BINDING_PUBLISHED" => binding[k]
  /\ binding[k] =>
       /\ marker[k].st \in {"LOCAL_ARTIFACT_COMMITTED", "BINDING_PUBLISHED", "none"}
       /\ staging[k] \in Committed /\ journal[k] = "none"

\* Where execute() is, against what it finds on disk.
MarkerAt(p) ==
  CASE p = "create"                                              -> {"none"}
    [] p = "write"                                               -> {"empty"}
    [] p \in {"reserve", "reserved"}                             -> {"RESERVATION_PLANNED"}
    [] p \in {"open", "temp", "publish", "mutate", "tune", "dump", "dumping", "complete"}
                                                                 -> {"RESERVED"}
    [] p = "rollback"                                            -> {"RESERVED", "CAPTURE_COMPLETE", Pending}
    [] p \in {"next", "command", "check", "verify", "abort_clear", "abort_source", "abort_retire",
              "restored"}                                        -> {Pending}
    [] p \in {"clear", "stage"}                                  -> {"INTERFACE_RESTORED"}
    [] p \in {"staging", "find", "committed"}                    -> {"STAGING_INTENT_DURABLE"}
    [] p \in {"bind", "bound"}                                   -> {"LOCAL_ARTIFACT_COMMITTED"}
    [] p \in {"release", "retire"}                               -> {"BINDING_PUBLISHED"}

JournalAt(p) ==
  CASE p = "temp"                                                -> {"torn"}
    [] p = "publish"                                             -> {"temp"}
    [] p \in {"mutate", "tune", "dump", "dumping", "complete", "rollback", "next", "command", "check",
              "verify", "restored"}                              -> {"valid"}
    [] p \in {"abort_clear", "clear"}                            -> {"valid", "none"}
    [] OTHER                                                     -> {"none"}

PlaceOK ==
  act # NoKey =>
    LET m == marker[act]
    IN  /\ live
        /\ m.st \in MarkerAt(pc)
        /\ journal[act] \in JournalAt(pc)
        /\ binding[act] <=> pc \in {"bound", "release", "retire"}
        /\ pc \in {"create", "write", "reserve", "reserved", "open", "temp", "publish"} => step = 1
        /\ pc = "mutate" => step <= Len(Mutations(saved[act]))
        /\ pc = "complete" => source[act] = "full"
        /\ pc \in {"command", "check"} => m.n < StepCount(saved[act]) /\ m.last # "failed"
        /\ pc = "verify" => m.n = StepCount(saved[act]) /\ m.last # "failed"
        /\ pc \in {"abort_clear", "abort_source", "abort_retire"} => m.verified /\ ~m.done
        /\ pc = "restored" => m.verified /\ m.done
        /\ pc = "find" => staging[act] # "none"
        /\ pc \in {"committed", "bind", "bound"} => staging[act] \in Committed

\* A temporary belongs to the call in progress or to a process that is gone.
TemporaryOK ==
  \A k \in Keys : journal[k] = "temp" => (act = k /\ pc = "publish") \/ ~live

Recorded(k) == journal[k] \in {"temp", "valid"}

\* One request at a time has a snapshot of the interface, and it is the
\* original; it is given up only with the interface back in that state.
SnapshotOK ==
  ~overlapped =>
    /\ \A k \in Keys : Recorded(k) => saved[k] = home
    /\ \A k, l \in Keys : Recorded(k) /\ Recorded(l) => k = l
    /\ \A k \in Keys : journal[k] = "valid" /\ marker[k].verified => nic = home

IInv ==
  /\ TypeOK
  /\ \A k \in Keys : MarkerOK(k) /\ BytesOK(k)
  /\ PlaceOK /\ TemporaryOK /\ SnapshotOK /\ InterfaceJournaled

-----------------------------------------------------------------------------
(* Operators *)

\* A rollback has the generic steps and one for each connection.
LEMMA StepCountType ==
  ASSUME NEW o \in InterfaceState
  PROVE  StepCount(o) \in Nat /\ StepCount(o) >= Len(Generic)
<1>1. IsFiniteSet(o.conns)
  BY CaptureAssumption, FS_Subset DEF InterfaceState
<1>2. Cardinality(o.conns) \in Nat
  BY <1>1, FS_CardinalityType
<1> QED
  BY <1>2 DEF StepCount, Generic

CommandNames == {"unmanage", "link_down", "set_monitor", "link_up", "set_frequency",
                 "restore_type", "restore_frequency", "restore_link", "restore_networkmanager"}

\* No command leaves the interface in a state that is none.
LEMMA LinkType ==
  ASSUME NEW s \in InterfaceState, NEW on \in BOOLEAN, NEW t \in SetLink(s, on)
  PROVE  t \in InterfaceState
  BY DEF SetLink, InterfaceState

LEMMA ManagedType ==
  ASSUME NEW s \in InterfaceState, NEW on \in BOOLEAN, NEW t \in SetManaged(s, on)
  PROVE  t \in InterfaceState
<1>1. CASE on <=> s.managed
  BY <1>1 DEF SetManaged
<1>2. CASE on /\ ~s.managed
  BY <1>2 DEF SetManaged
<1>3. CASE ~on /\ s.managed
  BY <1>3 DEF SetManaged, InterfaceState
<1> QED
  BY <1>1, <1>2, <1>3

LEMMA EffectType ==
  ASSUME NEW name \in CommandNames, NEW s \in InterfaceState, NEW o \in InterfaceState,
         NEW t \in Effect(name, s, o)
  PROVE  t \in InterfaceState
<1>1. o.type \in {"managed", "monitor", "AP"} /\ o.freq \in {"home", "capture"}
      /\ o.up \in BOOLEAN /\ o.managed \in BOOLEAN
  BY DEF InterfaceState
<1>2. CASE name \in {"unmanage", "restore_networkmanager"}
  BY <1>1, <1>2, ManagedType DEF Effect
<1>3. CASE name \in {"link_down", "link_up", "restore_link"}
  BY <1>1, <1>3, LinkType DEF Effect
<1>4. CASE name \in {"set_monitor", "set_frequency", "restore_type", "restore_frequency"}
  BY ZenonT(60), <1>1, <1>4 DEF Effect, InterfaceState
<1> QED
  BY <1>2, <1>3, <1>4 DEF CommandNames

LEMMA MutationNames ==
  ASSUME NEW o
  PROVE  /\ Len(Mutations(o)) \in 4..5
         /\ \A i \in 1..Len(Mutations(o)) : Mutations(o)[i] \in CommandNames
<1> DEFINE first == IF o.managed THEN <<"unmanage">> ELSE <<>>
           rest  == <<"link_down", "set_monitor", "link_up", "set_frequency">>
<1>1. rest \in Seq(CommandNames) /\ Len(rest) = 4
  BY DEF CommandNames
<1>2. first \in Seq(CommandNames) /\ Len(first) \in 0..1
  <2>1. CASE o.managed
    BY <2>1 DEF CommandNames
  <2>2. CASE ~o.managed
    BY <2>2
  <2> QED
    BY <2>1, <2>2
<1>3. Mutations(o) = first \o rest
  BY DEF Mutations
<1> HIDE DEF first, rest
<1>4. first \o rest \in Seq(CommandNames) /\ Len(first \o rest) = Len(first) + Len(rest)
  BY <1>1, <1>2, ConcatProperties, Zenon
<1>5. Mutations(o) \in Seq(CommandNames) /\ Len(Mutations(o)) \in 4..5
  <2>1. PICK n \in 0..1 : n = Len(first)
    BY <1>2
  <2>2. n + 4 \in 4..5
    OBVIOUS
  <2>3. Len(first) + Len(rest) \in 4..5
    BY <1>1, <2>1, <2>2, Zenon
  <2> QED
    BY <1>3, <1>4, <2>3, Zenon
<1> QED
  BY <1>5, ElementOfSeq

LEMMA RollbackEffectType ==
  ASSUME nic \in InterfaceState, NEW o \in InterfaceState, NEW i \in Nat \ {0},
         NEW t \in RollbackEffect(o, i)
  PROVE  t \in InterfaceState
<1>1. CASE i <= Len(Generic)
  <2>1. Generic[i] \in CommandNames
    BY <1>1 DEF Generic, CommandNames
  <2> QED
    BY <1>1, <2>1, EffectType DEF RollbackEffect
<1>2. CASE ~(i <= Len(Generic))
  <2>1. PICK c \in o.conns : t = ConnectionUp(nic, c)
    BY <1>2 DEF RollbackEffect, RestorePlan
  <2>2. c \in Conns
    BY DEF InterfaceState
  <2> QED
    BY <2>1, <2>2 DEF ConnectionUp, InterfaceState
<1> QED
  BY <1>1, <1>2

-----------------------------------------------------------------------------
LEMMA InitIInv == CaptureInit => IInv
<1> SUFFICES ASSUME CaptureInit PROVE IInv
  OBVIOUS
<1>1. TypeOK
  <2>1. NoMarker \in MarkerRecord
    BY DEF NoMarker, MarkerRecord, MarkerStates
  <2>2. home \in InterfaceState
    BY CaptureAssumption DEF CaptureInit
  <2>3. faults \in 0..MaxFaults /\ step \in 1..5 /\ pc \in Pcs /\ act = NoKey /\ pc = "idle"
    BY CaptureAssumption DEF CaptureInit, Pcs
  <2> QED
    BY <2>1, <2>2, <2>3 DEF CaptureInit, TypeOK
<1>2. \A k \in Keys : MarkerOK(k) /\ BytesOK(k)
  BY DEF CaptureInit, MarkerOK, BytesOK, NoMarker, Early, Late, Pending, Committed
<1>3. PlaceOK /\ TemporaryOK /\ SnapshotOK /\ InterfaceJournaled
  BY DEF CaptureInit, PlaceOK, TemporaryOK, SnapshotOK, Recorded, InterfaceJournaled
<1> QED
  BY <1>1, <1>2, <1>3 DEF IInv

-----------------------------------------------------------------------------
(* Typing *)

DiskType ==
  /\ journal \in [Keys -> {"none", "torn", "temp", "valid"}]
  /\ saved \in [Keys -> InterfaceState]
  /\ source \in [Keys -> {"none", "empty", "partial", "full"}]
  /\ staging \in [Keys -> {"none", "intent", "queued", "pruned"}]
  /\ binding \in [Keys -> BOOLEAN]

CallType ==
  /\ act \in Keys \cup {NoKey} /\ pc \in Pcs /\ (act = NoKey <=> pc = "idle")
  /\ step \in 1..5 /\ failed \in BOOLEAN /\ live \in BOOLEAN /\ overlapped \in BOOLEAN
  /\ faults \in 0..MaxFaults

LEMMA InterfaceTypeStep ==
  ASSUME IInv, Next
  PROVE  nic' \in InterfaceState /\ home' \in Homes
<1> USE DEF IInv, TypeOK, At, history, disk
<1>1. CASE Mutate \/ MutateFails
  <2>1. act \in Keys /\ saved[act] \in InterfaceState
    BY <1>1 DEF Mutate, MutateFails
  <2>2. step \in 1..Len(Mutations(saved[act]))
    BY <1>1 DEF Mutate, MutateFails, PlaceOK
  <2>3. Mutations(saved[act])[step] \in CommandNames
    BY <2>2, MutationNames
  <2>4. \A t \in Effect(Mutations(saved[act])[step], nic, saved[act]) : t \in InterfaceState
    BY <2>1, <2>3, EffectType
  <2> QED
    BY <1>1, <2>4 DEF Mutate, MutateFails
<1>2. CASE RollbackCommand \/ RollbackCommandFails
  <2>1. act \in Keys /\ saved[act] \in InterfaceState /\ marker[act].n \in Nat
    BY <1>2 DEF RollbackCommand, RollbackCommandFails, MarkerRecord
  <2>2. \A t \in RollbackEffect(saved[act], marker[act].n + 1) : t \in InterfaceState
    BY <2>1, RollbackEffectType
  <2> QED
    BY <1>2, <2>2 DEF RollbackCommand, RollbackCommandFails
<1>3. CASE ~(Mutate \/ MutateFails \/ RollbackCommand \/ RollbackCommandFails)
  <2>1. UNCHANGED <<nic, home>>
    BY <1>3
    DEF Next, CaptureSteps, Failures, Execute, RefusedCall, Prune, CreateMarker, WriteMarker, Reserve,
        AdvanceReserved, RecordOpen, RecordWrite, RecordPublish, Tune, Dump, DumpEnds,
        AdvanceComplete, RollbackBegin, RollbackNext, RollbackCheck, Verify, AbortClear,
        AbortSource, AbortRetire, AdvanceRestored, Clear, StageIntent, StageCommit, FindExisting,
        AdvanceCommitted, PublishBinding, AdvanceBound, ReleaseSource, Retire, RecordFails,
        CaptureFails, ObservationUnavailable, VerifyUnavailable, StageFails, Crash
  <2> QED
    BY <2>1
<1> QED
  BY <1>1, <1>2, <1>3

LEMMA MarkerTypeStep ==
  ASSUME IInv, Next
  PROVE  marker' \in [Keys -> MarkerRecord]
<1> USE DEF IInv, TypeOK, At, history, disk
<1>1. NoMarker \in MarkerRecord /\ [NoMarker EXCEPT !.st = "RESERVATION_PLANNED"] \in MarkerRecord
  BY DEF NoMarker, MarkerRecord, MarkerStates
<1>2. CASE CreateMarker \/ AdvanceReserved \/ AdvanceComplete \/ AdvanceRestored
           \/ StageIntent \/ AdvanceCommitted \/ AdvanceBound
  <2>1. act \in Keys
    BY <1>2 DEF CreateMarker, AdvanceReserved, AdvanceComplete, AdvanceRestored, StageIntent,
                AdvanceCommitted, AdvanceBound
  <2>2. \/ \E st \in MarkerStates : marker' = [marker EXCEPT ![act].st = st]
        \/ marker' = [marker EXCEPT ![act].st = "CAPTURE_COMPLETE", ![act].done = TRUE]
    BY <1>2 DEF CreateMarker, AdvanceReserved, AdvanceComplete, AdvanceRestored, StageIntent,
                AdvanceCommitted, AdvanceBound, Set, MarkerStates
  <2>3. CASE \E st \in MarkerStates : marker' = [marker EXCEPT ![act].st = st]
    BY <2>1, <2>3 DEF MarkerRecord
  <2>4. ASSUME NEW st \in MarkerStates, NEW done \in BOOLEAN
        PROVE  [marker EXCEPT ![act].st = st, ![act].done = done] \in [Keys -> MarkerRecord]
    BY ZenonT(60), <2>1 DEF MarkerRecord
  <2>5. "CAPTURE_COMPLETE" \in MarkerStates
    BY DEF MarkerStates
  <2> QED
    BY <2>2, <2>3, <2>4, <2>5
<1>3. CASE WriteMarker \/ AbortRetire \/ Retire
  BY <1>1, <1>3 DEF WriteMarker, AbortRetire, Retire
<1>4. CASE RollbackBegin
  <2>1. RollbackPending(marker[act]) \in MarkerRecord
    BY <1>4 DEF RollbackBegin, RollbackPending, MarkerRecord, Pending, MarkerStates
  <2> QED
    BY <1>4, <2>1 DEF RollbackBegin
<1>5. CASE RollbackNext \/ RollbackCheck \/ ObservationUnavailable
  <2>1. act \in Keys
    BY <1>5 DEF RollbackNext, RollbackCheck, ObservationUnavailable
  <2>2. \/ marker' = marker
        \/ marker' = [marker EXCEPT ![act].n = marker[act].n + 1, ![act].last = "none"]
        \/ \E last \in {"planned", "failed"} : marker' = [marker EXCEPT ![act].last = last]
    BY <1>5 DEF RollbackNext, RollbackCheck, ObservationUnavailable
  <2>3. marker[act] \in MarkerRecord /\ marker[act].n + 1 \in Nat
    BY <2>1 DEF MarkerRecord
  <2>4. CASE marker' = [marker EXCEPT ![act].n = marker[act].n + 1, ![act].last = "none"]
    BY <2>1, <2>3, <2>4 DEF MarkerRecord
  <2>5. CASE \E last \in {"planned", "failed"} : marker' = [marker EXCEPT ![act].last = last]
    BY <2>1, <2>5 DEF MarkerRecord
  <2> QED
    BY <2>2, <2>4, <2>5
<1>6. CASE Verify \/ VerifyUnavailable
  <2>1. act \in Keys
    BY <1>6 DEF Verify, VerifyUnavailable
  <2>2. PICK v \in BOOLEAN : marker' = [marker EXCEPT ![act].verified = v]
    BY <1>6 DEF Verify, VerifyUnavailable
  <2> QED
    BY SMTT(30), <2>1, <2>2 DEF MarkerRecord
<1>7. CASE UNCHANGED marker
  BY <1>7
<1> QED
  BY <1>2, <1>3, <1>4, <1>5, <1>6, <1>7
  DEF Next, CaptureSteps, Failures, Execute, RefusedCall, Prune, Reserve, RecordOpen, RecordWrite,
      RecordPublish, Mutate, Tune, Dump, DumpEnds, RollbackCommand, AbortClear, AbortSource,
      Clear, StageCommit, FindExisting, PublishBinding, ReleaseSource, RecordFails, MutateFails,
      CaptureFails, RollbackCommandFails, StageFails, Crash

LEMMA DiskTypeStep ==
  ASSUME IInv, Next
  PROVE  DiskType'
<1> USE DEF IInv, TypeOK, DiskType, At, history, disk
<1>1. ASSUME NEW k \in Keys, Execute(k) \/ RefusedCall(k) \/ Prune(k)
      PROVE  DiskType'
  BY <1>1 DEF Execute, RefusedCall, RecoverTemporaries, Prune
<1>2. CASE WriteMarker \/ Reserve \/ Dump \/ DumpEnds \/ AbortSource \/ ReleaseSource
  BY <1>2 DEF WriteMarker, Reserve, Dump, DumpEnds, AbortSource, ReleaseSource
<1>3. CASE RecordOpen \/ RecordWrite \/ RecordPublish \/ RecordFails \/ AbortClear \/ Clear
  BY <1>3 DEF RecordOpen, RecordWrite, RecordPublish, RecordFails, AbortClear, Clear, Snapshot
<1>4. CASE StageIntent \/ StageCommit \/ StageFails \/ FindExisting \/ PublishBinding
  BY <1>4 DEF StageIntent, StageCommit, StageFails, FindExisting, PublishBinding
<1>5. CASE UNCHANGED <<journal, saved, source, staging, binding>>
  BY <1>5
<1> QED
  BY <1>1, <1>2, <1>3, <1>4, <1>5
  DEF Next, CaptureSteps, Failures, CreateMarker, AdvanceReserved, Mutate, Tune, AdvanceComplete,
      RollbackBegin, RollbackNext, RollbackCommand, RollbackCheck, Verify, AbortRetire,
      AdvanceRestored, AdvanceCommitted, AdvanceBound, Retire, MutateFails, CaptureFails,
      ObservationUnavailable, RollbackCommandFails, VerifyUnavailable, Crash

LEMMA CallTypeStep ==
  ASSUME IInv, Next
  PROVE  CallType'
<1> USE DEF IInv, TypeOK, CallType, At, Go, Return, Fault, history, disk
<1>1. \A k \in Keys : k # NoKey
  BY CaptureAssumption
<1>2. ASSUME NEW k \in Keys, Execute(k)
      PROVE  CallType'
  <2>1. pc' \in Pcs \ {"idle"}
    BY <1>2 DEF Execute, Admitted, ResumePoint, Pcs, MarkerRecord, MarkerStates, Resolved,
                ManualRecovery, UnreadableMarker, BytesOK
  <2>2. failed' \in BOOLEAN /\ live' \in BOOLEAN
    BY <1>2, Zenon DEF Execute
  <2>3. act' = k /\ step' = 1 /\ UNCHANGED <<overlapped, faults>>
    BY <1>2 DEF Execute
  <2> QED
    BY <1>1, <2>1, <2>2, <2>3
<1>3. ASSUME NEW k \in Keys, RefusedCall(k) \/ Prune(k)
      PROVE  CallType'
  <2>1. CASE Prune(k)
    BY <2>1, CaptureAssumption DEF Prune
  <2>2. CASE RefusedCall(k)
    BY <2>2 DEF RefusedCall
  <2> QED
    BY <1>3, <2>1, <2>2
<1>4. CASE CreateMarker \/ WriteMarker \/ Reserve \/ AdvanceReserved \/ RecordOpen
  BY <1>4 DEF CreateMarker, WriteMarker, Reserve, AdvanceReserved, RecordOpen, Pcs
<1>5. CASE RecordWrite \/ RecordPublish \/ Tune \/ Dump \/ DumpEnds \/ AdvanceComplete
  BY <1>5 DEF RecordWrite, RecordPublish, Tune, Dump, DumpEnds, AdvanceComplete, Pcs
<1>6. CASE Mutate
  <2>1. step \in 1..Len(Mutations(saved[act]))
    BY <1>6 DEF Mutate, PlaceOK
  <2>2. Len(Mutations(saved[act])) \in 4..5
    BY <2>1, MutationNames
  <2>3. \/ step' = 1 /\ pc' = "tune"
        \/ step # Len(Mutations(saved[act])) /\ step' = step + 1 /\ pc' = "mutate"
    BY <1>6 DEF Mutate
  <2>4. step' \in 1..5
    <3>1. ASSUME NEW n \in 4..5, step \in 1..n, step' = 1 \/ (step # n /\ step' = step + 1)
          PROVE  step' \in 1..5
      BY <3>1
    <3> QED
      BY <2>1, <2>2, <2>3, <3>1
  <2>5. pc' \in Pcs \ {"idle"}
    BY <2>3 DEF Pcs
  <2> QED
    BY <1>6, <2>4, <2>5 DEF Mutate
<1>7. CASE RollbackBegin \/ RollbackNext \/ RollbackCommand \/ RollbackCheck \/ Verify
  BY <1>7 DEF RollbackBegin, RollbackNext, RollbackCommand, RollbackCheck, Verify, Pcs
<1>8. CASE AbortClear \/ AbortSource \/ AbortRetire \/ AdvanceRestored \/ Clear \/ StageIntent
  BY <1>8 DEF AbortClear, AbortSource, AbortRetire, AdvanceRestored, Clear, StageIntent, Pcs
<1>9. CASE StageCommit \/ FindExisting \/ AdvanceCommitted \/ PublishBinding \/ AdvanceBound
  BY <1>9 DEF StageCommit, FindExisting, AdvanceCommitted, PublishBinding, AdvanceBound, Pcs
<1>10. CASE ReleaseSource \/ Retire
  BY <1>10 DEF ReleaseSource, Retire, Pcs
<1>11. CASE Failures
  <2>1. faults' \in 0..MaxFaults
    BY <1>11, CaptureAssumption
    DEF Failures, RecordFails, MutateFails, CaptureFails, ObservationUnavailable,
        RollbackCommandFails, VerifyUnavailable, StageFails, Crash
  <2>2. act' \in Keys \cup {NoKey} /\ pc' \in Pcs /\ (act' = NoKey <=> pc' = "idle")
    BY <1>11
    DEF Failures, RecordFails, MutateFails, CaptureFails, ObservationUnavailable,
        RollbackCommandFails, VerifyUnavailable, StageFails, Crash, Pcs
  <2>3. step' \in 1..5
    BY <1>11
    DEF Failures, RecordFails, MutateFails, CaptureFails, ObservationUnavailable,
        RollbackCommandFails, VerifyUnavailable, StageFails, Crash
  <2>4. failed' \in BOOLEAN /\ live' \in BOOLEAN /\ overlapped' \in BOOLEAN
    BY <1>11, Zenon
    DEF Failures, RecordFails, MutateFails, CaptureFails, ObservationUnavailable,
        RollbackCommandFails, VerifyUnavailable, StageFails, Crash
  <2> QED
    BY <2>1, <2>2, <2>3, <2>4
<1> QED
  BY <1>2, <1>3, <1>4, <1>5, <1>6, <1>7, <1>8, <1>9, <1>10, <1>11
  DEF Next, CaptureSteps

LEMMA TypeStep ==
  ASSUME IInv, Next
  PROVE  TypeOK'
<1>1. /\ nic' \in InterfaceState /\ home' \in Homes /\ marker' \in [Keys -> MarkerRecord]
      /\ DiskType' /\ CallType'
  BY InterfaceTypeStep, MarkerTypeStep, DiskTypeStep, CallTypeStep
<1> QED
  BY <1>1 DEF TypeOK, DiskType, CallType

-----------------------------------------------------------------------------
(* The requests *)

\* A call in progress touches the evidence of its own request only.
LEMMA Frame ==
  ASSUME IInv, CaptureSteps \/ Failures, NEW k \in Keys, k # act
  PROVE  /\ marker'[k] = marker[k] /\ journal'[k] = journal[k] /\ saved'[k] = saved[k]
         /\ source'[k] = source[k] /\ staging'[k] = staging[k] /\ binding'[k] = binding[k]
<1> USE DEF IInv, TypeOK, history, disk
<1>1. CASE CreateMarker \/ WriteMarker \/ Reserve \/ AdvanceReserved
  BY <1>1 DEF CreateMarker, WriteMarker, Reserve, AdvanceReserved, Set
<1>2. CASE RecordOpen \/ RecordWrite \/ RecordPublish \/ RecordFails
  BY <1>2 DEF RecordOpen, RecordWrite, RecordPublish, RecordFails
<1>3. CASE Mutate \/ MutateFails \/ Tune \/ CaptureFails \/ Crash
  BY <1>3 DEF Mutate, MutateFails, Tune, CaptureFails, Crash
<1>4. CASE Dump \/ DumpEnds \/ AdvanceComplete
  BY <1>4 DEF Dump, DumpEnds, AdvanceComplete
<1>5. CASE RollbackBegin \/ RollbackNext \/ ObservationUnavailable
  BY <1>5 DEF RollbackBegin, RollbackNext, ObservationUnavailable
<1>6. CASE RollbackCommand \/ RollbackCommandFails \/ RollbackCheck \/ Verify \/ VerifyUnavailable
  BY <1>6 DEF RollbackCommand, RollbackCommandFails, RollbackCheck, Verify, VerifyUnavailable
<1>7. CASE AbortClear \/ AbortSource \/ AbortRetire \/ AdvanceRestored \/ Clear
  BY <1>7 DEF AbortClear, AbortSource, AbortRetire, AdvanceRestored, Clear, Set
<1>8. CASE StageIntent \/ StageCommit \/ StageFails \/ FindExisting \/ AdvanceCommitted
  BY <1>8 DEF StageIntent, StageCommit, StageFails, FindExisting, AdvanceCommitted, Set
<1>9. CASE PublishBinding \/ AdvanceBound \/ ReleaseSource \/ Retire
  BY <1>9 DEF PublishBinding, AdvanceBound, ReleaseSource, Retire, Set
<1> QED
  BY <1>1, <1>2, <1>3, <1>4, <1>5, <1>6, <1>7, <1>8, <1>9 DEF CaptureSteps, Failures

\* What deciding on the next rollback step may do to the marker.
LEMMA RollbackNextMarker ==
  ASSUME IInv, RollbackNext
  PROVE  /\ act \in Keys /\ marker[act] \in MarkerRecord /\ StepCount(saved[act]) \in Nat
         /\ UNCHANGED <<journal, saved, source, staging, binding>>
         /\ \/ marker' = marker
            \/ /\ marker[act].n < StepCount(saved[act]) /\ marker[act].last # "failed"
               /\ \/ marker' = [marker EXCEPT ![act].n = marker[act].n + 1, ![act].last = "none"]
                  \/ marker' = [marker EXCEPT ![act].last = "planned"]
<1>1. act \in Keys /\ saved[act] \in InterfaceState /\ marker[act] \in MarkerRecord
  BY DEF IInv, TypeOK, RollbackNext, At
<1>2. StepCount(saved[act]) \in Nat /\ marker[act].n \in Nat
  BY <1>1, StepCountType DEF MarkerRecord
<1>3. \/ marker' = marker
      \/ /\ marker[act].n + 1 <= StepCount(saved[act]) /\ marker[act].last # "failed"
         /\ \/ marker' = [marker EXCEPT ![act].n = marker[act].n + 1, ![act].last = "none"]
            \/ marker' = [marker EXCEPT ![act].last = "planned"]
  BY DEF RollbackNext
<1>4. UNCHANGED <<journal, saved, source, staging, binding>>
  BY DEF RollbackNext
<1> QED
  BY <1>1, <1>2, <1>3, <1>4

\* What the marker of the request at work says stays true of its journal.
LEMMA MarkerStep ==
  ASSUME IInv, CaptureSteps \/ Failures, NEW k \in Keys, k = act
  PROVE  MarkerOK(k)'
<1> USE DEF IInv, TypeOK, At, Go, Return, Fault, history, disk, Pending
<1>1. CASE CreateMarker
  BY <1>1 DEF CreateMarker, Set, MarkerOK, PlaceOK, MarkerAt, JournalAt, MarkerRecord, Early, Late
<1>2. CASE WriteMarker
  BY <1>2 DEF WriteMarker, NoMarker, MarkerOK, PlaceOK, MarkerAt, JournalAt, MarkerRecord, Early,
         Late
<1>3. CASE Reserve
  BY <1>3 DEF Reserve, MarkerOK, PlaceOK, MarkerAt, JournalAt, MarkerRecord, Early, Late
<1>4. CASE AdvanceReserved
  BY <1>4 DEF AdvanceReserved, Set, MarkerOK, PlaceOK, MarkerAt, JournalAt, MarkerRecord, Early,
         Late
<1>5. CASE RecordOpen \/ RecordWrite \/ RecordPublish
  BY <1>5 DEF RecordOpen, RecordWrite, RecordPublish, MarkerOK, PlaceOK, MarkerAt, JournalAt,
         MarkerRecord, Early, Late
<1>6. CASE RecordFails
  BY <1>6 DEF RecordFails, MarkerOK, PlaceOK, MarkerAt, JournalAt, MarkerRecord, Early, Late
<1>7. CASE Mutate \/ MutateFails \/ Tune \/ CaptureFails \/ Crash
  BY <1>7 DEF Mutate, MutateFails, Tune, CaptureFails, Crash, MarkerOK, PlaceOK, MarkerAt,
         JournalAt, MarkerRecord, Early, Late
<1>8. CASE Dump \/ DumpEnds
  BY <1>8 DEF Dump, DumpEnds, MarkerOK, PlaceOK, MarkerAt, JournalAt, MarkerRecord, Early, Late
<1>9. CASE AdvanceComplete
  BY <1>9 DEF AdvanceComplete, Set, MarkerOK, PlaceOK, MarkerAt, JournalAt, MarkerRecord, Early,
         Late
<1>10. CASE RollbackBegin
  BY <1>10 DEF RollbackBegin, RollbackPending, MarkerOK, PlaceOK, MarkerAt, JournalAt,
         MarkerRecord, Early, Late
<1>11. CASE RollbackNext
  <2>1. CASE marker' = marker
    BY <1>11, <2>1, RollbackNextMarker DEF MarkerOK
  <2>2. CASE marker' # marker
    <3>1. /\ ~marker[k].verified /\ UNCHANGED <<journal, saved>>
          /\ marker[k].st = Pending /\ journal[k] = "valid"
      BY <1>11, <2>2, RollbackNextMarker
      DEF RollbackNext, MarkerOK, MarkerRecord, PlaceOK, MarkerAt, JournalAt
    <3>2. /\ ~marker'[k].verified /\ marker'[k].st = Pending
      BY <1>11, <2>2, <3>1, RollbackNextMarker DEF MarkerRecord
    <3> QED
      BY <3>1, <3>2 DEF MarkerOK, Early, Late
  <2> QED
    BY <2>1, <2>2
<1>12. CASE ObservationUnavailable
  BY <1>12 DEF ObservationUnavailable, MarkerOK, PlaceOK, MarkerAt, JournalAt, MarkerRecord,
         Early, Late
<1>13. CASE RollbackCommand \/ RollbackCommandFails
  BY <1>13 DEF RollbackCommand, RollbackCommandFails, MarkerOK, PlaceOK, MarkerAt, JournalAt,
         MarkerRecord, Early, Late
<1>14. CASE RollbackCheck
  BY <1>14 DEF RollbackCheck, MarkerOK, PlaceOK, MarkerAt, JournalAt, MarkerRecord, Early, Late
<1>15. CASE Verify \/ VerifyUnavailable
  BY <1>15 DEF Verify, VerifyUnavailable, MarkerOK, PlaceOK, MarkerAt, JournalAt, MarkerRecord,
         Early, Late
<1>16. CASE AbortClear \/ AbortSource
  BY <1>16 DEF AbortClear, AbortSource, MarkerOK, PlaceOK, MarkerAt, JournalAt, MarkerRecord,
         Early, Late
<1>17. CASE AbortRetire \/ Retire
  BY <1>17 DEF AbortRetire, Retire, NoMarker, MarkerOK, PlaceOK, MarkerAt, JournalAt,
         MarkerRecord, Early, Late
<1>18. CASE AdvanceRestored
  BY <1>18 DEF AdvanceRestored, Set, MarkerOK, PlaceOK, MarkerAt, JournalAt, MarkerRecord, Early,
         Late
<1>19. CASE Clear
  BY <1>19 DEF Clear, MarkerOK, PlaceOK, MarkerAt, JournalAt, MarkerRecord, Early, Late
<1>20. CASE StageIntent
  BY <1>20 DEF StageIntent, Set, MarkerOK, PlaceOK, MarkerAt, JournalAt, MarkerRecord, Early, Late
<1>21. CASE StageCommit \/ StageFails \/ FindExisting
  BY <1>21 DEF StageCommit, StageFails, FindExisting, MarkerOK, PlaceOK, MarkerAt, JournalAt,
         MarkerRecord, Early, Late
<1>22. CASE AdvanceCommitted
  BY <1>22 DEF AdvanceCommitted, Set, MarkerOK, PlaceOK, MarkerAt, JournalAt, MarkerRecord, Early,
         Late
<1>23. CASE AdvanceBound
  BY <1>23 DEF AdvanceBound, Set, MarkerOK, PlaceOK, MarkerAt, JournalAt, MarkerRecord, Early,
         Late
<1>24. CASE PublishBinding \/ ReleaseSource
  BY <1>24 DEF PublishBinding, ReleaseSource, MarkerOK, PlaceOK, MarkerAt, JournalAt,
         MarkerRecord, Early, Late
<1> QED
  BY <1>1, <1>2, <1>3, <1>4, <1>5, <1>6, <1>7, <1>8, <1>9, <1>10, <1>11, <1>12, <1>13, <1>14,
     <1>15, <1>16, <1>17, <1>18, <1>19, <1>20, <1>21, <1>22, <1>23, <1>24
  DEF CaptureSteps, Failures

\* The bytes and the binding of the request at work.
LEMMA BytesStep ==
  ASSUME IInv, CaptureSteps \/ Failures, NEW k \in Keys, k = act
  PROVE  BytesOK(k)'
<1> USE DEF IInv, TypeOK, At, Go, Return, Fault, history, disk, Pending
<1>1. CASE CreateMarker
  BY <1>1 DEF CreateMarker, Set, MarkerOK, BytesOK, PlaceOK, MarkerAt, JournalAt, MarkerRecord,
         Early, Late, Committed
<1>2. CASE WriteMarker
  BY <1>2 DEF WriteMarker, NoMarker, MarkerOK, BytesOK, PlaceOK, MarkerAt, JournalAt,
         MarkerRecord, Early, Late, Committed
<1>3. CASE Reserve
  BY <1>3 DEF Reserve, MarkerOK, BytesOK, PlaceOK, MarkerAt, JournalAt, MarkerRecord, Early, Late,
         Committed
<1>4. CASE AdvanceReserved
  BY <1>4 DEF AdvanceReserved, Set, MarkerOK, BytesOK, PlaceOK, MarkerAt, JournalAt, MarkerRecord,
         Early, Late, Committed
<1>5. CASE RecordOpen \/ RecordWrite \/ RecordPublish
  BY <1>5 DEF RecordOpen, RecordWrite, RecordPublish, MarkerOK, BytesOK, PlaceOK, MarkerAt,
         JournalAt, MarkerRecord, Early, Late, Committed
<1>6. CASE RecordFails
  BY <1>6 DEF RecordFails, MarkerOK, BytesOK, PlaceOK, MarkerAt, JournalAt, MarkerRecord, Early,
         Late, Committed
<1>7. CASE Mutate \/ MutateFails \/ Tune \/ CaptureFails \/ Crash
  BY <1>7 DEF Mutate, MutateFails, Tune, CaptureFails, Crash, MarkerOK, BytesOK, PlaceOK,
         MarkerAt, JournalAt, MarkerRecord, Early, Late, Committed
<1>8. CASE Dump \/ DumpEnds
  BY <1>8 DEF Dump, DumpEnds, MarkerOK, BytesOK, PlaceOK, MarkerAt, JournalAt, MarkerRecord,
         Early, Late, Committed
<1>9. CASE AdvanceComplete
  BY <1>9 DEF AdvanceComplete, Set, MarkerOK, BytesOK, PlaceOK, MarkerAt, JournalAt, MarkerRecord,
         Early, Late, Committed
<1>10. CASE RollbackBegin
  BY <1>10 DEF RollbackBegin, RollbackPending, MarkerOK, BytesOK, PlaceOK, MarkerAt, JournalAt,
         MarkerRecord, Early, Late, Committed
<1>11. CASE RollbackNext
  BY SMTT(30), <1>11, RollbackNextMarker DEF BytesOK, MarkerRecord
<1>12. CASE ObservationUnavailable
  BY <1>12 DEF ObservationUnavailable, MarkerOK, BytesOK, PlaceOK, MarkerAt, JournalAt,
         MarkerRecord, Early, Late, Committed
<1>13. CASE RollbackCommand \/ RollbackCommandFails
  BY <1>13 DEF RollbackCommand, RollbackCommandFails, MarkerOK, BytesOK, PlaceOK, MarkerAt,
         JournalAt, MarkerRecord, Early, Late, Committed
<1>14. CASE RollbackCheck
  BY <1>14 DEF RollbackCheck, MarkerOK, BytesOK, PlaceOK, MarkerAt, JournalAt, MarkerRecord,
         Early, Late, Committed
<1>15. CASE Verify \/ VerifyUnavailable
  <2>1. marker'[k].st = marker[k].st /\ marker'[k].done = marker[k].done
    BY <1>15 DEF Verify, VerifyUnavailable, MarkerRecord
  <2> QED
    BY <1>15, <2>1 DEF Verify, VerifyUnavailable, BytesOK
<1>16. CASE AbortClear \/ AbortSource
  BY <1>16 DEF AbortClear, AbortSource, MarkerOK, BytesOK, PlaceOK, MarkerAt, JournalAt,
         MarkerRecord, Early, Late, Committed
<1>17. CASE AbortRetire \/ Retire
  BY <1>17 DEF AbortRetire, Retire, NoMarker, MarkerOK, BytesOK, PlaceOK, MarkerAt, JournalAt,
         MarkerRecord, Early, Late, Committed
<1>18. CASE AdvanceRestored
  BY <1>18 DEF AdvanceRestored, Set, MarkerOK, BytesOK, PlaceOK, MarkerAt, JournalAt,
         MarkerRecord, Early, Late, Committed
<1>19. CASE Clear
  BY <1>19 DEF Clear, MarkerOK, BytesOK, PlaceOK, MarkerAt, JournalAt, MarkerRecord, Early, Late,
         Committed
<1>20. CASE StageIntent
  BY <1>20 DEF StageIntent, Set, MarkerOK, BytesOK, PlaceOK, MarkerAt, JournalAt, MarkerRecord,
         Early, Late, Committed
<1>21. CASE StageCommit \/ StageFails \/ FindExisting
  BY <1>21 DEF StageCommit, StageFails, FindExisting, MarkerOK, BytesOK, PlaceOK, MarkerAt,
         JournalAt, MarkerRecord, Early, Late, Committed
<1>22. CASE AdvanceCommitted
  BY <1>22 DEF AdvanceCommitted, Set, MarkerOK, BytesOK, PlaceOK, MarkerAt, JournalAt,
         MarkerRecord, Early, Late, Committed
<1>23. CASE AdvanceBound
  BY <1>23 DEF AdvanceBound, Set, MarkerOK, BytesOK, PlaceOK, MarkerAt, JournalAt, MarkerRecord,
         Early, Late, Committed
<1>24. CASE PublishBinding \/ ReleaseSource
  BY <1>24 DEF PublishBinding, ReleaseSource, MarkerOK, BytesOK, PlaceOK, MarkerAt, JournalAt,
         MarkerRecord, Early, Late, Committed
<1> QED
  BY <1>1, <1>2, <1>3, <1>4, <1>5, <1>6, <1>7, <1>8, <1>9, <1>10, <1>11, <1>12, <1>13, <1>14,
     <1>15, <1>16, <1>17, <1>18, <1>19, <1>20, <1>21, <1>22, <1>23, <1>24
  DEF CaptureSteps, Failures

LEMMA RequestsStep ==
  ASSUME IInv, Next, NEW k \in Keys
  PROVE  MarkerOK(k)' /\ BytesOK(k)'
<1> USE DEF IInv, TypeOK
<1>1. ASSUME NEW l \in Keys, Execute(l) \/ RefusedCall(l)
      PROVE  MarkerOK(k)' /\ BytesOK(k)'
  <2>1. /\ journal'[k] = journal[k] \/ (journal[k] = "temp" /\ journal'[k] = "valid")
        /\ UNCHANGED <<marker, saved, source, staging, binding>>
    BY <1>1 DEF Execute, RefusedCall, RecoverTemporaries
  <2> QED
    BY <2>1 DEF MarkerOK, BytesOK, Early, Late, Pending, MarkerRecord, MarkerStates
<1>2. ASSUME NEW l \in Keys, Prune(l)
      PROVE  MarkerOK(k)' /\ BytesOK(k)'
  <2>1. /\ staging'[k] = staging[k] \/ (staging[k] = "queued" /\ staging'[k] = "pruned")
        /\ UNCHANGED <<marker, journal, saved, source, binding>>
    BY <1>2 DEF Prune
  <2> QED
    BY <2>1 DEF MarkerOK, BytesOK, Committed
<1>3. CASE CaptureSteps \/ Failures
  <2>1. CASE k = act
    BY <1>3, <2>1, MarkerStep, BytesStep
  <2>2. CASE k # act
    BY <1>3, <2>2, Frame DEF MarkerOK, BytesOK
  <2> QED
    BY <2>1, <2>2
<1> QED
  BY <1>1, <1>2, <1>3 DEF Next

\* The call finds at its next place what that place needs.
LEMMA PlaceStep ==
  ASSUME IInv, CaptureSteps \/ Failures
  PROVE  PlaceOK'
<1> USE DEF IInv, TypeOK, At, Go, Return, Fault, history, disk, Pending
<1>0. act # NoKey => act \in Keys /\ MarkerOK(act) /\ BytesOK(act)
  OBVIOUS
<1>1. CASE CreateMarker
  BY <1>1, <1>0 DEF CreateMarker, Set, PlaceOK, MarkerAt, JournalAt, MarkerRecord
<1>2. CASE WriteMarker
  BY <1>2, <1>0 DEF WriteMarker, NoMarker, PlaceOK, MarkerAt, JournalAt, MarkerRecord
<1>3. CASE Reserve
  BY <1>3, <1>0 DEF Reserve, PlaceOK, MarkerAt, JournalAt, MarkerRecord
<1>4. CASE AdvanceReserved
  BY <1>4, <1>0 DEF AdvanceReserved, Set, PlaceOK, MarkerAt, JournalAt, MarkerRecord
<1>5. CASE RecordOpen
  BY <1>5, <1>0 DEF RecordOpen, PlaceOK, MarkerAt, JournalAt, MarkerRecord
<1>6. CASE RecordWrite
  BY <1>6, <1>0 DEF RecordWrite, PlaceOK, MarkerAt, JournalAt, MarkerRecord
<1>7. CASE RecordPublish
  <2>1. Len(Mutations(saved[act])) \in 4..5
    BY MutationNames
  <2>2. step <= Len(Mutations(saved[act]))
    <3>1. \A n \in 4..5 : 1 <= n
      OBVIOUS
    <3>2. step = 1
      BY <1>7 DEF RecordPublish, PlaceOK
    <3> QED
      BY <2>1, <3>1, <3>2, Zenon
  <2> QED
    BY <1>7, <1>0, <2>2 DEF RecordPublish, PlaceOK, MarkerAt, JournalAt, MarkerRecord
<1>8. CASE RecordFails
  BY <1>8, <1>0 DEF RecordFails, PlaceOK, MarkerAt, JournalAt, MarkerRecord
<1>9. CASE Mutate
  BY <1>9, <1>0 DEF Mutate, PlaceOK, MarkerAt, JournalAt, MarkerRecord
<1>10. CASE MutateFails
  BY <1>10, <1>0 DEF MutateFails, PlaceOK, MarkerAt, JournalAt, MarkerRecord
<1>11. CASE Tune \/ CaptureFails
  BY <1>11, <1>0 DEF Tune, CaptureFails, PlaceOK, MarkerAt, JournalAt, MarkerRecord
<1>12. CASE Crash
  BY <1>12, <1>0 DEF Crash, PlaceOK, MarkerAt, JournalAt, MarkerRecord
<1>13. CASE Dump \/ DumpEnds
  BY <1>13, <1>0 DEF Dump, DumpEnds, PlaceOK, MarkerAt, JournalAt, MarkerRecord
<1>14. CASE AdvanceComplete
  BY <1>14, <1>0 DEF AdvanceComplete, Set, PlaceOK, MarkerAt, JournalAt, MarkerRecord
<1>15. CASE RollbackBegin
  BY <1>15, <1>0 DEF RollbackBegin, RollbackPending, PlaceOK, MarkerAt, JournalAt, MarkerRecord
<1>16. CASE RollbackNext
  <2> DEFINE m == marker[act]
             o == saved[act]
  <2>1. /\ act \in Keys /\ m \in MarkerRecord /\ live /\ m.st = Pending /\ ~binding[act]
        /\ journal[act] = "valid"
    BY <1>16 DEF RollbackNext, PlaceOK, MarkerAt, JournalAt
  <2>2. StepCount(o) \in Nat /\ Len(Generic) \in Nat /\ StepCount(o) >= Len(Generic) /\ m.n \in Nat
    BY <2>1, StepCountType DEF MarkerRecord, Generic
  <2>3. /\ UNCHANGED <<journal, saved, source, staging, binding, live, step>>
        /\ marker'[act].st = m.st
    BY <1>16, <2>1 DEF RollbackNext, MarkerRecord
  <2>4. \/ act' = NoKey
        \/ /\ act' = act /\ pc' = "verify" /\ UNCHANGED marker
           /\ m.n = StepCount(o) /\ m.last # "failed"
        \/ act' = act /\ pc' = "next"
        \/ /\ act' = act /\ pc' = "command" /\ m.n + 1 <= StepCount(o)
           /\ marker'[act].n = m.n /\ marker'[act].last # "failed"
    BY <1>16, <2>1, <2>2 DEF RollbackNext, MarkerRecord
  <2> QED
    BY <2>1, <2>2, <2>3, <2>4 DEF PlaceOK, MarkerAt, JournalAt
<1>17. CASE ObservationUnavailable
  BY <1>17, <1>0 DEF ObservationUnavailable, PlaceOK, MarkerAt, JournalAt, MarkerRecord
<1>18. CASE RollbackCommand \/ RollbackCommandFails
  BY <1>18, <1>0 DEF RollbackCommand, RollbackCommandFails, PlaceOK, MarkerAt, JournalAt,
         MarkerRecord
<1>19. CASE RollbackCheck
  BY <1>19, <1>0 DEF RollbackCheck, PlaceOK, MarkerAt, JournalAt, MarkerRecord
<1>20. CASE Verify
  <2>1. /\ act \in Keys /\ marker[act] \in MarkerRecord /\ live /\ marker[act].st = Pending
        /\ ~binding[act] /\ journal[act] = "valid"
    BY <1>20 DEF Verify, PlaceOK, MarkerAt, JournalAt
  <2>2. /\ UNCHANGED <<journal, saved, source, staging, binding, live, step>>
        /\ marker'[act].st = Pending /\ marker'[act].done = marker[act].done
    BY <1>20, <2>1 DEF Verify, MarkerRecord
  <2>3. \/ act' = NoKey
        \/ act' = act /\ pc' = "restored" /\ marker[act].done /\ marker'[act].verified
        \/ act' = act /\ pc' = "abort_clear" /\ ~marker[act].done /\ marker'[act].verified
    BY <1>20, <2>1 DEF Verify, MarkerRecord
  <2> QED
    BY <2>1, <2>2, <2>3 DEF PlaceOK, MarkerAt, JournalAt
<1>21. CASE VerifyUnavailable
  BY <1>21, <1>0 DEF VerifyUnavailable, PlaceOK, MarkerAt, JournalAt, MarkerRecord
<1>22. CASE AbortClear \/ AbortSource
  BY <1>22, <1>0 DEF AbortClear, AbortSource, PlaceOK, MarkerAt, JournalAt, MarkerRecord
<1>23. CASE AbortRetire \/ Retire
  BY <1>23, <1>0 DEF AbortRetire, Retire, PlaceOK, MarkerAt, JournalAt, MarkerRecord
<1>24. CASE AdvanceRestored
  BY <1>24, <1>0 DEF AdvanceRestored, Set, PlaceOK, MarkerAt, JournalAt, MarkerRecord
<1>25. CASE Clear
  BY <1>25, <1>0 DEF Clear, PlaceOK, MarkerAt, JournalAt, MarkerRecord
<1>26. CASE StageIntent
  BY <1>26, <1>0 DEF StageIntent, Set, PlaceOK, MarkerAt, JournalAt, MarkerRecord
<1>27. CASE StageCommit
  BY <1>27, <1>0 DEF StageCommit, Committed, PlaceOK, MarkerAt, JournalAt, MarkerRecord
<1>28. CASE StageFails
  BY <1>28, <1>0 DEF StageFails, PlaceOK, MarkerAt, JournalAt, MarkerRecord
<1>29. CASE FindExisting
  BY <1>29, <1>0 DEF FindExisting, Committed, PlaceOK, MarkerAt, JournalAt, MarkerRecord
<1>30. CASE AdvanceCommitted
  BY <1>30, <1>0 DEF AdvanceCommitted, Set, PlaceOK, MarkerAt, JournalAt, MarkerRecord
<1>31. CASE AdvanceBound
  BY <1>31, <1>0 DEF AdvanceBound, Set, PlaceOK, MarkerAt, JournalAt, MarkerRecord
<1>32. CASE PublishBinding \/ ReleaseSource
  BY <1>32, <1>0 DEF PublishBinding, ReleaseSource, PlaceOK, MarkerAt, JournalAt, MarkerRecord
<1> QED
  BY <1>1, <1>2, <1>3, <1>4, <1>5, <1>6, <1>7, <1>8, <1>9, <1>10, <1>11, <1>12, <1>13, <1>14,
     <1>15, <1>16, <1>17, <1>18, <1>19, <1>20, <1>21, <1>22, <1>23, <1>24, <1>25, <1>26, <1>27,
     <1>28, <1>29, <1>30, <1>31, <1>32
  DEF CaptureSteps, Failures


\* execute() takes a request up at the place that fits what is on disk.
LEMMA ResumeStep ==
  ASSUME IInv, NEW k \in Keys, Execute(k)
  PROVE  PlaceOK'
<1> USE DEF IInv, TypeOK, Pending
<1>1. k # NoKey
  BY CaptureAssumption
<1>2. /\ act' = k /\ live' /\ step' = 1 /\ pc' = ResumePoint(k, journal'[k])
      /\ journal'[k] = IF ~live /\ journal[k] = "temp" THEN "valid" ELSE journal[k]
      /\ UNCHANGED <<marker, saved, source, staging, binding>>
  BY <1>1 DEF Execute, RecoverTemporaries
<1>3. ~binding[k] /\ ~ManualRecovery(k)
  BY DEF Execute, Resolved, Admitted
<1>4. journal'[k] \in {"none", "valid"}
  BY <1>2, <1>3 DEF TemporaryOK, ManualRecovery, UnreadableJournal, Execute
<1>5. MarkerOK(k) /\ BytesOK(k) /\ marker[k] \in MarkerRecord /\ MarkerOK(k)' /\ BytesOK(k)'
  BY RequestsStep DEF Next
<1>6. marker[k].st \in MarkerStates \ {"empty", "BINDING_PUBLISHED"}
  BY <1>3, <1>5 DEF BytesOK, MarkerRecord, ManualRecovery, UnreadableMarker
<1>7. \/ marker[k].st = "none" /\ pc' = "create"
      \/ marker[k].st = "RESERVATION_PLANNED" /\ pc' = "reserve"
      \/ marker[k].st = "RESERVED" /\ journal'[k] = "none" /\ pc' = "open"
      \/ marker[k].st = "RESERVED" /\ journal'[k] = "valid" /\ pc' = "rollback"
      \/ marker[k].st = "CAPTURE_COMPLETE" /\ pc' = "rollback"
      \/ marker[k].st = Pending /\ ~marker[k].done /\ marker[k].verified /\ pc' = "abort_clear"
      \/ marker[k].st = Pending /\ ~(~marker[k].done /\ marker[k].verified) /\ pc' = "rollback"
      \/ marker[k].st = "INTERFACE_RESTORED" /\ journal'[k] = "none" /\ pc' = "stage"
      \/ marker[k].st = "INTERFACE_RESTORED" /\ pc' = "clear"
      \/ marker[k].st = "STAGING_INTENT_DURABLE" /\ pc' = "find"
      \/ marker[k].st = "LOCAL_ARTIFACT_COMMITTED" /\ pc' = "bind"
  BY <1>2, <1>4, <1>6 DEF ResumePoint, MarkerStates
<1>8. /\ marker[k].st \in MarkerAt(pc') /\ journal'[k] \in JournalAt(pc')
      /\ pc' = "abort_clear" => marker[k].verified /\ ~marker[k].done
      /\ pc' \in {"create", "reserve", "open", "rollback", "abort_clear", "stage", "clear", "find", "bind"}
  BY <1>2, <1>3, <1>4, <1>5, <1>7
  DEF MarkerAt, JournalAt, MarkerOK, BytesOK, ManualRecovery, UnreadableMarker, StagingGivenUp,
      Early, Late, Committed
<1>9. /\ pc' = "find" => staging[k] # "none"
      /\ pc' = "bind" => staging[k] \in Committed
  BY <1>3, <1>5, <1>7 DEF MarkerOK, BytesOK, ManualRecovery, StagingGivenUp, Early, Late, Committed
<1> QED
  BY <1>1, <1>2, <1>3, <1>8, <1>9 DEF PlaceOK

LEMMA PlaceNext ==
  ASSUME IInv, Next
  PROVE  PlaceOK'
<1>1. ASSUME NEW k \in Keys, Prune(k)
      PROVE  PlaceOK'
  BY <1>1 DEF Prune, IInv, TypeOK, PlaceOK, Committed
<1>2. ASSUME NEW k \in Keys, RefusedCall(k)
      PROVE  PlaceOK'
  BY <1>2 DEF RefusedCall, PlaceOK
<1> QED
  BY <1>1, <1>2, ResumeStep, PlaceStep DEF Next

-----------------------------------------------------------------------------
(* The snapshot *)

LEMMA TemporaryStep ==
  ASSUME IInv, Next
  PROVE  TemporaryOK'
<1> USE DEF IInv, TypeOK, At, Go, Return, Fault, history, disk
<1> SUFFICES ASSUME NEW k \in Keys, journal'[k] = "temp"
             PROVE  (act' = k /\ pc' = "publish") \/ ~live'
  BY DEF TemporaryOK
<1>1. ASSUME NEW l \in Keys, Execute(l) \/ RefusedCall(l)
      PROVE  FALSE
  BY <1>1 DEF Execute, RefusedCall, RecoverTemporaries, TemporaryOK
<1>2. ASSUME NEW l \in Keys, Prune(l)
      PROVE  (act' = k /\ pc' = "publish") \/ ~live'
  BY <1>2 DEF Prune, TemporaryOK
<1>3. CASE RecordOpen \/ RecordWrite \/ RecordPublish \/ RecordFails \/ AbortClear \/ Clear
  BY <1>3 DEF RecordOpen, RecordWrite, RecordPublish, RecordFails, AbortClear, Clear, TemporaryOK
<1>4. CASE Crash
  BY <1>4 DEF Crash
<1>5. CASE /\ CaptureSteps \/ Failures
           /\ ~(RecordOpen \/ RecordWrite \/ RecordPublish \/ RecordFails \/ AbortClear \/ Clear
                \/ Crash)
  <2>1. UNCHANGED <<journal, live>> /\ pc # "publish"
    BY <1>5
    DEF CaptureSteps, Failures, CreateMarker, WriteMarker, Reserve, AdvanceReserved, Mutate, Tune,
        Dump, DumpEnds, AdvanceComplete, RollbackBegin, RollbackNext, RollbackCommand,
        RollbackCheck, Verify, AbortSource, AbortRetire, AdvanceRestored, StageIntent,
        StageCommit, FindExisting, AdvanceCommitted, PublishBinding, AdvanceBound, ReleaseSource,
        Retire, MutateFails, CaptureFails, ObservationUnavailable, RollbackCommandFails,
        VerifyUnavailable, StageFails
  <2> QED
    BY <2>1 DEF TemporaryOK
<1> QED
  BY <1>1, <1>2, <1>3, <1>4, <1>5 DEF Next

\* The steps that touch the interface do so under a published journal whose
\* marker has no verified rollback.
LEMMA InterfaceSteps ==
  ASSUME IInv, Next, nic' # nic
  PROVE  /\ act \in Keys /\ journal[act] = "valid" /\ ~marker[act].verified
         /\ UNCHANGED <<home, marker, journal, saved, overlapped>>
<1> USE DEF IInv, TypeOK, At, history, disk
<1>1. CASE Mutate \/ MutateFails
  BY <1>1 DEF Mutate, MutateFails, PlaceOK, MarkerAt, JournalAt, MarkerOK, Early
<1>2. CASE RollbackCommand \/ RollbackCommandFails
  <2>1. /\ act \in Keys /\ marker[act] \in MarkerRecord /\ saved[act] \in InterfaceState
        /\ marker[act].n < StepCount(saved[act]) /\ journal[act] = "valid" /\ MarkerOK(act)
    BY <1>2 DEF RollbackCommand, RollbackCommandFails, PlaceOK, JournalAt
  <2>2. StepCount(saved[act]) \in Nat /\ marker[act].n \in Nat
    BY <2>1, StepCountType DEF MarkerRecord
  <2>3. ~marker[act].verified
    BY <2>1, <2>2 DEF MarkerOK
  <2> QED
    BY <1>2, <2>1, <2>3 DEF RollbackCommand, RollbackCommandFails
<1>3. CASE ~(Mutate \/ MutateFails \/ RollbackCommand \/ RollbackCommandFails)
  BY <1>3
  DEF Next, CaptureSteps, Failures, Execute, RefusedCall, Prune, CreateMarker, WriteMarker, Reserve,
      AdvanceReserved, RecordOpen, RecordWrite, RecordPublish, Tune, Dump, DumpEnds,
      AdvanceComplete, RollbackBegin, RollbackNext, RollbackCheck, Verify, AbortClear,
      AbortSource, AbortRetire, AdvanceRestored, Clear, StageIntent, StageCommit, FindExisting,
      AdvanceCommitted, PublishBinding, AdvanceBound, ReleaseSource, Retire, RecordFails,
      CaptureFails, ObservationUnavailable, VerifyUnavailable, StageFails, Crash
<1> QED
  BY <1>1, <1>2, <1>3

\* A journal is given up by a call that has verified the interface, or before
\* its snapshot was published.
LEMMA JournalSteps ==
  ASSUME IInv, Next, NEW k \in Keys, nic' = nic
  PROVE  \/ journal'[k] = journal[k] /\ saved'[k] = saved[k]
         \/ saved'[k] = saved[k] /\ journal[k] = "temp" /\ journal'[k] = "valid"
         \/ /\ act = k /\ pc = "temp" /\ journal[k] = "torn" /\ journal'[k] = "temp"
            /\ saved'[k] = nic
            /\ overlapped' \/ (~overlapped /\ \A l \in Keys \ {k} : journal[l] # "valid")
         \/ saved'[k] = saved[k] /\ journal'[k] \in {"none", "torn"} /\ journal[k] # "valid"
         \/ /\ saved'[k] = saved[k] /\ journal'[k] = "none" /\ journal[k] = "valid"
            /\ marker[k].verified
<1> USE DEF IInv, TypeOK, At, history, disk
<1>2. ASSUME NEW l \in Keys, Execute(l) \/ RefusedCall(l) \/ Prune(l)
      PROVE  saved'[k] = saved[k] /\ (journal'[k] = journal[k]
                                      \/ (journal[k] = "temp" /\ journal'[k] = "valid"))
  BY <1>2 DEF Execute, RefusedCall, Prune, RecoverTemporaries
<1>3. CASE k # act /\ (CaptureSteps \/ Failures)
  BY <1>3, Frame
<1>4. CASE k = act /\ (RecordOpen \/ RecordPublish \/ RecordFails)
  BY <1>4 DEF RecordOpen, RecordPublish, RecordFails, PlaceOK, JournalAt
<1>5. CASE k = act /\ RecordWrite
  BY <1>5 DEF RecordWrite, PlaceOK, JournalAt, Snapshot
<1>6. CASE k = act /\ (AbortClear \/ Clear)
  BY <1>6 DEF AbortClear, Clear, PlaceOK, JournalAt, MarkerAt, MarkerOK
<1>7. CASE UNCHANGED <<journal, saved>>
  BY <1>7
<1> QED
  BY <1>2, <1>3, <1>4, <1>5, <1>6, <1>7
  DEF Next, CaptureSteps, Failures, CreateMarker, WriteMarker, Reserve, AdvanceReserved, Mutate,
      Tune, Dump, DumpEnds, AdvanceComplete, RollbackBegin, RollbackNext, RollbackCommand,
      RollbackCheck, Verify, AbortSource, AbortRetire, AdvanceRestored, StageIntent, StageCommit,
      FindExisting, AdvanceCommitted, PublishBinding, AdvanceBound, ReleaseSource, Retire,
      MutateFails, CaptureFails, ObservationUnavailable, RollbackCommandFails, VerifyUnavailable,
      StageFails, Crash

\* A rollback is verified against the snapshot, with nothing else changed.
LEMMA VerifiedSteps ==
  ASSUME IInv, Next, NEW k \in Keys, marker'[k].verified
  PROVE  marker[k].verified \/ (nic = saved[k] /\ journal[k] = "valid" /\ UNCHANGED nic)
<1> USE DEF IInv, TypeOK, At, history, disk
<1>1. CASE k # act \/ \E l \in Keys : Execute(l) \/ RefusedCall(l) \/ Prune(l)
  BY <1>1, Frame DEF Next, Execute, RefusedCall, Prune
<1>2. CASE k = act /\ Verify
  BY <1>2 DEF Verify, Snapshot, PlaceOK, JournalAt, MarkerRecord
<1>3. CASE k = act /\ (WriteMarker \/ AbortRetire \/ Retire \/ RollbackBegin)
  BY <1>3 DEF WriteMarker, AbortRetire, Retire, RollbackBegin, NoMarker, RollbackPending
<1>4. CASE k = act /\ (CreateMarker \/ AdvanceReserved \/ AdvanceComplete \/ AdvanceRestored
                       \/ StageIntent \/ AdvanceCommitted \/ AdvanceBound)
  BY <1>4 DEF CreateMarker, AdvanceReserved, AdvanceComplete, AdvanceRestored, StageIntent,
              AdvanceCommitted, AdvanceBound, Set, MarkerRecord
<1>5. CASE k = act /\ (RollbackCheck \/ ObservationUnavailable \/ VerifyUnavailable)
  <2>1. CASE RollbackCheck
    BY <1>5, <2>1 DEF RollbackCheck, MarkerRecord
  <2>2. CASE ObservationUnavailable
    BY <1>5, <2>2 DEF ObservationUnavailable, MarkerRecord
  <2>3. CASE VerifyUnavailable
    BY <1>5, <2>3 DEF VerifyUnavailable, MarkerRecord
  <2> QED
    BY <1>5, <2>1, <2>2, <2>3
<1>6. CASE k = act /\ RollbackNext
  BY <1>6, RollbackNextMarker DEF MarkerRecord
<1>7. CASE UNCHANGED marker
  BY <1>7
<1> QED
  BY <1>1, <1>2, <1>3, <1>4, <1>5, <1>6, <1>7
  DEF Next, CaptureSteps, Failures, Reserve, RecordOpen, RecordWrite, RecordPublish, Mutate, Tune,
      Dump, DumpEnds, RollbackCommand, AbortClear, AbortSource, Clear, StageCommit, FindExisting,
      PublishBinding, ReleaseSource, RecordFails, MutateFails, CaptureFails,
      RollbackCommandFails, StageFails, Crash

\* Once a snapshot was taken beside another journal, that stays on record.
LEMMA HistoryStep ==
  ASSUME Next
  PROVE  UNCHANGED home /\ (overlapped => overlapped')
<1>1. UNCHANGED home
  BY
  DEF Next, CaptureSteps, Failures, Execute, RefusedCall, Prune, CreateMarker, WriteMarker, Reserve,
      AdvanceReserved, RecordOpen, RecordWrite, RecordPublish, Tune, Dump, DumpEnds, Mutate,
      AdvanceComplete, RollbackBegin, RollbackNext, RollbackCheck, Verify, AbortClear,
      AbortSource, AbortRetire, AdvanceRestored, Clear, StageIntent, StageCommit, FindExisting,
      AdvanceCommitted, PublishBinding, AdvanceBound, ReleaseSource, Retire, RecordFails,
      CaptureFails, ObservationUnavailable, VerifyUnavailable, StageFails, Crash, RollbackCommand,
      RollbackCommandFails, MutateFails, history, disk
<1>2. overlapped => overlapped'
  BY
  DEF Next, CaptureSteps, Failures, Execute, RefusedCall, Prune, CreateMarker, WriteMarker, Reserve,
      AdvanceReserved, RecordOpen, RecordWrite, RecordPublish, Tune, Dump, DumpEnds, Mutate,
      AdvanceComplete, RollbackBegin, RollbackNext, RollbackCheck, Verify, AbortClear,
      AbortSource, AbortRetire, AdvanceRestored, Clear, StageIntent, StageCommit, FindExisting,
      AdvanceCommitted, PublishBinding, AdvanceBound, ReleaseSource, Retire, RecordFails,
      CaptureFails, ObservationUnavailable, VerifyUnavailable, StageFails, Crash, RollbackCommand,
      RollbackCommandFails, MutateFails, history, disk
<1> QED
  BY <1>1, <1>2

LEMMA SnapshotStep ==
  ASSUME IInv, Next
  PROVE  SnapshotOK' /\ InterfaceJournaled'
<1> SUFFICES ASSUME ~overlapped'
             PROVE  SnapshotOK' /\ InterfaceJournaled'
  BY DEF SnapshotOK, InterfaceJournaled
<1>1. ~overlapped /\ SnapshotOK /\ InterfaceJournaled
  BY HistoryStep DEF IInv
<1>2. CASE nic' # nic
  <2>1. /\ act \in Keys /\ journal[act] = "valid" /\ ~marker[act].verified
        /\ UNCHANGED <<home, marker, journal, saved, overlapped>>
    BY <1>2, InterfaceSteps
  <2> QED
    BY <1>1, <2>1 DEF SnapshotOK, Recorded, InterfaceJournaled
<1>3. CASE nic' = nic
  <2> USE <1>3 DEF Recorded
  <2>1. UNCHANGED home
    BY HistoryStep
  \* A snapshot is taken of the original interface.
  <2>2. ASSUME NEW k \in Keys, journal[k] = "torn", journal'[k] = "temp"
        PROVE  /\ saved'[k] = home /\ \A l \in Keys : ~Recorded(l)
    <3>1. act = k /\ pc = "temp" /\ saved'[k] = nic /\ \A l \in Keys \ {k} : journal[l] # "valid"
      BY <2>2, JournalSteps
    <3>2. nic = home
      BY <1>1, <2>2, <3>1 DEF InterfaceJournaled
    <3>3. live
      BY <3>1, CaptureAssumption DEF IInv, PlaceOK
    <3>4. \A l \in Keys : journal[l] # "temp"
      BY <3>1, <3>3 DEF IInv, TemporaryOK
    <3> QED
      BY <2>2, <3>1, <3>2, <3>4
  <2>3. \A k \in Keys : Recorded(k)' => saved'[k] = home
    BY <1>1, <2>2, JournalSteps DEF SnapshotOK, IInv, TypeOK
  <2>4. ASSUME NEW k \in Keys, NEW l \in Keys, Recorded(k)', Recorded(l)', k # l
        PROVE  FALSE
    <3>1. Recorded(k) \/ (journal[k] = "torn" /\ journal'[k] = "temp" /\ act = k)
      BY <2>4, JournalSteps
    <3>2. Recorded(l) \/ (journal[l] = "torn" /\ journal'[l] = "temp" /\ act = l)
      BY <2>4, JournalSteps
    <3> QED
      BY <1>1, <2>2, <2>4, <3>1, <3>2 DEF SnapshotOK
  <2>5. ASSUME NEW k \in Keys, journal'[k] = "valid", marker'[k].verified
        PROVE  nic = home
    <3>1. CASE marker[k].verified
      <4>1. journal[k] \in {"valid", "temp"}
        BY <2>5, JournalSteps
      <4>2. journal[k] # "temp"
        BY <3>1 DEF IInv, TypeOK, MarkerOK, Early, Late, MarkerRecord, MarkerStates, Pending
      <4> QED
        BY <1>1, <3>1, <4>1, <4>2 DEF SnapshotOK
    <3>2. CASE nic = saved[k] /\ journal[k] = "valid"
      BY <1>1, <3>2 DEF SnapshotOK
    <3> QED
      BY <2>5, <3>1, <3>2, VerifiedSteps
  <2>6. SnapshotOK'
    BY <2>1, <2>3, <2>4, <2>5 DEF SnapshotOK
  <2>7. ASSUME nic # home
        PROVE  \E k \in Keys : journal'[k] = "valid" /\ saved'[k] = home
    <3>1. PICK k \in Keys : journal[k] = "valid" /\ saved[k] = home
      BY <1>1, <2>7 DEF InterfaceJournaled
    <3>2. ~marker[k].verified
      BY <1>1, <2>7, <3>1 DEF SnapshotOK
    <3> QED
      BY <3>1, <3>2, JournalSteps
  <2> QED
    BY <2>1, <2>6, <2>7 DEF InterfaceJournaled
<1> QED
  BY <1>2, <1>3

-----------------------------------------------------------------------------
(* The theorems *)

LEMMA NextIInv == IInv /\ [Next]_vars => IInv'
<1>1. ASSUME IInv, Next
      PROVE  IInv'
  BY <1>1, TypeStep, RequestsStep, PlaceNext, TemporaryStep, SnapshotStep DEF IInv
<1>2. ASSUME IInv, UNCHANGED vars
      PROVE  IInv'
  BY <1>2
  DEF vars, IInv, TypeOK, MarkerOK, BytesOK, PlaceOK, TemporaryOK, SnapshotOK, Recorded,
      InterfaceJournaled
<1> QED
  BY <1>1, <1>2

LEMMA InvariantHolds == Spec => []IInv
  BY InitIInv, NextIInv, PTL DEF Spec

\* Whatever fails and wherever the process dies, an interface that is not as
\* the first capture found it has a published journal with the state to put
\* it back to.
THEOREM JournalTheorem == Spec => []InterfaceJournaled
<1>1. IInv => InterfaceJournaled
  BY DEF IInv
<1> QED
  BY <1>1, InvariantHolds, PTL

\* The bytes of a complete capture are in the reserved file until the stager
\* holds them, and a binding is published for nothing less.
THEOREM EvidenceTheorem == Spec => []EvidenceKept
<1>1. IInv => EvidenceKept
  BY DEF IInv, EvidenceKept, BytesKept, BoundIsComplete, BytesOK, Committed
<1> QED
  BY <1>1, InvariantHolds, PTL

\* What MarkerAdvances says of one step and one request
Advances(k) ==
  LET m == marker[k]
      p == marker'[k]
  IN  \/ Rank(p) > Rank(m)
      \/ Rank(p) = Rank(m) /\ p.n >= m.n /\ (m.last = "failed" => p.last = "failed")
      \/ p.st = "none" /\ (m.verified \/ binding[k])

LEMMA MarkerUnchanged ==
  ASSUME IInv, NEW k \in Keys, marker'[k] = marker[k]
  PROVE  Advances(k)
<1>1. marker[k].n \in Nat
  BY DEF IInv, TypeOK, MarkerRecord
<1> QED
  BY <1>1 DEF Advances

LEMMA SameState ==
  ASSUME NEW k \in Keys, marker'[k].st = marker[k].st, marker'[k].n >= marker[k].n,
         marker[k].last = "failed" => marker'[k].last = "failed"
  PROVE  Advances(k)
<1>1. Rank(marker'[k]) = Rank(marker[k])
  BY DEF Rank
<1> QED
  BY <1>1 DEF Advances

LEMMA AdvanceStep ==
  ASSUME IInv, CaptureSteps \/ Failures, NEW k \in Keys, k = act
  PROVE  Advances(k)
<1> USE DEF IInv, TypeOK, At, PlaceOK, MarkerAt, Pending
<1>1. CASE CreateMarker \/ AdvanceReserved \/ AdvanceComplete \/ AdvanceRestored
           \/ StageIntent \/ AdvanceCommitted \/ AdvanceBound
  BY <1>1 DEF CreateMarker, AdvanceReserved, AdvanceComplete, AdvanceRestored, StageIntent,
              AdvanceCommitted, AdvanceBound, Set, MarkerRecord, Advances, Rank
<1>2. CASE WriteMarker
  BY <1>2 DEF WriteMarker, NoMarker, MarkerRecord, Advances, Rank
<1>3. CASE AbortRetire \/ Retire
  BY <1>3 DEF AbortRetire, Retire, NoMarker, Advances
<1>4. CASE RollbackBegin
  <2>1. CASE marker[k].st = Pending
    BY <1>4, <2>1, MarkerUnchanged DEF RollbackBegin
  <2>2. CASE marker[k].st # Pending
    BY <1>4, <2>2 DEF RollbackBegin, RollbackPending, Advances, Rank
  <2> QED
    BY <2>1, <2>2
<1>5. CASE RollbackNext
  <2>1. CASE marker' = marker
    BY <2>1, MarkerUnchanged
  <2>2. CASE marker' # marker
    <3>1. /\ marker \in [Keys -> MarkerRecord] /\ marker[k].last # "failed"
          /\ \/ marker' = [marker EXCEPT ![k].n = marker[k].n + 1, ![k].last = "none"]
             \/ marker' = [marker EXCEPT ![k].last = "planned"]
      BY <1>5, <2>2, RollbackNextMarker
    <3>2. marker[k].n \in Nat
      BY <3>1 DEF MarkerRecord
    <3>3. marker'[k].st = marker[k].st
      BY <3>1 DEF MarkerRecord
    <3>4. marker'[k].n = marker[k].n \/ marker'[k].n = marker[k].n + 1
      BY <3>1 DEF MarkerRecord
    <3>5. marker'[k].n >= marker[k].n
      BY <3>2, <3>4
    <3> QED
      BY <3>1, <3>3, <3>5, SameState
  <2> QED
    BY <2>1, <2>2
<1>6. CASE ObservationUnavailable \/ RollbackCheck
  <2>1. k \in Keys /\ marker[k] \in MarkerRecord /\ (pc = "check" => marker[k].last # "failed")
    OBVIOUS
  <2>2. CASE ObservationUnavailable
    <3>1. /\ marker[k].n \in Nat /\ marker[k].last # "failed" /\ marker'[k].st = marker[k].st
          /\ marker'[k].n = marker[k].n
      BY <2>1, <2>2 DEF ObservationUnavailable, MarkerRecord
    <3> QED
      BY <3>1, SameState
  <2>3. CASE RollbackCheck
    BY <1>6, <2>1, <2>3, SameState DEF RollbackCheck, MarkerRecord
  <2> QED
    BY <1>6, <2>2, <2>3
<1>7. CASE Verify \/ VerifyUnavailable
  <2>1. /\ marker[k].n \in Nat /\ marker'[k].st = marker[k].st /\ marker'[k].n = marker[k].n
        /\ marker'[k].last = marker[k].last
    BY <1>7 DEF Verify, VerifyUnavailable, MarkerRecord
  <2> QED
    BY <2>1, SameState
<1>8. CASE UNCHANGED marker
  BY <1>8, MarkerUnchanged
<1> QED
  BY <1>1, <1>2, <1>3, <1>4, <1>5, <1>6, <1>7, <1>8
  DEF CaptureSteps, Failures, Reserve, RecordOpen, RecordWrite, RecordPublish, Mutate, Tune,
      Dump, DumpEnds, RollbackCommand, AbortClear, AbortSource, Clear, StageCommit, FindExisting,
      PublishBinding, ReleaseSource, RecordFails, MutateFails, CaptureFails,
      RollbackCommandFails, StageFails, Crash, disk

\* Across crashes and retries a marker moves forward only, or away once the
\* interface is verified or the binding published; no confirmed rollback step
\* is taken back and a failed one stays failed.
THEOREM MarkerTheorem == Spec => MarkerAdvances
<1>1. ASSUME IInv, Next, NEW k \in Keys
      PROVE  Advances(k)
  <2>1. CASE marker'[k] = marker[k]
    BY <1>1, <2>1, MarkerUnchanged
  <2>2. CASE k = act /\ (CaptureSteps \/ Failures)
    BY <1>1, <2>2, AdvanceStep
  <2> QED
    BY <1>1, <2>1, <2>2, Frame DEF Next, Execute, RefusedCall, Prune
<1>2. IInv /\ [Next]_vars => [\A k \in Keys : Advances(k)]_vars
  BY <1>1
<1>3. [\A k \in Keys : Advances(k)]_vars =>
        [\A k \in Keys :
           LET m == marker[k]
               p == marker'[k]
           IN  \/ Rank(p) > Rank(m)
               \/ Rank(p) = Rank(m) /\ p.n >= m.n /\ (m.last = "failed" => p.last = "failed")
               \/ p.st = "none" /\ (m.verified \/ binding[k])]_vars
  BY DEF Advances
<1> QED
  BY <1>2, <1>3, InvariantHolds, PTL DEF Spec, MarkerAdvances
=============================================================================
