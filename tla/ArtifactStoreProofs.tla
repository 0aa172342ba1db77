------------------------ MODULE ArtifactStoreProofs ------------------------
(***************************************************************************)
(* Proofs about ArtifactStore for every set of artifacts, both kinds of    *)
(* authority, and every number of copies, prune operations and faults.     *)
(*                                                                         *)
(* The threads share the directory and no lock, so the argument goes by    *)
(* rely and guarantee.  Moves says what any step may do to the copies, the *)
(* rows and the prune journal; each action is shown to make only such      *)
(* moves and to keep what its own thread relies on, and what any other     *)
(* thread relies on is shown once to survive every such move.              *)
(***************************************************************************)
EXTENDS ArtifactStore, FiniteSetTheorems, TLAPS

-----------------------------------------------------------------------------
(* The inductive invariant *)

IntentPcs   == {"intents", "publish", "queue", "dropTemp", "dropIntent"}
Reconciling == IntentPcs \ {"intents"}
JournalPcs  == Stages \cup {"quarantine", "update", "retire", "conflict"}
Unpublished == {"seal", "intent", "ready", "commit", "rename", "cleanTemp", "cleanIntent"}
StagePcs    == Unpublished \cup {"open", "insert", "close"}

\* Where a thread is, against what it does and what it holds.
PlaceOK(t) ==
  /\ thr[t].kind = "idle" <=> thr[t].pc \in {"idle", "done"}
  /\ thr[t].kind = "stage" <=> thr[t].pc \in StagePcs
  /\ thr[t].kind \in {"preflight", "recovery"} => thr[t].pc \in IntentPcs
  /\ thr[t].kind = "startup" => thr[t].pc \in {"ops"} \cup JournalPcs \cup IntentPcs
  /\ thr[t].kind = "prune" => t = "cli" /\ thr[t].pc \in {"select", "prepare"} \cup JournalPcs
  /\ thr[t].kind \in {"preflight", "recovery", "stage"} => t \in Workers /\ thr[t].art \in Artifacts
  /\ thr[t].kind = "startup" /\ t \in Workers => svc = "starting"
  /\ t = "cli" => thr[t].pc # "done"
  /\ thr[t].pc \in {"prepare"} \cup JournalPcs => thr[t].op \in Ops
  /\ thr[t].pc = "open" => thr[t].obj = 0
  /\ thr[t].pc \in Reconciling \cup (StagePcs \ {"open"}) => thr[t].obj # 0

\* The service, its coroutine and its workers.
ServiceOK ==
  /\ svc \in {"down", "starting"} => call.pc = "idle" /\ ~ Unfinished("w2")
  /\ svc = "down" => ~ Unfinished("w1")
  /\ call.pc # "idle" => \A w \in Workers : Unfinished(w) => w = call.w
  /\ OneWorker

\* The rows, and the copies they name.
RowOK ==
  \A a \in Artifacts :
    /\ row[a].state = "absent" <=> row[a].obj = 0
    /\ row[a].obj # 0 => obj[row[a].obj].art = a /\ obj[row[a].obj].loc = "out"
    /\ row[a].path # 0 => row[a].state = "confirmed" /\ obj[row[a].obj].name = row[a].path

\* The prune journal: an operation is about the copy that a confirmed row names.
Journalled(k) == op[k].active \in {"active", "retired", "conflict"}
RowOf(k) == row[obj[op[k].obj].art]
Confirmed(o) ==
  obj[o].art \in Artifacts /\ row[obj[o].art].state = "confirmed" /\ row[obj[o].art].obj = o
JournalOK ==
  \A k \in Ops : Journalled(k) =>
    /\ op[k].obj # 0 /\ Confirmed(op[k].obj)
    /\ Committed(k, "QUARANTINED") => obj[op[k].obj].name = k
    /\ Committed(k, "SQLITE_UPDATED") \/ op[k].active = "retired" => RowOf(k).path = k

\* What a thread knows of the operation it works on.
PruneOK(t) ==
  /\ \A a \in thr[t].arts : row[a].state = "confirmed"
  /\ thr[t].pc = "prepare" =>
       op[thr[t].op].active = "none" /\ thr[t].obj # 0 /\ Confirmed(thr[t].obj)
  /\ thr[t].pc \in JournalPcs => Journalled(thr[t].op)
  /\ thr[t].pc = "quarantine" => Committed(thr[t].op, "PREPARED")
  /\ thr[t].pc \in {"QUARANTINED", "update"} => obj[op[thr[t].op].obj].name = thr[t].op
  /\ thr[t].pc \in {"SQLITE_UPDATED", "retire"} => RowOf(thr[t].op).path = thr[t].op

\* The copies.
ObjectOK ==
  \A o \in Objects :
    /\ obj[o].art = NoArtifact <=> obj[o].loc = "none"
    /\ obj[o].loc = "none" => obj[o].txn = "COPYING"
    /\ obj[o].intent # "none" => obj[o].loc \in {"temp", "out", "dead"}
    /\ obj[o].loc = "out" /\ ~ obj[o].cap => obj[o].txn \in {"COMMITTING", "COMMITTED"}
    /\ obj[o].name # 0 =>
         /\ obj[o].loc = "out" /\ Journalled(obj[o].name) /\ op[obj[o].name].obj = o
         /\ Committed(obj[o].name, "PREPARED")

\* A capture's copy met by a reconciliation while its worker was at work.
Exempt(o) == obj[o].cap /\ o \in raced

\* The copy that a staging worker is making.
StagingOK(t) ==
  thr[t].kind = "stage" /\ thr[t].pc # "open" =>
    LET o == thr[t].obj
    IN /\ obj[o].art = thr[t].art
       /\ thr[t].pc = "seal" => obj[o].loc = "part"
       /\ thr[t].pc = "intent" => obj[o].loc = "temp"
       /\ thr[t].pc \in {"seal", "intent"} => obj[o].intent = "none"
       /\ thr[t].pc \in {"seal", "intent", "ready"} => obj[o].txn \in {"COPYING", "ABORTED"}
       /\ thr[t].pc = "commit" => obj[o].txn \in {"READY_TO_COMMIT", "ABORTED"}
       /\ thr[t].pc \in {"rename", "insert", "close"} => obj[o].txn = "COMMITTING"
       /\ thr[t].pc \in {"ready", "commit", "rename"} /\ obj[o].loc = "temp" => obj[o].intent = "live"
       /\ thr[t].pc \in Unpublished /\ obj[o].loc = "out" => Exempt(o)
       /\ thr[t].pc \in {"insert", "close"} => obj[o].loc = "out"
       /\ thr[t].pc = "insert" => obj[o].intent = "live" \/ row[obj[o].art].obj = o
       /\ thr[t].pc = "close" => row[obj[o].art].obj = o

Staged(o) == \E w \in Threads : thr[w].kind = "stage" /\ thr[w].obj = o

\* The copy whose intent a thread reconciles.
ReconcileOK(t) ==
  thr[t].pc \in Reconciling =>
    LET o == thr[t].obj
    IN /\ obj[o].art \in Artifacts /\ obj[o].intent # "none"
       /\ thr[t].pc = "publish" =>
            obj[o].cap /\ (obj[o].loc = "temp" => obj[o].intent = "live" \/ o \in raced)
       /\ thr[t].pc = "dropTemp" => ~ obj[o].cap
       /\ thr[t].pc = "queue" => obj[o].loc = "out"
       /\ thr[t].pc = "dropIntent" => obj[o].loc = "dead" \/ row[obj[o].art].obj = o
       /\ Staged(o) => o \in raced

\* A copy that is published or that reconciliation would publish.
Publishable(o) ==
  obj[o].loc = "out" \/ (obj[o].loc = "temp" /\ obj[o].cap /\ obj[o].intent = "live")
Only(a, o) == \A p \in Objects : obj[p].art = a /\ Publishable(p) => p = o \/ Exempt(p)

\* One copy of an artifact is published.  A worker stages only what the preflight did not find,
\* and the preflight has published, queued or refused every copy that it could find.
UniqueOK ==
  \A o, p \in Objects :
    Publishable(o) /\ Publishable(p) /\ obj[o].art = obj[p].art => o = p \/ Exempt(o) \/ Exempt(p)
FreshOK(t) == thr[t].pc \in Unpublished \cup {"open"} => Only(thr[t].art, thr[t].obj)
PreflightOK(t) ==
  thr[t].kind = "preflight" /\ ~ thr[t].bad /\ row[thr[t].art].state = "absent" =>
    \A p \in Objects : obj[p].art = thr[t].art /\ Publishable(p) =>
      p \in thr[t].todo \/ Exempt(p) \/ (thr[t].obj = p /\ thr[t].pc \in {"publish", "queue"})

\* What the worker of a call does, and what its result means.
CallOK ==
  /\ call.out = "staged" => call.art \in Artifacts /\ row[call.art].state # "absent"
  /\ call.pc # "idle" =>
       /\ call.art \in Artifacts
       /\ Unfinished(call.w) =>
            /\ thr[call.w].art = call.art
            /\ call.pc \in {"preflight", "stopping"} => thr[call.w].kind = "preflight"
            /\ call.pc \in {"staging", "cancelling"} => thr[call.w].kind = "stage"
            /\ call.pc = "recovering" => thr[call.w].kind = "recovery"
       /\ At(call.w, "done") /\ thr[call.w].res \in {"found", "staged"} => row[call.art].state # "absent"
       /\ call.pc = "preflight" /\ At(call.w, "done") /\ thr[call.w].res = "missing" => Only(call.art, 0)

FilesOK == RowOK /\ JournalOK /\ ObjectOK /\ PublishedTracked /\ UniqueOK
ThreadOK(t) ==
  PlaceOK(t) /\ PruneOK(t) /\ StagingOK(t) /\ ReconcileOK(t) /\ FreshOK(t) /\ PreflightOK(t)

IInv == TypeOK /\ FilesOK /\ (\A t \in Threads : ThreadOK(t)) /\ ServiceOK /\ CallOK

-----------------------------------------------------------------------------
(* What a step may do to the files, the rows and the journal *)

\* A copy's own worker is at work on it, and moves.
Working(o) == \E w \in Threads : thr[w].pc \in Unpublished /\ thr[w].obj = o
WorkerMoves(o) ==
  \E w \in Threads : thr[w].kind = "stage" /\ thr[w].obj = o /\ thr'[w] # thr[w]

TxnOrder(x, y) ==
  y = x \/ (x \in {"COPYING", "READY_TO_COMMIT"} /\ y = "ABORTED")

ObjectMoves(o) ==
  /\ obj[o].art # NoArtifact => obj'[o].art = obj[o].art /\ obj'[o].cap = obj[o].cap
  /\ obj[o].art = NoArtifact => obj'[o].loc \in {"none", "part"} /\ obj'[o].intent = "none" /\ obj'[o].name = 0
  /\ obj'[o].art = NoArtifact <=> obj'[o].loc = "none"
  /\ obj'[o].loc = "none" => obj'[o].txn = "COPYING"
  /\ obj[o].loc = "out" => obj'[o].loc = "out" /\ (obj[o].cap \/ obj'[o].txn \in {"COMMITTING", "COMMITTED"})
  /\ obj[o].loc = "dead" => obj'[o].loc = "dead"
  /\ obj[o].loc = "temp" => obj'[o].loc \in {"temp", "out", "dead"}
  /\ obj[o].intent # "none" => obj'[o].intent # "none"
  /\ obj'[o].intent # "none" => obj'[o].loc \in {"temp", "out", "dead"}
  /\ obj[o].name # 0 => obj'[o].name = obj[o].name
  /\ obj'[o].name # obj[o].name =>
       /\ obj[o].loc = "out" /\ Journalled(obj'[o].name) /\ op[obj'[o].name].obj = o
       /\ Committed(obj'[o].name, "PREPARED")
  /\ obj[o].intent = "live" /\ obj'[o].intent # "live" =>
       /\ obj'[o].loc = "temp" => Staged(o)
       /\ obj'[o].loc = "out" => row[obj[o].art].obj = o \/ Exempt(o)
  /\ obj[o].loc # "out" /\ obj'[o].loc = "out" =>
       /\ obj'[o].intent = "live" \/ Exempt(o)
       /\ obj[o].cap \/ obj'[o].txn = "COMMITTING"
  /\ Publishable(o)' =>
       obj[o].art # NoArtifact /\ (Publishable(o) \/ Exempt(o) \/ Working(o))
  /\ ~ WorkerMoves(o) =>
       /\ obj[o].loc = "part" => obj'[o].loc = "part"
       /\ obj[o].intent = "none" => obj'[o].intent = "none" /\ (obj[o].loc # "none" => obj'[o].loc = obj[o].loc)
       /\ TxnOrder(obj[o].txn, obj'[o].txn)
       /\ obj'[o].loc = "temp" /\ obj[o].intent = "live" => obj'[o].intent = "live"
       /\ obj'[o].loc = "out" /\ obj[o].intent = "live" /\ obj'[o].intent # "live" =>
            row[obj[o].art].obj = o
       /\ obj[o].loc # "out" /\ obj'[o].loc = "out" /\ Staged(o) => Exempt(o)

RowMoves(a) ==
  /\ row[a].state # "absent" => row'[a].state # "absent" /\ row'[a].obj = row[a].obj
  /\ row[a].state = "confirmed" => row'[a].state = "confirmed"
  /\ row[a].path # 0 => row'[a].path = row[a].path
  /\ row'[a].state = "absent" <=> row'[a].obj = 0
  /\ row[a].state = "absent" /\ row'[a].state # "absent" =>
       row'[a].path = 0 /\ row'[a].obj \in Objects /\ obj[row'[a].obj].art = a /\ obj[row'[a].obj].loc = "out"
  /\ row'[a].path # row[a].path => row[a].state = "confirmed" /\ obj[row[a].obj].name = row'[a].path

OpMoves(k) ==
  /\ Journalled(k) =>
       /\ Journalled(k)' /\ op'[k].obj = op[k].obj
       /\ \A s \in Stages : Committed(k, s) => Committed(k, s)'
       /\ Committed(k, "QUARANTINED")' => Committed(k, "QUARANTINED") \/ obj[op[k].obj].name = k
       /\ Committed(k, "SQLITE_UPDATED")' \/ op'[k].active = "retired" =>
            Committed(k, "SQLITE_UPDATED") \/ op[k].active = "retired" \/ RowOf(k).path = k
  /\ ~ Journalled(k) /\ Journalled(k)' =>
       /\ op'[k].obj \in Objects /\ Confirmed(op'[k].obj) /\ op'[k].active = "active"
       /\ \A s \in Stages : ~ Committed(k, s)'
  /\ op[k].active = "none" /\ thr'["cli"] = thr["cli"] => op'[k].active = "none"

Moves ==
  /\ \A o \in Objects : ObjectMoves(o)
  /\ \A a \in Artifacts : RowMoves(a)
  /\ \A k \in Ops : OpMoves(k)
  /\ raced \subseteq raced'
  /\ \A w \in Threads : thr'[w].kind = "stage" /\ thr'[w].obj # 0 =>
       \/ thr[w].kind = "stage" /\ thr'[w].obj = thr[w].obj
       \/ obj[thr'[w].obj].art = NoArtifact

-----------------------------------------------------------------------------
(* What the moves keep *)

LEMMA StillObject ==
  ASSUME IInv, NEW o \in Objects, obj'[o] = obj[o]
  PROVE  ObjectMoves(o)
BY DEF IInv, FilesOK, ObjectOK, ObjectMoves, TxnOrder, Publishable

LEMMA StillRow ==
  ASSUME IInv, NEW a \in Artifacts, row'[a] = row[a]
  PROVE  RowMoves(a)
BY DEF IInv, FilesOK, RowOK, RowMoves

LEMMA StillOp ==
  ASSUME NEW k \in Ops, op'[k] = op[k]
  PROVE  OpMoves(k)
BY DEF OpMoves, Journalled, Committed

\* No thread turns to the staging of another copy.
SameStaging ==
  /\ raced \subseteq raced'
  /\ \A w \in Threads : thr'[w].kind = "stage" /\ thr'[w].obj # 0 =>
       thr[w].kind = "stage" /\ thr'[w].obj = thr[w].obj

LEMMA Unchanged ==
  ASSUME IInv, UNCHANGED <<obj, row, op>>, SameStaging
  PROVE  Moves
BY StillObject, StillRow, StillOp DEF Moves, SameStaging

LEMMA OneObject ==
  ASSUME IInv, UNCHANGED <<row, op>>, SameStaging, NEW o,
         \A p \in Objects : p # o => obj'[p] = obj[p],
         o \in Objects => ObjectMoves(o)
  PROVE  Moves
BY StillObject, StillRow, StillOp DEF Moves, SameStaging

LEMMA OneRow ==
  ASSUME IInv, UNCHANGED <<obj, op>>, SameStaging, NEW a,
         \A b \in Artifacts : b # a => row'[b] = row[b],
         a \in Artifacts => RowMoves(a)
  PROVE  Moves
BY StillObject, StillRow, StillOp DEF Moves, SameStaging

LEMMA OneOp ==
  ASSUME IInv, UNCHANGED <<obj, row>>, SameStaging, NEW k,
         \A j \in Ops : j # k => op'[j] = op[j],
         k \in Ops => OpMoves(k)
  PROVE  Moves
BY StillObject, StillRow, StillOp DEF Moves, SameStaging

LEMMA ConfirmedStays ==
  ASSUME Moves, TypeOK, TypeOK', NEW o \in Objects, Confirmed(o)
  PROVE  Confirmed(o)' /\ obj'[o].art = obj[o].art /\ obj[o].art # NoArtifact
<1>1. obj[o].art \in Artifacts /\ obj[o].art # NoArtifact
  BY ArtifactAssumption DEF Confirmed
<1>2. ObjectMoves(o) /\ RowMoves(obj[o].art)
  BY <1>1 DEF Moves
<1>3. obj'[o].art = obj[o].art
  BY <1>1, <1>2 DEF ObjectMoves
<1>4. row'[obj[o].art].state = "confirmed" /\ row'[obj[o].art].obj = o
  BY <1>2 DEF RowMoves, Confirmed
<1> QED
  BY <1>1, <1>3, <1>4 DEF Confirmed

LEMMA JournalStays ==
  ASSUME IInv, Moves, TypeOK', NEW k \in Ops, Journalled(k)
  PROVE  /\ Journalled(k)' /\ op'[k].obj = op[k].obj /\ op[k].obj \in Objects
         /\ \A s \in Stages : Committed(k, s) => Committed(k, s)'
         /\ obj[op[k].obj].name # 0 => obj'[op[k].obj].name = obj[op[k].obj].name
         /\ obj'[op[k].obj].art = obj[op[k].obj].art /\ obj[op[k].obj].art \in Artifacts
         /\ RowOf(k).path # 0 => RowOf(k)'.path = RowOf(k).path
<1>1. op[k].obj \in Objects /\ Confirmed(op[k].obj)
  BY DEF IInv, FilesOK, JournalOK, TypeOK, OpRecord, Objects
<1>2. OpMoves(k) /\ ObjectMoves(op[k].obj) /\ RowMoves(obj[op[k].obj].art)
  BY <1>1 DEF Moves, Confirmed
<1>3. obj'[op[k].obj].art = obj[op[k].obj].art
  BY <1>1, ConfirmedStays DEF IInv
<1>4. Journalled(k)' /\ op'[k].obj = op[k].obj
  BY <1>2 DEF OpMoves
<1>5. \A s \in Stages : Committed(k, s) => Committed(k, s)'
  BY <1>2 DEF OpMoves
<1>6. obj[op[k].obj].name # 0 => obj'[op[k].obj].name = obj[op[k].obj].name
  BY <1>2 DEF ObjectMoves
<1>7. RowOf(k).path # 0 => RowOf(k)'.path = RowOf(k).path
  BY <1>2, <1>3, <1>4 DEF RowMoves, RowOf
<1> QED
  BY <1>1, <1>3, <1>4, <1>5, <1>6, <1>7 DEF Confirmed

LEMMA RowStays ==
  ASSUME IInv, Moves, TypeOK'
  PROVE  RowOK'
<1> SUFFICES ASSUME NEW a \in Artifacts
             PROVE  /\ row'[a].state = "absent" <=> row'[a].obj = 0
                    /\ row'[a].obj # 0 => obj'[row'[a].obj].art = a /\ obj'[row'[a].obj].loc = "out"
                    /\ row'[a].path # 0 =>
                         row'[a].state = "confirmed" /\ obj'[row'[a].obj].name = row'[a].path
  BY DEF RowOK
<1>1. RowMoves(a) /\ a # NoArtifact
  BY ArtifactAssumption DEF Moves
<1>2. row'[a].state = "absent" <=> row'[a].obj = 0
  BY <1>1 DEF RowMoves
<1>3. ASSUME row'[a].obj # 0
      PROVE  row'[a].obj \in Objects /\ obj[row'[a].obj].art = a /\ obj[row'[a].obj].loc = "out"
  BY <1>1, <1>3 DEF RowMoves, IInv, FilesOK, RowOK, TypeOK, RowRecord, Objects
<1>4. row'[a].obj # 0 => obj'[row'[a].obj].art = a /\ obj'[row'[a].obj].loc = "out"
  BY <1>1, <1>3 DEF Moves, ObjectMoves
<1>5. ASSUME row'[a].path # 0
      PROVE  row'[a].state = "confirmed" /\ obj'[row'[a].obj].name = row'[a].path
  <2>1. row[a].state = "confirmed" /\ obj[row[a].obj].name = row'[a].path
    BY <1>1, <1>5 DEF RowMoves, IInv, FilesOK, RowOK
  <2>2. row'[a].state = "confirmed" /\ row'[a].obj = row[a].obj /\ row[a].obj # 0
    BY <1>1, <2>1 DEF RowMoves, IInv, FilesOK, RowOK
  <2>3. ObjectMoves(row[a].obj)
    BY <1>3, <2>2 DEF Moves
  <2> QED
    BY <1>5, <2>1, <2>2, <2>3 DEF ObjectMoves
<1> QED
  BY <1>2, <1>4, <1>5

LEMMA OpsStay ==
  ASSUME IInv, Moves, TypeOK'
  PROVE  JournalOK'
<1> SUFFICES ASSUME NEW k \in Ops, Journalled(k)'
             PROVE  /\ op'[k].obj # 0 /\ Confirmed(op[k].obj)'
                    /\ Committed(k, "QUARANTINED")' => obj'[op'[k].obj].name = k
                    /\ Committed(k, "SQLITE_UPDATED")' \/ op'[k].active = "retired" => RowOf(k)'.path = k
  BY DEF JournalOK
<1>0. OpMoves(k) /\ k # 0
  BY DEF Moves, Ops
<1>1. CASE Journalled(k)
  <2>1. /\ Journalled(k)' /\ op'[k].obj = op[k].obj /\ op[k].obj \in Objects
        /\ obj[op[k].obj].name # 0 => obj'[op[k].obj].name = obj[op[k].obj].name
        /\ RowOf(k).path # 0 => RowOf(k)'.path = RowOf(k).path
    BY <1>1, JournalStays
  <2>2. Confirmed(op[k].obj)'
    BY <1>1, <2>1, ConfirmedStays DEF IInv, FilesOK, JournalOK
  <2>3. Committed(k, "QUARANTINED")' => obj[op[k].obj].name = k
    BY <1>0, <1>1 DEF OpMoves, IInv, FilesOK, JournalOK
  <2>4. Committed(k, "SQLITE_UPDATED")' \/ op'[k].active = "retired" => RowOf(k).path = k
    BY <1>0, <1>1 DEF OpMoves, IInv, FilesOK, JournalOK
  <2> QED
    BY <1>0, <2>1, <2>2, <2>3, <2>4 DEF Objects
<1>2. CASE ~ Journalled(k)
  <2>1. /\ op'[k].obj \in Objects /\ Confirmed(op'[k].obj) /\ op'[k].active = "active"
        /\ \A s \in Stages : ~ Committed(k, s)'
    BY <1>0, <1>2 DEF OpMoves
  <2>2. ASSUME NEW o \in Objects, o = op'[k].obj PROVE Confirmed(o)'
    BY <2>1, <2>2, ConfirmedStays DEF IInv
  <2>3. Confirmed(op[k].obj)'
    BY <2>1, <2>2 DEF Confirmed
  <2> QED
    BY <2>1, <2>3 DEF Objects, Stages
<1> QED
  BY <1>1, <1>2

LEMMA ObjectsStay ==
  ASSUME IInv, Moves, TypeOK'
  PROVE  ObjectOK'
<1> SUFFICES ASSUME NEW o \in Objects
             PROVE  /\ obj'[o].art = NoArtifact <=> obj'[o].loc = "none"
                    /\ obj'[o].loc = "none" => obj'[o].txn = "COPYING"
                    /\ obj'[o].intent # "none" => obj'[o].loc \in {"temp", "out", "dead"}
                    /\ obj'[o].loc = "out" /\ ~ obj'[o].cap => obj'[o].txn \in {"COMMITTING", "COMMITTED"}
                    /\ obj'[o].name # 0 =>
                         /\ obj'[o].loc = "out" /\ Journalled(obj[o].name)' /\ op'[obj'[o].name].obj = o
                         /\ Committed(obj[o].name, "PREPARED")'
  BY DEF ObjectOK
<1>1. ObjectMoves(o)
  BY DEF Moves
<1>2. obj[o].art = NoArtifact <=> obj[o].loc = "none"
  BY DEF IInv, FilesOK, ObjectOK
<1>3. obj'[o].loc = "out" /\ ~ obj'[o].cap => obj'[o].txn \in {"COMMITTING", "COMMITTED"}
  BY <1>1, <1>2 DEF ObjectMoves, IInv, FilesOK, ObjectOK
<1>4. ASSUME obj'[o].name # 0
      PROVE  /\ obj'[o].loc = "out" /\ Journalled(obj[o].name)' /\ op'[obj'[o].name].obj = o
             /\ Committed(obj[o].name, "PREPARED")'
  <2>1. /\ obj[o].loc = "out" /\ Journalled(obj'[o].name) /\ op[obj'[o].name].obj = o
        /\ Committed(obj'[o].name, "PREPARED")
    BY <1>1, <1>4 DEF ObjectMoves, IInv, FilesOK, ObjectOK
  <2>2. obj'[o].name \in Ops
    BY <1>4 DEF TypeOK, ObjectRecord, Ops
  <2>3. obj'[o].loc = "out"
    BY <1>1, <2>1 DEF ObjectMoves
  <2> QED
    BY <2>1, <2>2, <2>3, JournalStays DEF Stages
<1> QED
  BY <1>1, <1>3, <1>4 DEF ObjectMoves

LEMMA TrackedStays ==
  ASSUME IInv, Moves, TypeOK'
  PROVE  PublishedTracked'
<1> SUFFICES ASSUME NEW o \in Objects, obj'[o].loc = "out"
             PROVE  obj'[o].intent = "live" \/ row'[obj'[o].art].obj = o \/ Exempt(o)'
  BY DEF PublishedTracked, Exempt
<1>1. ObjectMoves(o) /\ obj[o].art # NoArtifact
  BY DEF Moves, ObjectMoves
<1>2. obj[o].art \in Artifacts /\ obj'[o].art = obj[o].art /\ RowMoves(obj[o].art) /\ (Exempt(o) => Exempt(o)')
  BY <1>1 DEF IInv, TypeOK, ObjectRecord, ObjectMoves, Moves, Exempt
<1>3. row[obj[o].art].obj = o => row'[obj[o].art].obj = o
  BY <1>2 DEF RowMoves, IInv, FilesOK, RowOK, Objects
<1>4. CASE obj[o].loc = "out"
  BY <1>1, <1>2, <1>3, <1>4 DEF ObjectMoves, IInv, FilesOK, PublishedTracked, Exempt
<1>5. CASE obj[o].loc # "out"
  BY <1>1, <1>2, <1>5 DEF ObjectMoves
<1> QED
  BY <1>4, <1>5

\* At most one copy is being made at a time: there is one worker.
LEMMA OneStaging ==
  ASSUME IInv, NEW v \in Threads, NEW w \in Threads, thr[v].kind = "stage", Unfinished(w), w \in Workers
  PROVE  v = w
<1>1. v \in Workers /\ thr[v].pc \in StagePcs
  BY DEF IInv, ThreadOK, PlaceOK
<1>2. Unfinished(v)
  BY <1>1 DEF StagePcs, Unpublished, Unfinished
<1> QED
  BY <1>1, <1>2 DEF IInv, ServiceOK, OneWorker

LEMMA StageIsStage ==
  ASSUME IInv, NEW w \in Threads, thr[w].pc \in StagePcs
  PROVE  thr[w].kind = "stage" /\ w \in Workers /\ Unfinished(w)
BY DEF IInv, ThreadOK, PlaceOK, StagePcs, Unpublished, Unfinished

\* A copy that becomes publishable is the one that the worker makes.
LEMMA NewlyPublishable ==
  ASSUME IInv, Moves, NEW p \in Objects, Publishable(p)', ~ Exempt(p)'
  PROVE  /\ obj'[p].art = obj[p].art /\ (Publishable(p) \/ Working(p)) /\ ~ Exempt(p)
<1>1. ObjectMoves(p) /\ raced \subseteq raced'
  BY DEF Moves
<1>2. obj[p].art # NoArtifact /\ (Publishable(p) \/ Exempt(p) \/ Working(p))
  BY <1>1 DEF ObjectMoves
<1>3. obj'[p].art = obj[p].art /\ obj'[p].cap = obj[p].cap
  BY <1>1, <1>2 DEF ObjectMoves
<1> QED
  BY <1>1, <1>2, <1>3 DEF Exempt

LEMMA UniqueStays ==
  ASSUME IInv, Moves
  PROVE  UniqueOK'
<1> SUFFICES ASSUME NEW o \in Objects, NEW p \in Objects, Publishable(o)', Publishable(p)',
                    obj'[o].art = obj'[p].art, ~ Exempt(o)', ~ Exempt(p)'
             PROVE  o = p
  BY DEF UniqueOK
<1>1. /\ obj'[p].art = obj[p].art /\ (Publishable(p) \/ Working(p)) /\ ~ Exempt(p)
      /\ obj'[o].art = obj[o].art /\ (Publishable(o) \/ Working(o)) /\ ~ Exempt(o)
  BY NewlyPublishable
<1>2. ASSUME NEW x \in Objects, NEW y \in Objects, Working(x), obj[x].art = obj[y].art,
             Publishable(y), ~ Exempt(y)
      PROVE  x = y
  <2>1. PICK w \in Threads : thr[w].pc \in Unpublished /\ thr[w].obj = x
    BY <1>2 DEF Working
  <2>2. thr[w].kind = "stage" /\ thr[w].pc # "open"
    BY <2>1, StageIsStage DEF StagePcs, Unpublished
  <2>3. obj[x].art = thr[w].art
    BY <2>1, <2>2 DEF IInv, ThreadOK, StagingOK
  <2>4. Only(thr[w].art, x)
    BY <2>1 DEF IInv, ThreadOK, FreshOK
  <2> QED
    BY <1>2, <2>3, <2>4 DEF Only
<1>3. ASSUME Working(o), Working(p) PROVE o = p
  <2>1. PICK v \in Threads : thr[v].pc \in Unpublished /\ thr[v].obj = o
    BY <1>3 DEF Working
  <2>2. PICK w \in Threads : thr[w].pc \in Unpublished /\ thr[w].obj = p
    BY <1>3 DEF Working
  <2>3. thr[v].kind = "stage" /\ Unfinished(w) /\ w \in Workers
    BY <2>1, <2>2, StageIsStage DEF StagePcs
  <2> QED
    BY <2>1, <2>2, <2>3, OneStaging
<1>4. Publishable(o) /\ Publishable(p) => o = p
  BY <1>1 DEF IInv, FilesOK, UniqueOK
<1> QED
  BY <1>1, <1>2, <1>3, <1>4

LEMMA FilesStay ==
  ASSUME IInv, Moves, TypeOK'
  PROVE  FilesOK'
BY RowStays, OpsStay, ObjectsStay, TrackedStays, UniqueStays DEF FilesOK

-----------------------------------------------------------------------------
(* A thread that does not move, and the call *)

LEMMA PruneStays ==
  ASSUME IInv, Moves, TypeOK', NEW u \in Threads, thr'[u] = thr[u]
  PROVE  PruneOK(u)'
<1>0. PruneOK(u) /\ PlaceOK(u)
  BY DEF IInv, ThreadOK
<1>1. ASSUME NEW a \in thr'[u].arts PROVE row'[a].state = "confirmed"
  BY <1>0, <1>1 DEF PruneOK, Moves, RowMoves, TypeOK, ThreadRecord
<1>2. ASSUME thr'[u].pc = "prepare"
      PROVE  op'[thr'[u].op].active = "none" /\ thr'[u].obj # 0 /\ Confirmed(thr[u].obj)'
  <2>1. u = "cli" /\ thr[u].op \in Ops /\ thr[u].obj \in Objects
    BY <1>0, <1>2 DEF PlaceOK, PruneOK, IInv, TypeOK, ThreadRecord, Objects, Kinds, StagePcs, Unpublished,
                      IntentPcs, JournalPcs, Stages
  <2>2. op'[thr[u].op].active = "none"
    BY <1>0, <1>2, <2>1 DEF PruneOK, Moves, OpMoves
  <2> QED
    BY <1>0, <1>2, <2>1, <2>2, ConfirmedStays DEF PruneOK, IInv, Objects
<1>3. ASSUME thr'[u].pc \in JournalPcs
      PROVE  /\ Journalled(thr[u].op)'
             /\ thr'[u].pc = "quarantine" => Committed(thr[u].op, "PREPARED")'
             /\ thr'[u].pc \in {"QUARANTINED", "update"} => obj'[op'[thr[u].op].obj].name = thr[u].op
             /\ thr'[u].pc \in {"SQLITE_UPDATED", "retire"} => RowOf(thr[u].op)'.path = thr[u].op
  <2>1. thr[u].op \in Ops /\ thr[u].op # 0 /\ Journalled(thr[u].op)
    BY <1>0, <1>3 DEF PlaceOK, PruneOK, Ops
  <2> QED
    BY <1>0, <2>1, JournalStays DEF PruneOK, Stages
<1> QED
  BY <1>1, <1>2, <1>3 DEF PruneOK, JournalPcs, Stages

LEMMA StagingStays ==
  ASSUME IInv, Moves, TypeOK', NEW u \in Threads, thr'[u] = thr[u]
  PROVE  StagingOK(u)'
<1> SUFFICES ASSUME thr[u].kind = "stage", thr[u].pc # "open"
             PROVE  StagingOK(u)'
  BY DEF StagingOK
<1> DEFINE o == thr[u].obj
<1>0. StagingOK(u) /\ PlaceOK(u)
  BY DEF IInv, ThreadOK
<1>1. o \in Objects /\ obj[o].art = thr[u].art /\ thr[u].art \in Artifacts /\ thr[u].pc \in StagePcs /\ Staged(o)
  BY <1>0 DEF PlaceOK, StagingOK, IInv, TypeOK, ThreadRecord, Objects, Staged
<1>2. ~ WorkerMoves(o)
  BY OneStaging, StageIsStage, <1>1 DEF WorkerMoves
<1>3. ObjectMoves(o) /\ RowMoves(obj[o].art) /\ raced \subseteq raced'
  BY <1>1 DEF Moves
<1>4. obj'[o].art = obj[o].art /\ obj'[o].cap = obj[o].cap /\ obj[o].loc # "none" /\ obj[o].art # NoArtifact
  BY <1>1, <1>3, ArtifactAssumption DEF ObjectMoves, IInv, FilesOK, ObjectOK
<1>5. /\ obj[o].loc = "part" => obj'[o].loc = "part"
      /\ obj[o].intent = "none" => obj'[o].intent = "none" /\ obj'[o].loc = obj[o].loc
      /\ TxnOrder(obj[o].txn, obj'[o].txn)
      /\ obj'[o].loc = "temp" /\ obj[o].intent = "live" => obj'[o].intent = "live"
      /\ obj'[o].loc = "out" /\ obj[o].intent = "live" /\ obj'[o].intent # "live" => row[obj[o].art].obj = o
      /\ obj[o].loc # "out" /\ obj'[o].loc = "out" => Exempt(o)
  BY <1>1, <1>2, <1>3, <1>4 DEF ObjectMoves
<1>6. obj'[o].loc = "temp" => obj[o].loc = "temp"
  BY <1>1, <1>3, <1>4, <1>5 DEF ObjectMoves, IInv, TypeOK, ObjectRecord, Places
<1>7. row[obj[o].art].obj = o => row'[obj'[o].art].obj = o
  <2>1. row[obj[o].art].obj = o => row[obj[o].art].state # "absent"
    BY <1>1 DEF IInv, FilesOK, RowOK, Objects
  <2> QED
    BY <1>3, <1>4, <2>1 DEF RowMoves
<1>8. Exempt(o) => Exempt(o)'
  BY <1>3, <1>4 DEF Exempt
<1>9. obj[o].loc = "out" => obj'[o].loc = "out"
  BY <1>3 DEF ObjectMoves
<1> QED
  BY <1>0, <1>1, <1>4, <1>5, <1>6, <1>7, <1>8, <1>9 DEF StagingOK, TxnOrder, Unpublished

LEMMA ReconcileStays ==
  ASSUME IInv, Moves, TypeOK', NEW u \in Threads, thr'[u] = thr[u]
  PROVE  ReconcileOK(u)'
<1> SUFFICES ASSUME thr[u].pc \in Reconciling
             PROVE  ReconcileOK(u)'
  BY DEF ReconcileOK
<1> DEFINE o == thr[u].obj
<1>0. ReconcileOK(u) /\ PlaceOK(u)
  BY DEF IInv, ThreadOK
<1>1. o \in Objects /\ obj[o].art \in Artifacts /\ obj[o].intent # "none"
  BY <1>0 DEF PlaceOK, ReconcileOK, IInv, TypeOK, ThreadRecord, Objects
<1>2. ObjectMoves(o) /\ RowMoves(obj[o].art) /\ raced \subseteq raced' /\ obj[o].art # NoArtifact
  BY <1>1, ArtifactAssumption DEF Moves
<1>3. obj'[o].art = obj[o].art /\ obj'[o].cap = obj[o].cap /\ obj'[o].intent # "none"
  BY <1>1, <1>2 DEF ObjectMoves
<1>4. obj'[o].loc = "temp" => obj[o].loc = "temp"
  BY <1>1, <1>2 DEF ObjectMoves, IInv, FilesOK, ObjectOK
<1>5. obj'[o].loc = "temp" /\ obj[o].intent = "live" /\ obj'[o].intent # "live" => Staged(o)
  BY <1>2 DEF ObjectMoves
<1>6. row[obj[o].art].obj = o => row'[obj'[o].art].obj = o
  <2>1. row[obj[o].art].obj = o => row[obj[o].art].state # "absent"
    BY <1>1 DEF IInv, FilesOK, RowOK, Objects
  <2> QED
    BY <1>2, <1>3, <2>1 DEF RowMoves
<1>7. ASSUME Staged(o)' PROVE Staged(o)
  <2>1. PICK w \in Threads : thr'[w].kind = "stage" /\ thr'[w].obj = o
    BY <1>7 DEF Staged
  <2>2. thr[w].kind = "stage" /\ thr[w].obj = o
    BY <1>1, <1>2, <2>1 DEF Moves, Objects
  <2> QED
    BY <2>2 DEF Staged
<1>8. (obj[o].loc = "out" => obj'[o].loc = "out") /\ (obj[o].loc = "dead" => obj'[o].loc = "dead")
  BY <1>2 DEF ObjectMoves
<1> QED
  BY <1>0, <1>1, <1>2, <1>3, <1>4, <1>5, <1>6, <1>7, <1>8 DEF ReconcileOK

\* Nothing of an artifact becomes publishable but what its worker makes.
LEMMA OnlyStays ==
  ASSUME IInv, Moves, NEW a, NEW o, Only(a, o),
         \A p \in Objects : Working(p) => p = o
  PROVE  Only(a, o)'
BY NewlyPublishable DEF Only

LEMMA FreshStays ==
  ASSUME IInv, Moves, NEW u \in Threads, thr'[u] = thr[u]
  PROVE  FreshOK(u)'
<1> SUFFICES ASSUME thr[u].pc \in Unpublished \cup {"open"}
             PROVE  Only(thr[u].art, thr[u].obj)'
  BY DEF FreshOK
<1>1. Only(thr[u].art, thr[u].obj)
  BY DEF IInv, ThreadOK, FreshOK
<1>2. thr[u].kind = "stage"
  BY StageIsStage DEF StagePcs
<1>3. ASSUME NEW p \in Objects, Working(p) PROVE p = thr[u].obj
  BY <1>2, <1>3, OneStaging, StageIsStage DEF Working, StagePcs
<1> QED
  BY <1>1, <1>3, OnlyStays DEF Only

LEMMA PreflightStays ==
  ASSUME IInv, Moves, TypeOK', NEW u \in Threads, thr'[u] = thr[u]
  PROVE  PreflightOK(u)'
<1> SUFFICES ASSUME thr[u].kind = "preflight", ~ thr[u].bad, row'[thr[u].art].state = "absent",
                    NEW p \in Objects, obj'[p].art = thr[u].art, Publishable(p)', ~ Exempt(p)'
             PROVE  p \in thr[u].todo \/ (thr[u].obj = p /\ thr[u].pc \in {"publish", "queue"})
  BY DEF PreflightOK
<1>0. PreflightOK(u) /\ PlaceOK(u)
  BY DEF IInv, ThreadOK
<1>1. u \in Workers /\ thr[u].art \in Artifacts /\ Unfinished(u)
  BY <1>0 DEF PlaceOK, IntentPcs, Unfinished
<1>2. row[thr[u].art].state = "absent"
  BY <1>1 DEF Moves, RowMoves
<1>3. obj'[p].art = obj[p].art /\ (Publishable(p) \/ Working(p)) /\ ~ Exempt(p)
  BY NewlyPublishable
<1>4. ~ Working(p)
  BY <1>1, OneStaging, StageIsStage DEF Working, StagePcs
<1> QED
  BY <1>0, <1>2, <1>3, <1>4 DEF PreflightOK

LEMMA ThreadStays ==
  ASSUME IInv, Moves, TypeOK', NEW u \in Threads, thr'[u] = thr[u],
         thr[u].kind = "startup" /\ u \in Workers => svc' = "starting"
  PROVE  ThreadOK(u)'
<1>1. PlaceOK(u)'
  BY DEF IInv, ThreadOK, PlaceOK
<1> QED
  BY <1>1, PruneStays, StagingStays, ReconcileStays, FreshStays, PreflightStays DEF ThreadOK

\* What the call knows of a worker that does not move.
LEMMA CallStays ==
  ASSUME IInv, Moves, TypeOK', call' = call, thr'[call.w] = thr[call.w]
  PROVE  CallOK'
<1>1. ASSUME call.art \in Artifacts, row[call.art].state # "absent" PROVE row'[call.art].state # "absent"
  BY <1>1 DEF Moves, RowMoves
<1>2. ASSUME call.pc = "preflight", At(call.w, "done"), thr[call.w].res = "missing"
      PROVE  Only(call.art, 0)'
  <2>1. ASSUME NEW p \in Objects, Working(p) PROVE p = 0
    BY <1>2, <2>1, StageIsStage DEF Working, StagePcs, IInv, ServiceOK, At, Unfinished
  <2>2. Only(call.art, 0)
    BY <1>2 DEF IInv, CallOK
  <2> QED
    BY <2>1, <2>2, OnlyStays
<1> QED
  BY <1>1, <1>2 DEF IInv, CallOK, At, Unfinished, Only

\* A worker's result, against what its call asked for.
ResultOK(t) ==
  /\ thr'[t].pc = "done"
  /\ thr'[t].res \in {"found", "staged"} => row'[thr[t].art].state # "absent"
  /\ thr[t].kind = "preflight" /\ thr'[t].res = "missing" => \A a \in Artifacts : a = thr[t].art => Only(a, 0)'

\* A step of a thread keeps the invariant when it keeps what is known of that thread.
LEMMA StepKeeps ==
  ASSUME IInv, Moves, TypeOK', NEW t \in Threads, t \in Workers => Unfinished(t),
         \A u \in Threads : u # t => thr'[u] = thr[u], UNCHANGED <<call, svc>>,
         ThreadOK(t)',
         t \in Workers =>
           ResultOK(t) \/ (thr'[t].kind = thr[t].kind /\ thr'[t].art = thr[t].art /\ Unfinished(t)')
  PROVE  IInv'
<1>1. FilesOK'
  BY FilesStay
<1>2. ASSUME NEW u \in Threads PROVE ThreadOK(u)'
  <2>1. u # t => thr'[u] = thr[u] /\ (thr[u].kind = "startup" /\ u \in Workers => svc' = "starting")
    BY DEF IInv, ThreadOK, PlaceOK
  <2> QED
    BY <2>1, ThreadStays
<1>3. \A w \in Workers : Unfinished(w)' => Unfinished(w)
  BY DEF Unfinished, Threads
<1>4. ServiceOK'
  BY <1>3 DEF IInv, ServiceOK, OneWorker, Workers
<1>5. ASSUME call.w # t PROVE CallOK'
  <2>1. call.w \in Threads /\ call' = call
    BY DEF IInv, TypeOK, Threads
  <2>2. thr'[call.w] = thr[call.w]
    BY <1>5, <2>1
  <2> QED
    BY <2>1, <2>2, CallStays
<1>6. ASSUME call.w = t PROVE CallOK'
  <2>1. t \in Workers /\ call' = call
    BY <1>6 DEF IInv, TypeOK
  <2>2. ASSUME call.art \in Artifacts, row[call.art].state # "absent" PROVE row'[call.art].state # "absent"
    BY <2>2 DEF Moves, RowMoves
  <2>3. ASSUME call.pc # "idle" 
        PROVE  /\ call.art \in Artifacts /\ thr[t].art = call.art
               /\ call.pc \in {"preflight", "stopping"} => thr[t].kind = "preflight"
               /\ call.pc \in {"staging", "cancelling"} => thr[t].kind = "stage"
               /\ call.pc = "recovering" => thr[t].kind = "recovery"
    BY <1>6, <2>1, <2>3 DEF IInv, CallOK
  <2>4. CASE ResultOK(t)
    <3>1. thr'[t].pc = "done"
      BY <2>4 DEF ResultOK
    <3>2. call.pc # "idle" /\ thr'[t].res \in {"found", "staged"} => row'[call.art].state # "absent"
      BY <2>3, <2>4 DEF ResultOK
    <3>3. call.pc = "preflight" /\ thr'[t].res = "missing" => Only(call.art, 0)'
      BY <2>1, <2>3, <2>4 DEF ResultOK, Only
    <3> QED
      BY <1>6, <2>1, <2>2, <2>3, <3>1, <3>2, <3>3 DEF IInv, CallOK, Unfinished, At
  <2>5. CASE thr'[t].kind = thr[t].kind /\ thr'[t].art = thr[t].art /\ Unfinished(t)'
    BY <1>6, <2>1, <2>2, <2>3, <2>5 DEF IInv, CallOK, Unfinished, At
  <2> QED
    BY <2>1, <2>4, <2>5
<1> QED
  BY <1>1, <1>2, <1>4, <1>5, <1>6 DEF IInv

-----------------------------------------------------------------------------
(* The steps of the prune journal *)

PrunePcs == {"ops", "select", "prepare", "intents"} \cup JournalPcs

LEMMA NextOpType ==
  ASSUME NEW t
  PROVE  NextOp(t) = IF thr[t].kind = "prune" THEN "select" ELSE "ops"
BY DEF NextOp

\* Which thread runs the journal.
LEMMA JournalThread ==
  ASSUME IInv, NEW t \in Threads, thr[t].pc \in {"ops", "select", "prepare"} \cup JournalPcs
  PROVE  /\ thr[t].kind \in {"startup", "prune"} /\ Unfinished(t)
         /\ thr[t].pc = "ops" => thr[t].kind = "startup"
         /\ thr[t].pc \in {"select", "prepare"} => thr[t].kind = "prune" /\ t = "cli"
         /\ thr[t].kind = "prune" => t = "cli"
         /\ PlaceOK(t) /\ PruneOK(t)
         /\ thr[t] \in ThreadRecord
         /\ thr[t].kind = "startup" /\ t \in Workers => svc = "starting"
<1>1. PlaceOK(t) /\ PruneOK(t) /\ thr[t] \in ThreadRecord
  BY DEF IInv, ThreadOK, TypeOK
<1>2. thr[t].kind \in Kinds
  BY <1>1 DEF ThreadRecord
<1> QED
  BY <1>1, <1>2 DEF PlaceOK, Kinds, JournalPcs, Stages, StagePcs, Unpublished, IntentPcs, Unfinished

LEMMA JournalStep ==
  ASSUME IInv, Moves, TypeOK', NEW t \in Threads,
         thr[t].pc \in {"ops", "select", "prepare"} \cup JournalPcs,
         \A u \in Threads : u # t => thr'[u] = thr[u], UNCHANGED <<call, svc>>,
         thr'[t].kind = thr[t].kind, thr'[t].art = thr[t].art, thr'[t].pc \in PrunePcs,
         PlaceOK(t)', PruneOK(t)'
  PROVE  IInv'
<1>1. thr[t].kind \in {"startup", "prune"} /\ Unfinished(t)
  BY JournalThread
<1>2. /\ thr'[t].pc \notin Reconciling \cup StagePcs \cup Unpublished \cup {"open"}
      /\ thr'[t].pc \notin {"idle", "done"}
  BY DEF PrunePcs, JournalPcs, Stages, Reconciling, IntentPcs, StagePcs, Unpublished
<1>3. StagingOK(t)' /\ ReconcileOK(t)' /\ FreshOK(t)' /\ PreflightOK(t)'
  BY <1>1, <1>2 DEF StagingOK, ReconcileOK, FreshOK, PreflightOK
<1>4. ThreadOK(t)' /\ Unfinished(t)'
  BY <1>2, <1>3 DEF ThreadOK, Unfinished
<1> QED
  BY <1>1, <1>4, StepKeeps

\* Where a thread of the journal may go.
LEMMA JournalPlace ==
  ASSUME IInv, NEW t \in Threads, thr[t].pc \in {"ops", "select", "prepare"} \cup JournalPcs,
         thr'[t].kind = thr[t].kind, thr'[t].art = thr[t].art, svc' = svc,
         \/ thr'[t].pc = NextOp(t)
         \/ thr[t].kind = "prune" /\ thr'[t].pc = "prepare" /\ thr'[t].op \in Ops
         \/ thr[t].kind = "startup" /\ thr'[t].pc = "intents"
         \/ thr'[t].pc \in JournalPcs /\ thr'[t].op \in Ops
  PROVE  PlaceOK(t)' /\ thr'[t].pc \in PrunePcs
<1>1. /\ thr[t].kind \in {"startup", "prune"} /\ (thr[t].kind = "prune" => t = "cli")
      /\ thr[t].kind = "startup" /\ t \in Workers => svc = "starting"
  BY JournalThread
<1>2. thr'[t].pc \in PrunePcs
  BY NextOpType DEF PrunePcs
<1> QED
  BY <1>1, <1>2, NextOpType
     DEF PlaceOK, PrunePcs, JournalPcs, Stages, Reconciling, IntentPcs, StagePcs, Unpublished

\* A step of the journal is none of a worker that stages.
LEMMA JournalSame ==
  ASSUME IInv, NEW t \in Threads, thr[t].pc \in {"ops", "select", "prepare"} \cup JournalPcs,
         \A u \in Threads : u # t => thr'[u] = thr[u], thr'[t].kind = thr[t].kind, raced' = raced
  PROVE  SameStaging
BY JournalThread DEF SameStaging

LEMMA RecoveryStepType ==
  ASSUME NEW k
  PROVE  RecoveryStep(k) \in {"ops", "conflict", "MANUAL_RECOVERY_REQUIRED", "retire", "update",
                              "QUARANTINED", "quarantine"}
BY DEF RecoveryStep

\* What recovery reads is what its next step needs.
LEMMA RecoveryStepSound ==
  ASSUME IInv, NEW k \in Ops, RecoveryStep(k) # "ops"
  PROVE  /\ Journalled(k)
         /\ RecoveryStep(k) = "quarantine" => Committed(k, "PREPARED")
         /\ RecoveryStep(k) \in {"QUARANTINED", "update"} => obj[op[k].obj].name = k
         /\ RecoveryStep(k) = "retire" => RowOf(k).path = k
<1>1. op[k].active = "active" /\ ~ \E s \in Stages : op[k].ev[s] = "torn"
  BY DEF RecoveryStep
<1>2. Journalled(k)
  BY <1>1 DEF Journalled
<1>3. RecoveryStep(k) = "quarantine" => Committed(k, "PREPARED")
  BY DEF RecoveryStep
<1>4. RecoveryStep(k) \in {"QUARANTINED", "update"} => obj[op[k].obj].name = k
  BY DEF RecoveryStep
<1>5. RecoveryStep(k) = "retire" => Committed(k, "SQLITE_UPDATED")
  BY DEF RecoveryStep
<1> QED
  BY <1>2, <1>3, <1>4, <1>5 DEF IInv, FilesOK, JournalOK

LEMMA RecoverOpKeeps ==
  ASSUME IInv, NEW t \in Threads, RecoverOp(t)
  PROVE  IInv'
<1>0. thr[t].pc = "ops" /\ UNCHANGED <<obj, row, op, call, svc, faults, raced>>
  BY DEF RecoverOp, At
<1>1. PICK k \in thr[t].ops :
        thr' = [thr EXCEPT ![t].ops = @ \ {k}, ![t].op = k, ![t].pc = RecoveryStep(k)]
  BY DEF RecoverOp
<1>2. /\ thr[t].kind = "startup" /\ thr[t] \in ThreadRecord /\ thr \in [Threads -> ThreadRecord]
      /\ PruneOK(t) /\ k \in Ops
  BY <1>0, JournalThread DEF IInv, TypeOK, ThreadRecord
<1>3. /\ thr'[t].pc = RecoveryStep(k) /\ thr'[t].op = k /\ thr'[t].arts = thr[t].arts
      /\ thr'[t].kind = thr[t].kind /\ thr'[t].art = thr[t].art
      /\ \A u \in Threads : u # t => thr'[u] = thr[u]
  BY <1>1, <1>2 DEF ThreadRecord
<1>4. TypeOK'
  <2>1. thr'[t] \in ThreadRecord
    <3>1. RecoveryStep(k) \in Steps /\ k \in 0..MaxOps /\ thr[t].ops \ {k} \in SUBSET Ops
      BY <1>2, RecoveryStepType DEF ThreadRecord, Steps, Ops
    <3> QED
      BY <1>1, <1>2, <3>1 DEF ThreadRecord
  <2> QED
    BY <1>0, <1>1, <1>2, <2>1 DEF IInv, TypeOK
<1>5. Moves
  BY <1>0, <1>3, JournalSame, Unchanged
<1>6. PlaceOK(t)' /\ thr'[t].pc \in PrunePcs
  BY <1>0, <1>2, <1>3, JournalPlace, RecoveryStepType, NextOpType DEF JournalPcs, Stages
<1>7. PruneOK(t)'
  BY <1>0, <1>2, <1>3, RecoveryStepSound, RecoveryStepType
     DEF PruneOK, JournalPcs, Stages, Journalled, Committed, RowOf
<1> QED
  BY <1>0, <1>3, <1>4, <1>5, <1>6, <1>7, JournalStep

LEMMA OpsDoneKeeps ==
  ASSUME IInv, NEW t \in Threads, OpsDone(t)
  PROVE  IInv'
<1>0. /\ thr[t].pc = "ops" /\ UNCHANGED <<obj, row, op, call, svc, faults, raced>>
      /\ thr' = [thr EXCEPT ![t].pc = "intents", ![t].todo = Intents, ![t].seen = Entries]
  BY DEF OpsDone, At
<1>2. /\ thr[t].kind = "startup" /\ thr[t] \in ThreadRecord /\ thr \in [Threads -> ThreadRecord]
      /\ PruneOK(t)
  BY <1>0, JournalThread DEF IInv, TypeOK
<1>3. /\ thr'[t].pc = "intents" /\ thr'[t].arts = thr[t].arts
      /\ thr'[t].kind = thr[t].kind /\ thr'[t].art = thr[t].art
      /\ \A u \in Threads : u # t => thr'[u] = thr[u]
  BY <1>0, <1>2 DEF ThreadRecord
<1>4. TypeOK'
  <2>1. thr'[t] \in ThreadRecord
    BY <1>0, <1>2 DEF ThreadRecord, Steps, Intents, Entries
  <2> QED
    BY <1>0, <1>2, <2>1 DEF IInv, TypeOK
<1>5. Moves
  BY <1>0, <1>3, JournalSame, Unchanged
<1>6. PlaceOK(t)' /\ thr'[t].pc \in PrunePcs
  BY <1>0, <1>2, <1>3, JournalPlace
<1>7. PruneOK(t)'
  BY <1>0, <1>2, <1>3 DEF PruneOK, JournalPcs, Stages
<1> QED
  BY <1>0, <1>3, <1>4, <1>5, <1>6, <1>7, JournalStep

\* A row that is confirmed names a copy that a prune operation may be bound to.
LEMMA ConfirmedRow ==
  ASSUME IInv, NEW a \in Artifacts, row[a].state = "confirmed"
  PROVE  row[a].obj \in Objects /\ Confirmed(row[a].obj) /\ obj[row[a].obj].art = a
<1>1. row[a].obj \in Objects
  BY DEF IInv, TypeOK, RowRecord, FilesOK, RowOK, Objects
<1> QED
  BY <1>1 DEF IInv, FilesOK, RowOK, Confirmed, Objects

LEMMA SelectRowKeeps ==
  ASSUME IInv, NEW t \in Threads, SelectRow(t)
  PROVE  IInv'
<1>0. thr[t].pc = "select" /\ UNCHANGED <<obj, row, op, call, svc, faults, raced>>
  BY DEF SelectRow, At
<1>1. PICK a \in thr[t].arts, k \in Ops :
        /\ op[k].active = "none"
        /\ thr' = [thr EXCEPT
             ![t].arts = @ \ {a}, ![t].op = k, ![t].obj = row[a].obj,
             ![t].pc = IF RowFileExists(a) /\ row[a].path = 0 THEN "prepare" ELSE "select"]
  BY DEF SelectRow
<1>2. /\ thr[t].kind = "prune" /\ t = "cli" /\ thr[t] \in ThreadRecord
      /\ thr \in [Threads -> ThreadRecord] /\ PruneOK(t)
      /\ a \in Artifacts /\ row[a].state = "confirmed"
  BY <1>0, JournalThread DEF IInv, TypeOK, ThreadRecord, PruneOK
<1>3. /\ thr'[t].pc \in {"prepare", "select"} /\ thr'[t].op = k /\ thr'[t].arts = thr[t].arts \ {a}
      /\ thr'[t].obj = row[a].obj
      /\ thr'[t].kind = thr[t].kind /\ thr'[t].art = thr[t].art
      /\ \A u \in Threads : u # t => thr'[u] = thr[u]
  BY <1>1, <1>2 DEF ThreadRecord
<1>a. row[a].obj \in Objects /\ Confirmed(row[a].obj)
  BY <1>2, ConfirmedRow
<1>4. TypeOK'
  <2>1. thr'[t] \in ThreadRecord
    <3>1. /\ thr'[t].pc \in Steps /\ k \in 0..MaxOps /\ thr[t].arts \ {a} \in SUBSET Artifacts
          /\ row[a].obj \in 0..MaxObjects
      BY <1>2, <1>3, <1>a DEF ThreadRecord, Steps, Ops, Objects
    <3> QED
      BY <1>1, <1>2, <1>3, <3>1 DEF ThreadRecord
  <2> QED
    BY <1>0, <1>1, <1>2, <2>1 DEF IInv, TypeOK
<1>5. Moves
  BY <1>0, <1>3, JournalSame, Unchanged
<1>6. PlaceOK(t)' /\ thr'[t].pc \in PrunePcs
  BY <1>0, <1>2, <1>3, JournalPlace, NextOpType
<1>7. PruneOK(t)'
  <2>1. \A b \in thr'[t].arts : row'[b].state = "confirmed"
    BY <1>0, <1>2, <1>3 DEF PruneOK
  <2>2. op'[thr'[t].op].active = "none" /\ thr'[t].obj # 0
    <3>1. op[k].active = "none" /\ op' = op /\ row[a].obj # 0
      BY <1>0, <1>1, <1>a DEF Objects
    <3> QED
      BY <1>3, <3>1
  <2>4. Confirmed(row[a].obj)'
    BY <1>0, <1>a DEF Confirmed
  <2>3. thr'[t].pc \notin JournalPcs
    BY <1>3 DEF JournalPcs, Stages
  <2> QED
    BY <1>0, <1>3, <2>1, <2>2, <2>3, <2>4 DEF PruneOK, Confirmed, JournalPcs, Stages
<1> QED
  BY <1>0, <1>3, <1>4, <1>5, <1>6, <1>7, JournalStep

\* A thread that is idle or done knows nothing.
LEMMA QuietThread ==
  ASSUME NEW t \in Threads, thr'[t].kind = "idle", thr'[t].pc \in {"idle", "done"},
         thr'[t].arts = {}, t = "cli" => thr'[t].pc = "idle"
  PROVE  ThreadOK(t)'
BY DEF ThreadOK, PlaceOK, PruneOK, StagingOK, ReconcileOK, FreshOK, PreflightOK, JournalPcs, Stages,
       Reconciling, IntentPcs, StagePcs, Unpublished

LEMMA IdleType == IdleThread \in ThreadRecord
BY ArtifactAssumption DEF IdleThread, ThreadRecord, Kinds, Steps, Results

LEMMA PruneDoneKeeps ==
  ASSUME IInv, NEW t \in Threads, PruneDone(t)
  PROVE  IInv'
<1>0. /\ thr[t].pc = "select" /\ UNCHANGED <<obj, row, op, call, svc, faults, raced>>
      /\ thr' = [thr EXCEPT ![t] = IdleThread]
  BY DEF PruneDone, At
<1>2. t = "cli" /\ Unfinished(t) /\ thr \in [Threads -> ThreadRecord] /\ thr[t].kind = "prune"
  BY <1>0, JournalThread DEF IInv, TypeOK
<1>3. thr'[t] = IdleThread /\ \A u \in Threads : u # t => thr'[u] = thr[u]
  BY <1>0, <1>2
<1>4. TypeOK'
  BY <1>0, <1>2, IdleType DEF IInv, TypeOK
<1>5. SameStaging
  BY <1>0, <1>3 DEF SameStaging, IdleThread
<1>6. Moves
  BY <1>0, <1>5, Unchanged
<1>7. ThreadOK(t)'
  BY <1>3, QuietThread DEF IdleThread
<1> QED
  BY <1>0, <1>2, <1>3, <1>4, <1>6, <1>7, StepKeeps DEF Workers

LEMMA CreateActiveKeeps ==
  ASSUME IInv, NEW t \in Threads, CreateActive(t)
  PROVE  IInv'
<1> DEFINE k == thr[t].op
<1>0. /\ thr[t].pc = "prepare" /\ UNCHANGED <<obj, row, call, svc, faults, raced>>
      /\ op' = [op EXCEPT ![k] = NewOperation(thr[t].obj)]
      /\ thr' = [thr EXCEPT ![t].pc = "PREPARED"]
  BY DEF CreateActive, At, Goto
<1>2. /\ thr[t].kind = "prune" /\ t = "cli" /\ thr[t] \in ThreadRecord
      /\ thr \in [Threads -> ThreadRecord] /\ PruneOK(t) /\ PlaceOK(t)
      /\ op \in [Ops -> OpRecord]
  BY <1>0, JournalThread DEF IInv, TypeOK
<1>3. /\ thr'[t].pc = "PREPARED" /\ thr'[t].op = k /\ thr'[t].arts = thr[t].arts
      /\ thr'[t].kind = thr[t].kind /\ thr'[t].art = thr[t].art
      /\ \A u \in Threads : u # t => thr'[u] = thr[u]
      /\ thr'["cli"] # thr["cli"]
  BY <1>0, <1>2 DEF ThreadRecord
<1>a. /\ k \in Ops /\ op[k].active = "none" /\ thr[t].obj \in Objects /\ Confirmed(thr[t].obj)
      /\ op'[k] = NewOperation(thr[t].obj)
      /\ \A j \in Ops : j # k => op'[j] = op[j]
  BY <1>0, <1>2 DEF PruneOK, PlaceOK, ThreadRecord, Objects
<1>4. TypeOK'
  <2>1. NewOperation(thr[t].obj) \in OpRecord
    BY <1>2 DEF NewOperation, OpRecord, ThreadRecord
  <2>2. thr'[t] \in ThreadRecord
    BY <1>0, <1>2 DEF ThreadRecord, Steps
  <2> QED
    BY <1>0, <1>2, <2>1, <2>2 DEF IInv, TypeOK
<1>5. Moves
  <2>1. OpMoves(k)
    BY <1>a, <1>3 DEF OpMoves, Journalled, Committed, NewOperation, Stages
  <2>2. SameStaging
    BY <1>0, <1>3, JournalSame
  <2> QED
    BY <1>0, <1>a, <2>1, <2>2, OneOp
<1>6. PlaceOK(t)' /\ thr'[t].pc \in PrunePcs
  BY <1>0, <1>2, <1>3, <1>a, JournalPlace DEF JournalPcs, Stages
<1>7. PruneOK(t)'
  <2>1. op'[k].active = "active"
    BY <1>a DEF NewOperation
  <2> QED
    BY <1>0, <1>2, <1>3, <2>1 DEF PruneOK, JournalPcs, Stages, Journalled
<1> QED
  BY <1>0, <1>3, <1>4, <1>5, <1>6, <1>7, JournalStep DEF JournalPcs

\* A journal step that only moves its thread, to the next operation.
LEMMA NextOpKeeps ==
  ASSUME IInv, NEW t \in Threads, thr[t].pc \in {"prepare"} \cup JournalPcs, Goto(t, NextOp(t)),
         UNCHANGED <<obj, row, op, call, svc, raced>>, TypeOK'
  PROVE  IInv'
<1>2. /\ thr[t] \in ThreadRecord /\ thr \in [Threads -> ThreadRecord] /\ PruneOK(t)
  BY JournalThread DEF IInv, TypeOK
<1>3. /\ thr'[t].pc = NextOp(t) /\ thr'[t].arts = thr[t].arts
      /\ thr'[t].kind = thr[t].kind /\ thr'[t].art = thr[t].art
      /\ \A u \in Threads : u # t => thr'[u] = thr[u]
  BY <1>2 DEF ThreadRecord, Goto
<1>5. Moves
  BY <1>3, JournalSame, Unchanged
<1>6. PlaceOK(t)' /\ thr'[t].pc \in PrunePcs
  BY <1>3, JournalPlace
<1>7. PruneOK(t)'
  BY <1>2, <1>3, NextOpType DEF PruneOK, JournalPcs, Stages
<1> QED
  BY <1>3, <1>5, <1>6, <1>7, JournalStep

LEMMA GotoType ==
  ASSUME IInv, NEW t \in Threads, NEW pc \in Steps, Goto(t, pc)
  PROVE  thr' \in [Threads -> ThreadRecord]
<1>1. thr \in [Threads -> ThreadRecord] /\ thr[t] \in ThreadRecord
  BY DEF IInv, TypeOK
<1>2. [thr[t] EXCEPT !.pc = pc] \in ThreadRecord
  BY <1>1 DEF ThreadRecord
<1> QED
  BY <1>1, <1>2 DEF Goto

\* What a thread in the journal knows of its operation.
LEMMA JournalKnows ==
  ASSUME IInv, NEW t \in Threads, thr[t].pc \in JournalPcs
  PROVE  /\ thr[t].op \in Ops /\ thr[t].op # 0 /\ Journalled(thr[t].op)
         /\ op[thr[t].op].obj \in Objects /\ obj[op[thr[t].op].obj].art \in Artifacts
         /\ Confirmed(op[thr[t].op].obj)
<1>1. thr[t].op \in Ops /\ thr[t].op # 0 /\ Journalled(thr[t].op)
  BY JournalThread DEF PlaceOK, PruneOK, Ops
<1>2. op[thr[t].op].obj # 0 /\ Confirmed(op[thr[t].op].obj)
  BY <1>1 DEF IInv, FilesOK, JournalOK
<1>3. op[thr[t].op].obj \in Objects
  BY <1>1, <1>2 DEF IInv, TypeOK, OpRecord, Objects
<1> QED
  BY <1>1, <1>2, <1>3 DEF Confirmed

\* A journal step that goes on with its operation.
LEMMA GoesOn ==
  ASSUME IInv, Moves, TypeOK', NEW t \in Threads, thr[t].pc \in JournalPcs,
         NEW pc \in JournalPcs, Goto(t, pc), UNCHANGED <<call, svc>>,
         NEW k, k = thr[t].op,
         pc = "quarantine" => Committed(k, "PREPARED")',
         pc \in {"QUARANTINED", "update"} => obj'[op[k].obj].name = k,
         pc \in {"SQLITE_UPDATED", "retire"} => row'[obj[op[k].obj].art].path = k
  PROVE  IInv'
<1>1. /\ thr[t] \in ThreadRecord /\ thr \in [Threads -> ThreadRecord] /\ PruneOK(t)
  BY JournalThread DEF IInv, TypeOK
<1>2. /\ thr'[t].pc = pc /\ thr'[t].arts = thr[t].arts /\ thr'[t].op = k
      /\ thr'[t].kind = thr[t].kind /\ thr'[t].art = thr[t].art
      /\ \A u \in Threads : u # t => thr'[u] = thr[u]
  BY <1>1 DEF ThreadRecord, Goto
<1>3. k \in Ops /\ Journalled(k) /\ op[k].obj \in Objects
  BY JournalKnows
<1>4. /\ Journalled(k)' /\ op'[k].obj = op[k].obj
      /\ obj'[op[k].obj].art = obj[op[k].obj].art
  BY <1>3, JournalStays
<1>5. PlaceOK(t)' /\ thr'[t].pc \in PrunePcs
  BY <1>2, <1>3, JournalPlace
<1>6. \A a \in thr'[t].arts : row'[a].state = "confirmed"
  BY <1>1, <1>2 DEF PruneOK, Moves, RowMoves, ThreadRecord
<1>7. PruneOK(t)'
  BY <1>2, <1>4, <1>6 DEF PruneOK, JournalPcs, Stages, RowOf
<1> QED
  BY <1>2, <1>5, <1>7, JournalStep

LEMMA AppendEventKeeps ==
  ASSUME IInv, NEW t \in Threads, AppendEvent(t)
  PROVE  IInv'
<1>k. PICK k, s : k = thr[t].op /\ s = thr[t].pc
  OBVIOUS
<1>0. s \in Stages /\ s \in JournalPcs /\ UNCHANGED <<obj, row, call, svc, faults, raced>>
  BY <1>k DEF AppendEvent, JournalPcs
<1>1. /\ k \in Ops /\ Journalled(k) /\ op \in [Ops -> OpRecord] /\ op[k] \in OpRecord /\ PruneOK(t)
      /\ thr \in [Threads -> ThreadRecord]
  BY <1>k, <1>0, JournalKnows, JournalThread DEF IInv, TypeOK
<1>2. CASE event_guard(t) /\ op[k].ev[s] = "none"
  <2>1. op' = [op EXCEPT ![k].ev[s] = "ok"] /\ Goto(t, AfterEvent(s))
    BY <1>k, <1>2 DEF AppendEvent, _write_prune_event
  <2>2. AfterEvent(s) \in JournalPcs /\ AfterEvent(s) \in Steps
    BY <1>0 DEF AfterEvent, Stages, JournalPcs, Steps
  <2>3. /\ op'[k].obj = op[k].obj /\ op'[k].active = op[k].active
        /\ op'[k].ev = [op[k].ev EXCEPT ![s] = "ok"]
        /\ \A j \in Ops : j # k => op'[j] = op[j]
        /\ op' \in [Ops -> OpRecord]
    BY <1>0, <1>1, <2>1 DEF OpRecord
  <2>4. \A r \in Stages : op'[k].ev[r] = IF r = s THEN "ok" ELSE op[k].ev[r]
    BY <1>0, <1>1, <2>3 DEF OpRecord
  <2>5. TypeOK'
    BY <1>0, <2>1, <2>2, <2>3, GotoType DEF IInv, TypeOK
  <2>6. /\ s = "QUARANTINED" => obj[op[k].obj].name = k
        /\ s = "SQLITE_UPDATED" => RowOf(k).path = k
    BY <1>k, <1>1 DEF PruneOK
  <2>7. OpMoves(k)
    BY <1>0, <1>1, <2>3, <2>4, <2>6 DEF OpMoves, Journalled, Committed, Stages
  <2>8. SameStaging
    <3>1. (\A u \in Threads : u # t => thr'[u] = thr[u]) /\ thr'[t].kind = thr[t].kind
      BY <1>1, <2>1 DEF Goto, ThreadRecord
    <3> QED
      BY <1>k, <1>0, <3>1, JournalSame
  <2>9. Moves
    BY <1>0, <1>1, <2>3, <2>7, <2>8, OneOp
  <2>10. /\ AfterEvent(s) = "quarantine" => s = "PREPARED"
         /\ AfterEvent(s) \in {"QUARANTINED", "update"} => s = "QUARANTINED"
         /\ AfterEvent(s) \in {"SQLITE_UPDATED", "retire"} => s = "SQLITE_UPDATED"
    BY <1>0 DEF AfterEvent, Stages
  <2>11. AfterEvent(s) = "quarantine" => Committed(k, "PREPARED")'
    BY <2>4, <2>10 DEF Committed, Stages
  <2>12. AfterEvent(s) \in {"QUARANTINED", "update"} => obj'[op[k].obj].name = k
    BY <1>0, <2>6, <2>10
  <2>13. AfterEvent(s) \in {"SQLITE_UPDATED", "retire"} => row'[obj[op[k].obj].art].path = k
    BY <1>0, <2>6, <2>10 DEF RowOf
  <2> QED
    BY <1>k, <1>0, <2>1, <2>2, <2>5, <2>9, <2>11, <2>12, <2>13, GoesOn
<1>3. CASE ~ (event_guard(t) /\ op[k].ev[s] = "none")
  <2>1. UNCHANGED op /\ Goto(t, NextOp(t))
    BY <1>k, <1>3 DEF AppendEvent
  <2>2. TypeOK'
    BY <1>0, <2>1, NextOpType, GotoType DEF IInv, TypeOK, Steps
  <2> QED
    BY <1>k, <1>0, <2>1, <2>2, NextOpKeeps
<1> QED
  BY <1>2, <1>3

LEMMA QuarantineKeeps ==
  ASSUME IInv, NEW t \in Threads, Quarantine(t)
  PROVE  IInv'
<1>k. PICK k, o : k = thr[t].op /\ o = op[k].obj
  OBVIOUS
<1>0. /\ thr[t].pc = "quarantine" /\ thr[t].pc \in JournalPcs
      /\ UNCHANGED <<row, op, call, svc, faults, raced>>
  BY DEF Quarantine, At, JournalPcs
<1>1. /\ k \in Ops /\ k # 0 /\ Journalled(k) /\ o \in Objects /\ Committed(k, "PREPARED")
      /\ obj \in [Objects -> ObjectRecord] /\ thr \in [Threads -> ThreadRecord]
  BY <1>k, <1>0, JournalKnows, JournalThread DEF IInv, TypeOK, PruneOK
<1>2. CASE event_guard(t) /\ Published(o)
  <2>1. obj' = [obj EXCEPT ![o].name = k] /\ Goto(t, "QUARANTINED")
    BY <1>k, <1>2 DEF Quarantine
  <2>2. /\ obj'[o] = [obj[o] EXCEPT !.name = k] /\ obj[o] \in ObjectRecord /\ k \in 0..MaxOps
        /\ \A p \in Objects : p # o => obj'[p] = obj[p]
    BY <1>1, <2>1 DEF Ops
  <2>3. TypeOK'
    <3>1. obj' \in [Objects -> ObjectRecord]
      BY <1>1, <2>1, <2>2 DEF ObjectRecord
    <3> QED
      BY <1>0, <2>1, <3>1, GotoType DEF IInv, TypeOK, Steps
  <2>4. ObjectMoves(o)
    <3>1. /\ obj'[o].name = k /\ obj'[o].art = obj[o].art /\ obj'[o].cap = obj[o].cap
          /\ obj'[o].loc = obj[o].loc /\ obj'[o].intent = obj[o].intent /\ obj'[o].txn = obj[o].txn
      BY <2>2 DEF ObjectRecord
    <3>2. /\ obj[o].loc = "out" /\ obj[o].name = 0 /\ obj[o].art # NoArtifact /\ Publishable(o)
          /\ ~ obj[o].cap => obj[o].txn \in {"COMMITTING", "COMMITTED"}
      BY <1>1, <1>2 DEF Published, Publishable, IInv, FilesOK, ObjectOK
    <3>3. obj[o].intent # "none" => obj[o].loc \in {"temp", "out", "dead"}
      BY <3>2
    <3> QED
      BY <1>k, <1>1, <3>1, <3>2, <3>3 DEF ObjectMoves, TxnOrder
  <2>5. SameStaging
    <3>1. (\A u \in Threads : u # t => thr'[u] = thr[u]) /\ thr'[t].kind = thr[t].kind
      BY <1>1, <2>1 DEF Goto, ThreadRecord
    <3> QED
      BY <1>0, <3>1, JournalSame
  <2>6. Moves
    BY <1>0, <1>1, <2>2, <2>4, <2>5, OneObject
  <2>7. obj'[o].name = k /\ "QUARANTINED" \in JournalPcs
    BY <2>2 DEF ObjectRecord, JournalPcs, Stages
  <2> QED
    BY <1>k, <1>0, <2>1, <2>3, <2>6, <2>7, GoesOn
<1>3. CASE ~ (event_guard(t) /\ Published(o))
  <2>1. UNCHANGED obj /\ Goto(t, NextOp(t))
    BY <1>k, <1>3 DEF Quarantine
  <2>2. TypeOK'
    BY <1>0, <2>1, NextOpType, GotoType DEF IInv, TypeOK, Steps
  <2> QED
    BY <1>0, <2>1, <2>2, NextOpKeeps
<1> QED
  BY <1>2, <1>3

LEMMA UpdateRowKeeps ==
  ASSUME IInv, NEW t \in Threads, UpdateRow(t)
  PROVE  IInv'
<1>k. PICK k, a, o : k = thr[t].op /\ o = op[k].obj /\ a = obj[op[k].obj].art
  OBVIOUS
<1>0. /\ thr[t].pc = "update" /\ thr[t].pc \in JournalPcs
      /\ UNCHANGED <<obj, op, call, svc, faults, raced>>
  BY DEF UpdateRow, At, JournalPcs
<1>1. /\ k \in Ops /\ k # 0 /\ Journalled(k) /\ o \in Objects /\ a \in Artifacts /\ obj[o].name = k
      /\ row \in [Artifacts -> RowRecord] /\ thr \in [Threads -> ThreadRecord]
  BY <1>k, <1>0, JournalKnows, JournalThread DEF IInv, TypeOK, PruneOK
<1>2. CASE event_guard(t)
  <2>1. PICK pc : pc = IF PathUpdates(a, o) \/ (row[a].state = "confirmed" /\ row[a].path = k)
                       THEN "SQLITE_UPDATED"
                       ELSE "MANUAL_RECOVERY_REQUIRED"
    OBVIOUS
  <2>2. /\ row' = IF PathUpdates(a, o) THEN [row EXCEPT ![a].path = k] ELSE row
        /\ Goto(t, pc)
    BY <1>k, <1>2, <2>1 DEF UpdateRow
  <2>3. pc \in JournalPcs /\ pc \in Steps /\ pc # "quarantine" /\ pc \notin {"QUARANTINED", "update"}
    BY <2>1 DEF JournalPcs, Stages, Steps
  <2>4. /\ row'[a].path = IF PathUpdates(a, o) THEN k ELSE row[a].path
        /\ row'[a].state = row[a].state /\ row'[a].obj = row[a].obj
        /\ \A b \in Artifacts : b # a => row'[b] = row[b]
        /\ row' \in [Artifacts -> RowRecord]
    BY <1>1, <2>2 DEF RowRecord, Ops
  <2>5. TypeOK'
    BY <1>0, <2>2, <2>3, <2>4, GotoType DEF IInv, TypeOK
  <2>6. RowMoves(a)
    BY <1>1, <2>4 DEF RowMoves, PathUpdates, IInv, FilesOK, RowOK
  <2>7. SameStaging
    <3>1. (\A u \in Threads : u # t => thr'[u] = thr[u]) /\ thr'[t].kind = thr[t].kind
      BY <1>1, <2>2 DEF Goto, ThreadRecord
    <3> QED
      BY <1>0, <3>1, JournalSame
  <2>8. Moves
    BY <1>0, <1>1, <2>4, <2>6, <2>7, OneRow
  <2>9. pc \in {"SQLITE_UPDATED", "retire"} => row'[a].path = k
    BY <2>1, <2>4
  <2> QED
    BY <1>k, <1>0, <2>2, <2>3, <2>5, <2>8, <2>9, GoesOn
<1>3. CASE ~ event_guard(t)
  <2>1. UNCHANGED row /\ Goto(t, NextOp(t))
    BY <1>3 DEF UpdateRow
  <2>2. TypeOK'
    BY <1>0, <2>1, NextOpType, GotoType DEF IInv, TypeOK, Steps
  <2> QED
    BY <1>0, <2>1, <2>2, NextOpKeeps
<1> QED
  BY <1>2, <1>3

LEMMA MoveActiveKeeps ==
  ASSUME IInv, NEW t \in Threads, NEW to \in {"retired", "conflict"}, MoveActive(t, to),
         thr[t].pc = IF to = "retired" THEN "retire" ELSE "conflict"
  PROVE  IInv'
<1>k. PICK k : k = thr[t].op
  OBVIOUS
<1>0. /\ thr[t].pc \in JournalPcs /\ UNCHANGED <<obj, row, call, svc, faults, raced>>
      /\ op' = (IF event_guard(t) THEN [op EXCEPT ![k].active = to] ELSE op) /\ Goto(t, NextOp(t))
  BY <1>k DEF MoveActive, JournalPcs
<1>1. /\ k \in Ops /\ Journalled(k) /\ (to = "retired" => RowOf(k).path = k)
      /\ op \in [Ops -> OpRecord] /\ thr \in [Threads -> ThreadRecord] /\ PruneOK(t)
  BY <1>k, <1>0, JournalKnows, JournalThread DEF IInv, TypeOK, PruneOK
<1>2. /\ op'[k].obj = op[k].obj /\ op'[k].ev = op[k].ev
      /\ op'[k].active = (IF event_guard(t) THEN to ELSE op[k].active)
      /\ \A j \in Ops : j # k => op'[j] = op[j]
      /\ op' \in [Ops -> OpRecord]
  BY <1>0, <1>1 DEF OpRecord
<1>3. TypeOK'
  BY <1>0, <1>2, NextOpType, GotoType DEF IInv, TypeOK, Steps
<1>4. OpMoves(k)
  BY <1>1, <1>2 DEF OpMoves, Journalled, Committed
<1>5. /\ thr'[t].pc = NextOp(t) /\ thr'[t].arts = thr[t].arts
      /\ thr'[t].kind = thr[t].kind /\ thr'[t].art = thr[t].art
      /\ \A u \in Threads : u # t => thr'[u] = thr[u]
  BY <1>0, <1>1 DEF ThreadRecord, Goto
<1>6. Moves
  BY <1>0, <1>1, <1>2, <1>4, <1>5, JournalSame, OneOp
<1>7. PlaceOK(t)' /\ thr'[t].pc \in PrunePcs
  BY <1>0, <1>5, JournalPlace
<1>8. PruneOK(t)'
  BY <1>0, <1>1, <1>5, NextOpType DEF PruneOK, JournalPcs, Stages
<1> QED
  BY <1>0, <1>3, <1>5, <1>6, <1>7, <1>8, JournalStep

LEMMA PruneFaultKeeps ==
  ASSUME IInv, NEW t \in Threads, PruneFault(t)
  PROVE  IInv'
<1>1. /\ thr[t].pc \in {"prepare"} \cup JournalPcs /\ faults < MaxFaults /\ faults' = faults + 1
      /\ Goto(t, NextOp(t)) /\ UNCHANGED <<obj, row, op, call, svc, raced>>
  BY DEF PruneFault, Fault, JournalPcs
<1>2. TypeOK'
  BY <1>1, NextOpType, GotoType, ArtifactAssumption DEF IInv, TypeOK, Steps
<1> QED
  BY <1>1, <1>2, NextOpKeeps

LEMMA PruneStepKeeps ==
  ASSUME IInv, NEW t \in Threads, PruneStep(t) \/ PruneFault(t)
  PROVE  IInv'
<1>1. CASE Retire(t)
  BY <1>1, MoveActiveKeeps DEF Retire, At
<1>2. CASE Conflict(t)
  BY <1>2, MoveActiveKeeps DEF Conflict, At
<1> QED
  BY <1>1, <1>2, RecoverOpKeeps, OpsDoneKeeps, SelectRowKeeps, PruneDoneKeeps, CreateActiveKeeps,
     AppendEventKeeps, QuarantineKeeps, UpdateRowKeeps, PruneFaultKeeps DEF PruneStep

-----------------------------------------------------------------------------
(* The steps of the reconciliation *)

LEMMA IntentThread ==
  ASSUME IInv, NEW t \in Threads, thr[t].pc \in IntentPcs
  PROVE  /\ thr[t].kind \in {"startup", "preflight", "recovery"} /\ Unfinished(t)
         /\ PlaceOK(t) /\ ReconcileOK(t) /\ PreflightOK(t) /\ PruneOK(t)
         /\ thr[t] \in ThreadRecord /\ thr \in [Threads -> ThreadRecord]
         /\ thr[t].pc \in Reconciling => thr[t].obj \in Objects
         /\ thr[t].kind # "startup" => t \in Workers /\ thr[t].art \in Artifacts
<1>1. PlaceOK(t) /\ ReconcileOK(t) /\ PreflightOK(t) /\ PruneOK(t)
      /\ thr[t] \in ThreadRecord /\ thr \in [Threads -> ThreadRecord]
  BY DEF IInv, ThreadOK, TypeOK
<1>2. thr[t].kind \in Kinds
  BY <1>1 DEF ThreadRecord
<1>3. thr[t].kind \in {"startup", "preflight", "recovery"} /\ Unfinished(t)
  BY <1>1, <1>2 DEF PlaceOK, Kinds, JournalPcs, Stages, StagePcs, Unpublished, IntentPcs, Unfinished
<1>4. thr[t].pc \in Reconciling => thr[t].obj \in Objects
  BY <1>1 DEF PlaceOK, ThreadRecord, Objects
<1> QED
  BY <1>1, <1>3, <1>4 DEF PlaceOK

LEMMA IntentSame ==
  ASSUME IInv, NEW t \in Threads, thr[t].pc \in IntentPcs,
         \A u \in Threads : u # t => thr'[u] = thr[u],
         thr'[t].kind # "stage", raced \subseteq raced'
  PROVE  SameStaging
BY DEF SameStaging

\* A step that goes on with the reconciliation.
LEMMA IntentGoesOn ==
  ASSUME IInv, Moves, TypeOK', NEW t \in Threads, thr[t].pc \in IntentPcs,
         \A u \in Threads : u # t => thr'[u] = thr[u], UNCHANGED <<call, svc>>,
         thr'[t].kind = thr[t].kind, thr'[t].art = thr[t].art, thr'[t].arts = thr[t].arts,
         thr'[t].pc \in IntentPcs, thr'[t].pc \in Reconciling => thr'[t].obj # 0,
         ReconcileOK(t)', PreflightOK(t)'
  PROVE  IInv'
<1>1. thr[t].kind \in {"startup", "preflight", "recovery"} /\ Unfinished(t) /\ PlaceOK(t) /\ PruneOK(t)
      /\ thr[t] \in ThreadRecord
  BY IntentThread
<1>2. /\ thr'[t].pc \notin StagePcs \cup Unpublished \cup {"open"} \cup JournalPcs
      /\ thr'[t].pc \notin {"idle", "done", "prepare", "select", "ops", "quarantine", "QUARANTINED",
                            "update", "SQLITE_UPDATED", "retire"}
  BY DEF JournalPcs, Stages, IntentPcs, StagePcs, Unpublished
<1>3. PlaceOK(t)'
  BY <1>1, <1>2 DEF PlaceOK, IntentPcs
<1>4. PruneOK(t)'
  BY <1>1, <1>2 DEF PruneOK, Moves, RowMoves, ThreadRecord
<1>5. StagingOK(t)' /\ FreshOK(t)'
  BY <1>1, <1>2 DEF StagingOK, FreshOK
<1>6. ThreadOK(t)' /\ Unfinished(t)'
  BY <1>2, <1>3, <1>4, <1>5 DEF ThreadOK, Unfinished
<1> QED
  BY <1>1, <1>6, StepKeeps

\* An intent that cannot be read or completed.
LEMMA IssueKeeps ==
  ASSUME IInv, NEW t \in Threads, thr[t].pc \in IntentPcs, Issue(t),
         UNCHANGED <<obj, row, op, call, svc, faults, raced>>
  PROVE  IInv'
<1>1. thr[t].kind \in {"startup", "preflight", "recovery"} /\ thr[t] \in ThreadRecord
      /\ thr \in [Threads -> ThreadRecord]
  BY IntentThread
<1>2. /\ \A u \in Threads : u # t => thr'[u] = thr[u]
      /\ thr'[t].pc = "intents" /\ thr'[t].bad = TRUE /\ thr'[t].kind = thr[t].kind
      /\ thr'[t].art = thr[t].art /\ thr'[t].arts = thr[t].arts
  BY <1>1 DEF Issue, ThreadRecord
<1>3. TypeOK'
  <2>1. [thr[t] EXCEPT !.pc = "intents", !.obj = 0, !.bad = TRUE] \in ThreadRecord
    <3>1. "intents" \in Steps /\ 0 \in 0..MaxObjects /\ TRUE \in BOOLEAN
      BY ArtifactAssumption DEF Steps
    <3> QED
      BY <1>1, <3>1 DEF ThreadRecord
  <2> QED
    BY <1>1, <2>1 DEF IInv, TypeOK, Issue
<1>4. Moves
  BY <1>1, <1>2, IntentSame, Unchanged
<1>5. ReconcileOK(t)' /\ PreflightOK(t)' /\ thr'[t].pc \in IntentPcs /\ thr'[t].pc \notin Reconciling
  BY <1>2 DEF ReconcileOK, PreflightOK, Reconciling, IntentPcs
<1> QED
  BY <1>2, <1>3, <1>4, <1>5, IntentGoesOn

LEMMA IntentStepIs ==
  ASSUME NEW o, obj[o].cap \in BOOLEAN
  PROVE  /\ IntentStep(o) \in {"queue", "publish", "dropTemp", "dropIntent", "bad"}
         /\ Published(o) => IntentStep(o) = "queue"
         /\ obj[o].loc = "temp" /\ obj[o].cap => IntentStep(o) = "publish"
         /\ IntentStep(o) = "queue" => Published(o)
         /\ IntentStep(o) = "publish" => obj[o].loc = "temp" /\ obj[o].cap
         /\ IntentStep(o) = "dropTemp" => ~ obj[o].cap
         /\ IntentStep(o) = "dropIntent" => obj[o].loc # "temp" /\ ~ Published(o)
BY DEF IntentStep, Published

\* A quarantined copy is the one its row names.
LEMMA QuarantinedIsNamed ==
  ASSUME IInv, NEW o \in Objects, obj[o].loc = "out", ~ Published(o)
  PROVE  Confirmed(o)
<1>1. obj[o].name \in Ops
  BY DEF Published, IInv, TypeOK, ObjectRecord, Ops
<1>2. Journalled(obj[o].name) /\ op[obj[o].name].obj = o
  BY DEF Published, IInv, FilesOK, ObjectOK
<1> QED
  BY <1>1, <1>2 DEF IInv, FilesOK, JournalOK

LEMMA ReadIntentKeeps ==
  ASSUME IInv, NEW t \in Threads, ReadIntent(t)
  PROVE  IInv'
<1>0. /\ thr[t].pc = "intents" /\ thr[t].pc \in IntentPcs
      /\ UNCHANGED <<obj, row, op, call, svc, faults>>
  BY DEF ReadIntent, At, IntentPcs
<1>a. PICK o \in thr[t].todo :
        LET s == IF obj[o].intent # "live" THEN "bad"
                 ELSE IF Relevant(t, o) THEN IntentStep(o) ELSE "intents"
        IN /\ thr' = [thr EXCEPT ![t].todo = @ \ {o},
                        ![t].obj = IF s \in {"bad", "intents"} THEN 0 ELSE o,
                        ![t].pc = IF s = "bad" THEN "intents" ELSE s,
                        ![t].bad = @ \/ s = "bad"]
           /\ raced' = IF \E w \in Workers : thr[w].obj = o /\ thr[w].kind = "stage" /\ Unfinished(w)
                        THEN raced \cup {o} ELSE raced
  BY DEF ReadIntent
<1>1. PICK s :
        /\ s = IF obj[o].intent # "live" THEN "bad"
               ELSE IF Relevant(t, o) THEN IntentStep(o) ELSE "intents"
        /\ thr' = [thr EXCEPT ![t].todo = @ \ {o},
                     ![t].obj = IF s \in {"bad", "intents"} THEN 0 ELSE o,
                     ![t].pc = IF s = "bad" THEN "intents" ELSE s,
                     ![t].bad = @ \/ s = "bad"]
        /\ raced' = IF \E w \in Workers : thr[w].obj = o /\ thr[w].kind = "stage" /\ Unfinished(w)
                     THEN raced \cup {o} ELSE raced
  BY <1>a
<1>2. /\ thr[t].kind \in {"startup", "preflight", "recovery"} /\ thr[t] \in ThreadRecord
      /\ thr \in [Threads -> ThreadRecord] /\ PreflightOK(t) /\ o \in Objects
      /\ obj[o] \in ObjectRecord /\ obj[o].cap \in BOOLEAN
  BY <1>0, IntentThread DEF IInv, TypeOK, ThreadRecord, ObjectRecord
<1>3. /\ s \in {"queue", "publish", "dropTemp", "dropIntent", "bad", "intents"}
      /\ s \notin {"bad", "intents"} => obj[o].intent = "live" /\ s = IntentStep(o)
  BY <1>1, <1>2, IntentStepIs
<1>4. /\ \A u \in Threads : u # t => thr'[u] = thr[u]
      /\ thr'[t].pc = (IF s = "bad" THEN "intents" ELSE s)
      /\ thr'[t].obj = (IF s \in {"bad", "intents"} THEN 0 ELSE o)
      /\ thr'[t].bad = (thr[t].bad \/ s = "bad") /\ thr'[t].todo = thr[t].todo \ {o}
      /\ thr'[t].kind = thr[t].kind /\ thr'[t].art = thr[t].art /\ thr'[t].arts = thr[t].arts
      /\ raced \subseteq raced'
  BY <1>1, <1>2 DEF ThreadRecord
<1>5. TypeOK'
  <2>1. thr'[t] \in ThreadRecord
    <3>1. /\ (IF s = "bad" THEN "intents" ELSE s) \in Steps
          /\ (IF s \in {"bad", "intents"} THEN 0 ELSE o) \in 0..MaxObjects
          /\ thr[t].todo \ {o} \in SUBSET Objects
          /\ (thr[t].bad \/ s = "bad") \in BOOLEAN
      BY <1>2, <1>3, ArtifactAssumption DEF ThreadRecord, Steps, Objects
    <3> QED
      BY <1>1, <1>2, <3>1 DEF ThreadRecord
  <2>2. raced' \subseteq Objects
    BY <1>1, <1>2 DEF IInv, TypeOK
  <2> QED
    BY <1>0, <1>1, <1>2, <2>1, <2>2 DEF IInv, TypeOK
<1>6. Moves
  BY <1>0, <1>2, <1>4, IntentSame, Unchanged
<1>7. ReconcileOK(t)'
  <2> SUFFICES ASSUME thr'[t].pc \in Reconciling
               PROVE  ReconcileOK(t)'
    BY DEF ReconcileOK
  <2>1. s \in {"queue", "publish", "dropTemp", "dropIntent"} /\ thr'[t].pc = s /\ thr'[t].obj = o
        /\ obj[o].intent = "live" /\ s = IntentStep(o)
    BY <1>3, <1>4 DEF Reconciling, IntentPcs
  <2>2. obj[o].art \in Artifacts
    BY <1>2, <2>1 DEF IInv, FilesOK, ObjectOK, ObjectRecord
  <2>3. ASSUME Staged(o)' PROVE o \in raced'
    <3>1. PICK w \in Threads : thr[w].kind = "stage" /\ thr[w].obj = o
      BY <1>2, <1>4, <2>3 DEF Staged
    <3>2. w \in Workers /\ Unfinished(w)
      BY <3>1, StageIsStage DEF IInv, ThreadOK, PlaceOK
    <3> QED
      BY <1>1, <3>1, <3>2
  <2>4. s = "dropIntent" => obj[o].loc = "dead" \/ row[obj[o].art].obj = o
    <3>1. obj[o].loc \in {"temp", "out", "dead"}
      BY <1>2, <2>1 DEF IInv, FilesOK, ObjectOK
    <3>2. obj[o].loc = "out" /\ ~ Published(o) => row[obj[o].art].obj = o
      BY <1>2, QuarantinedIsNamed DEF Confirmed
    <3>3. IntentStep(o) = "dropIntent" => obj[o].loc # "temp" /\ ~ Published(o)
      BY <1>2, IntentStepIs
    <3> QED
      BY <2>1, <3>1, <3>2, <3>3
  <2> QED
    BY <1>0, <1>2, <2>1, <2>2, <2>3, <2>4, IntentStepIs DEF ReconcileOK, Published
<1>8. PreflightOK(t)'
  <2> SUFFICES ASSUME thr[t].kind = "preflight", ~ thr'[t].bad, row[thr[t].art].state = "absent",
                      NEW p \in Objects, obj[p].art = thr[t].art, Publishable(p), ~ Exempt(p)
               PROVE  p \in thr'[t].todo \/ (thr'[t].obj = p /\ thr'[t].pc \in {"publish", "queue"})
    BY <1>0, <1>4 DEF PreflightOK, Publishable, Exempt
  <2>1. ~ thr[t].bad /\ s # "bad"
    BY <1>2, <1>4 DEF ThreadRecord
  <2>2. p \in thr[t].todo
    BY <1>0, <1>2, <2>1 DEF PreflightOK
  <2>3. CASE p = o
    <3>1. s = IntentStep(o)
      BY <1>1, <2>1, <2>3 DEF Relevant
    <3>2. Published(o) \/ (obj[o].loc = "temp" /\ obj[o].cap)
      BY <1>2, <2>3, QuarantinedIsNamed DEF Publishable, Confirmed
    <3> QED
      BY <1>2, <1>4, <2>3, <3>1, <3>2, IntentStepIs
  <2> QED
    BY <1>4, <2>2, <2>3
<1>9. thr'[t].pc \in IntentPcs /\ (thr'[t].pc \in Reconciling => thr'[t].obj # 0)
  BY <1>2, <1>3, <1>4 DEF IntentPcs, Reconciling, Objects
<1> QED
  BY <1>0, <1>4, <1>5, <1>6, <1>7, <1>8, <1>9, IntentGoesOn

\* What a thread that completes an intent knows of its copy.
LEMMA IntentKnows ==
  ASSUME IInv, NEW t \in Threads, thr[t].pc \in Reconciling, NEW o, o = thr[t].obj
  PROVE  /\ o \in Objects /\ o # 0 /\ obj[o] \in ObjectRecord /\ obj \in [Objects -> ObjectRecord]
         /\ obj[o].art \in Artifacts /\ obj[o].art # NoArtifact /\ obj[o].cap \in BOOLEAN
         /\ obj[o].intent # "none" /\ obj[o].loc \in {"temp", "out", "dead"}
         /\ thr[t].pc = "publish" => obj[o].cap /\ (obj[o].loc = "temp" => obj[o].intent = "live" \/ o \in raced)
         /\ thr[t].pc = "dropTemp" => ~ obj[o].cap
         /\ thr[t].pc = "queue" => obj[o].loc = "out"
         /\ thr[t].pc = "dropIntent" => obj[o].loc = "dead" \/ row[obj[o].art].obj = o
         /\ Staged(o) => o \in raced
<1>1. ReconcileOK(t) /\ o \in Objects
  BY IntentThread DEF Reconciling
<1>2. obj[o] \in ObjectRecord /\ obj \in [Objects -> ObjectRecord]
  BY <1>1 DEF IInv, TypeOK
<1>3. obj[o].art \in Artifacts /\ obj[o].intent # "none" /\ (Staged(o) => o \in raced)
  BY <1>1 DEF ReconcileOK
<1>4. obj[o].loc \in {"temp", "out", "dead"}
  BY <1>1, <1>3 DEF IInv, FilesOK, ObjectOK
<1> QED
  BY <1>1, <1>2, <1>3, <1>4, ArtifactAssumption DEF ReconcileOK, ObjectRecord, Objects

LEMMA PublishIntentKeeps ==
  ASSUME IInv, NEW t \in Threads, PublishIntent(t)
  PROVE  IInv'
<1>0. /\ thr[t].pc = "publish" /\ thr[t].pc \in Reconciling /\ thr[t].pc \in IntentPcs
      /\ UNCHANGED <<row, op, call, svc, faults, raced>>
  BY DEF PublishIntent, At, Reconciling, IntentPcs
<1>1. PICK o : o = thr[t].obj
  OBVIOUS
<1>2. /\ o \in Objects /\ o # 0 /\ obj[o] \in ObjectRecord /\ obj \in [Objects -> ObjectRecord]
      /\ obj[o].art \in Artifacts /\ obj[o].art # NoArtifact /\ obj[o].intent # "none"
      /\ obj[o].cap /\ (obj[o].loc = "temp" => obj[o].intent = "live" \/ o \in raced)
      /\ (Staged(o) => o \in raced)
  BY <1>0, <1>1, IntentKnows
<1>3. /\ thr[t].kind \in {"startup", "preflight", "recovery"} /\ PreflightOK(t)
      /\ thr[t] \in ThreadRecord /\ thr \in [Threads -> ThreadRecord]
  BY <1>0, IntentThread
<1>4. CASE obj[o].loc = "temp"
  <2>1. obj' = [obj EXCEPT ![o].loc = "out"] /\ Goto(t, "queue")
    BY <1>1, <1>4 DEF PublishIntent
  <2>2. /\ obj'[o].loc = "out" /\ obj'[o].art = obj[o].art /\ obj'[o].cap = obj[o].cap
        /\ obj'[o].name = obj[o].name /\ obj'[o].intent = obj[o].intent /\ obj'[o].txn = obj[o].txn
        /\ \A p \in Objects : p # o => obj'[p] = obj[p]
        /\ obj' \in [Objects -> ObjectRecord]
    BY <1>2, <2>1 DEF ObjectRecord, Places
  <2>3. /\ \A u \in Threads : u # t => thr'[u] = thr[u]
        /\ thr'[t].pc = "queue" /\ thr'[t].obj = o /\ thr'[t].bad = thr[t].bad
        /\ thr'[t].todo = thr[t].todo
        /\ thr'[t].kind = thr[t].kind /\ thr'[t].art = thr[t].art /\ thr'[t].arts = thr[t].arts
    BY <1>1, <1>3, <2>1 DEF Goto, ThreadRecord
  <2>4. TypeOK'
    BY <1>0, <2>1, <2>2, GotoType DEF IInv, TypeOK, Steps
  <2>5. ObjectMoves(o)
    BY <1>2, <1>4, <2>2 DEF ObjectMoves, TxnOrder, Publishable, Exempt
  <2>6. Moves
    BY <1>0, <1>2, <1>3, <2>2, <2>3, <2>5, IntentSame, OneObject
  <2>7. Staged(o)' => Staged(o)
    BY <1>3, <2>3 DEF Staged
  <2>8. ReconcileOK(t)'
    BY <1>0, <1>2, <2>2, <2>3, <2>7 DEF ReconcileOK
  <2>9. PreflightOK(t)'
    BY <1>0, <1>1, <1>2, <1>3, <2>2, <2>3 DEF PreflightOK, Publishable, Exempt
  <2> QED
    BY <1>0, <1>2, <2>3, <2>4, <2>6, <2>8, <2>9, IntentGoesOn DEF IntentPcs
<1>5. CASE obj[o].loc # "temp"
  BY <1>0, <1>1, <1>5, IssueKeeps DEF PublishIntent
<1> QED
  BY <1>4, <1>5

\* The row of a published copy, inserted or found.
LEMMA RowInserted ==
  ASSUME IInv, NEW o \in Objects, obj[o].art \in Artifacts, Published(o),
         row[obj[o].art].state = "absent" \/ Queued(o), ensure_artifact_queued(o), obj' = obj
  PROVE  /\ row' \in [Artifacts -> RowRecord] /\ RowMoves(obj[o].art)
         /\ \A b \in Artifacts : b # obj[o].art => row'[b] = row[b]
         /\ row'[obj[o].art].obj = o /\ row'[obj[o].art].state # "absent"
<1>1. PICK a : a = obj[o].art
  OBVIOUS
<1>2. row \in [Artifacts -> RowRecord] /\ row[a] \in RowRecord
  BY <1>1 DEF IInv, TypeOK
<1>3. CASE row[a].state = "absent"
  <2>1. row' = [row EXCEPT ![a] = [state |-> "pending", obj |-> o, path |-> 0]]
    BY <1>1, <1>3 DEF ensure_artifact_queued
  <2>2. [state |-> "pending", obj |-> o, path |-> 0] \in RowRecord
    BY ArtifactAssumption DEF RowRecord, Objects
  <2>3. row'[a].state = "pending" /\ row'[a].obj = o /\ row'[a].path = 0
    BY <1>1, <1>2, <2>1
  <2>4. row[a].path = 0
    BY <1>1, <1>3 DEF IInv, FilesOK, RowOK
  <2>5. RowMoves(a)
    BY <1>1, <1>3, <2>3, <2>4 DEF RowMoves, Published, Objects
  <2> QED
    BY <1>1, <1>2, <2>1, <2>2, <2>3, <2>5
<1>4. CASE row[a].state # "absent"
  <2>1. row' = row /\ row[a].obj = o
    BY <1>1, <1>4 DEF ensure_artifact_queued, Queued
  <2> QED
    BY <1>1, <1>2, <1>4, <2>1, StillRow
<1> QED
  BY <1>3, <1>4

LEMMA QueueIntentKeeps ==
  ASSUME IInv, NEW t \in Threads, QueueIntent(t)
  PROVE  IInv'
<1>0. /\ thr[t].pc = "queue" /\ thr[t].pc \in Reconciling /\ thr[t].pc \in IntentPcs
      /\ UNCHANGED <<obj, op, call, svc, faults, raced>>
  BY DEF QueueIntent, At, Reconciling, IntentPcs
<1>1. PICK o : o = thr[t].obj
  OBVIOUS
<1>2. /\ o \in Objects /\ o # 0 /\ obj[o].art \in Artifacts /\ obj[o].intent # "none"
      /\ (Staged(o) => o \in raced)
  BY <1>0, <1>1, IntentKnows
<1>3. /\ thr[t].kind \in {"startup", "preflight", "recovery"} /\ PreflightOK(t)
      /\ thr[t] \in ThreadRecord /\ thr \in [Threads -> ThreadRecord]
      /\ thr[t].kind # "startup" => thr[t].art \in Artifacts
  BY <1>0, IntentThread
<1>4. CASE Published(o) /\ (row[obj[o].art].state = "absent" \/ Queued(o))
  <2>1. ensure_artifact_queued(o) /\ Goto(t, "dropIntent")
    BY <1>1, <1>4 DEF QueueIntent
  <2>2. PICK a \in Artifacts : a = obj[o].art
    BY <1>2
  <2>3. /\ row' \in [Artifacts -> RowRecord] /\ RowMoves(a)
        /\ \A b \in Artifacts : b # a => row'[b] = row[b]
        /\ row'[a].obj = o /\ row'[a].state # "absent"
    BY <1>0, <1>2, <1>4, <2>1, <2>2, RowInserted
  <2>4. /\ \A u \in Threads : u # t => thr'[u] = thr[u]
        /\ thr'[t].pc = "dropIntent" /\ thr'[t].obj = o /\ thr'[t].bad = thr[t].bad
        /\ thr'[t].todo = thr[t].todo
        /\ thr'[t].kind = thr[t].kind /\ thr'[t].art = thr[t].art /\ thr'[t].arts = thr[t].arts
    BY <1>1, <1>3, <2>1 DEF Goto, ThreadRecord
  <2>5. TypeOK'
    BY <1>0, <2>1, <2>3, GotoType DEF IInv, TypeOK, Steps
  <2>6. Moves
    BY <1>0, <1>3, <2>2, <2>3, <2>4, IntentSame, OneRow
  <2>7. Staged(o)' => Staged(o)
    BY <1>3, <2>4 DEF Staged
  <2>8. ReconcileOK(t)'
    BY <1>0, <1>2, <2>2, <2>3, <2>4, <2>7 DEF ReconcileOK
  <2>9. PreflightOK(t)'
    <3> SUFFICES ASSUME thr[t].kind = "preflight", ~ thr[t].bad, row'[thr[t].art].state = "absent",
                        NEW p \in Objects, obj[p].art = thr[t].art, Publishable(p), ~ Exempt(p)
                 PROVE  p \in thr[t].todo
      BY <1>0, <2>4 DEF PreflightOK, Publishable, Exempt
    <3>1. row[thr[t].art].state = "absent" /\ thr[t].art # a
      BY <1>3, <2>3 DEF RowMoves
    <3> QED
      BY <1>0, <1>1, <1>3, <2>2, <3>1 DEF PreflightOK
  <2> QED
    BY <1>0, <1>2, <2>4, <2>5, <2>6, <2>8, <2>9, IntentGoesOn DEF IntentPcs
<1>5. CASE ~ (Published(o) /\ (row[obj[o].art].state = "absent" \/ Queued(o)))
  BY <1>0, <1>1, <1>5, IssueKeeps DEF QueueIntent
<1> QED
  BY <1>4, <1>5

LEMMA DropTempKeeps ==
  ASSUME IInv, NEW t \in Threads, DropTemp(t)
  PROVE  IInv'
<1>0. /\ thr[t].pc = "dropTemp" /\ thr[t].pc \in Reconciling /\ thr[t].pc \in IntentPcs
      /\ UNCHANGED <<row, op, call, svc, faults, raced>>
  BY DEF DropTemp, At, Reconciling, IntentPcs
<1>1. PICK o : o = thr[t].obj
  OBVIOUS
<1>2. /\ o \in Objects /\ o # 0 /\ obj[o] \in ObjectRecord /\ obj \in [Objects -> ObjectRecord]
      /\ obj[o].art \in Artifacts /\ obj[o].art # NoArtifact /\ obj[o].intent # "none"
      /\ ~ obj[o].cap /\ (Staged(o) => o \in raced)
  BY <1>0, <1>1, IntentKnows
<1>3. /\ thr[t].kind \in {"startup", "preflight", "recovery"} /\ PreflightOK(t)
      /\ thr[t] \in ThreadRecord /\ thr \in [Threads -> ThreadRecord]
  BY <1>0, IntentThread
<1>4. CASE obj[o].loc = "temp"
  <2>1. obj' = [obj EXCEPT ![o].loc = "dead"] /\ Goto(t, "dropIntent")
    BY <1>1, <1>4 DEF DropTemp
  <2>2. /\ obj'[o].loc = "dead" /\ obj'[o].art = obj[o].art /\ obj'[o].cap = obj[o].cap
        /\ obj'[o].name = obj[o].name /\ obj'[o].intent = obj[o].intent /\ obj'[o].txn = obj[o].txn
        /\ \A p \in Objects : p # o => obj'[p] = obj[p]
        /\ obj' \in [Objects -> ObjectRecord]
    BY <1>2, <2>1 DEF ObjectRecord, Places
  <2>3. /\ \A u \in Threads : u # t => thr'[u] = thr[u]
        /\ thr'[t].pc = "dropIntent" /\ thr'[t].obj = o /\ thr'[t].bad = thr[t].bad
        /\ thr'[t].todo = thr[t].todo
        /\ thr'[t].kind = thr[t].kind /\ thr'[t].art = thr[t].art /\ thr'[t].arts = thr[t].arts
    BY <1>1, <1>3, <2>1 DEF Goto, ThreadRecord
  <2>4. TypeOK'
    BY <1>0, <2>1, <2>2, GotoType DEF IInv, TypeOK, Steps
  <2>5. ObjectMoves(o)
    BY <1>2, <1>4, <2>2 DEF ObjectMoves, TxnOrder, Publishable, Exempt
  <2>6. Moves
    BY <1>0, <1>2, <1>3, <2>2, <2>3, <2>5, IntentSame, OneObject
  <2>7. Staged(o)' => Staged(o)
    BY <1>3, <2>3 DEF Staged
  <2>8. ReconcileOK(t)'
    BY <1>0, <1>2, <2>2, <2>3, <2>7 DEF ReconcileOK
  <2>9. PreflightOK(t)'
    BY <1>0, <1>1, <1>2, <1>3, <2>2, <2>3 DEF PreflightOK, Publishable, Exempt
  <2> QED
    BY <1>0, <1>2, <2>3, <2>4, <2>6, <2>8, <2>9, IntentGoesOn DEF IntentPcs
<1>5. CASE obj[o].loc # "temp"
  BY <1>0, <1>1, <1>5, IssueKeeps DEF DropTemp
<1> QED
  BY <1>4, <1>5

LEMMA DropIntentKeeps ==
  ASSUME IInv, NEW t \in Threads, DropIntent(t)
  PROVE  IInv'
<1>0. /\ thr[t].pc = "dropIntent" /\ thr[t].pc \in Reconciling /\ thr[t].pc \in IntentPcs
      /\ UNCHANGED <<row, op, call, svc, faults, raced>>
  BY DEF DropIntent, At, Reconciling, IntentPcs
<1>1. PICK o : o = thr[t].obj
  OBVIOUS
<1>2. /\ o \in Objects /\ o # 0 /\ obj[o] \in ObjectRecord /\ obj \in [Objects -> ObjectRecord]
      /\ obj[o].art \in Artifacts /\ obj[o].art # NoArtifact /\ obj[o].intent # "none"
      /\ obj[o].loc \in {"temp", "out", "dead"}
      /\ (obj[o].loc = "dead" \/ row[obj[o].art].obj = o)
  BY <1>0, <1>1, IntentKnows
<1>3. /\ thr[t].kind \in {"startup", "preflight", "recovery"} /\ PreflightOK(t)
      /\ thr[t] \in ThreadRecord /\ thr \in [Threads -> ThreadRecord]
  BY <1>0, IntentThread
<1>4. CASE obj[o].intent = "live"
  <2>1. obj' = [obj EXCEPT ![o].intent = "gone"] /\ thr' = [thr EXCEPT ![t].pc = "intents", ![t].obj = 0]
    BY <1>1, <1>4 DEF DropIntent
  <2>2. /\ obj'[o].intent = "gone" /\ obj'[o].art = obj[o].art /\ obj'[o].cap = obj[o].cap
        /\ obj'[o].name = obj[o].name /\ obj'[o].loc = obj[o].loc /\ obj'[o].txn = obj[o].txn
        /\ \A p \in Objects : p # o => obj'[p] = obj[p]
        /\ obj' \in [Objects -> ObjectRecord]
    BY <1>2, <2>1 DEF ObjectRecord
  <2>3. /\ \A u \in Threads : u # t => thr'[u] = thr[u]
        /\ thr'[t].pc = "intents" /\ thr'[t].bad = thr[t].bad
        /\ thr'[t].todo = thr[t].todo
        /\ thr'[t].kind = thr[t].kind /\ thr'[t].art = thr[t].art /\ thr'[t].arts = thr[t].arts
    BY <1>1, <1>3, <2>1 DEF ThreadRecord
  <2>4. TypeOK'
    <3>1. [thr[t] EXCEPT !.pc = "intents", !.obj = 0] \in ThreadRecord
      <4>1. "intents" \in Steps /\ 0 \in 0..MaxObjects
        BY ArtifactAssumption DEF Steps
      <4> QED
        BY <1>3, <4>1 DEF ThreadRecord
    <3> QED
      BY <1>0, <1>3, <2>1, <2>2, <3>1 DEF IInv, TypeOK
  <2>5. obj[o].loc # "temp"
    BY <1>2 DEF IInv, FilesOK, RowOK
  <2>6. obj[o].loc = "out" /\ ~ obj[o].cap => obj[o].txn \in {"COMMITTING", "COMMITTED"}
    BY <1>2 DEF IInv, FilesOK, ObjectOK
  <2>7. ObjectMoves(o)
    BY <1>2, <1>4, <2>2, <2>5, <2>6 DEF ObjectMoves, TxnOrder, Publishable
  <2>8. Moves
    BY <1>0, <1>2, <1>3, <2>2, <2>3, <2>7, IntentSame, OneObject
  <2>9. ReconcileOK(t)' /\ thr'[t].pc \in IntentPcs /\ thr'[t].pc \notin Reconciling
    BY <2>3 DEF ReconcileOK, IntentPcs, Reconciling
  <2>10. PreflightOK(t)'
    BY <1>0, <1>1, <1>2, <1>3, <2>2, <2>3 DEF PreflightOK, Publishable, Exempt
  <2> QED
    BY <1>0, <2>3, <2>4, <2>8, <2>9, <2>10, IntentGoesOn
<1>5. CASE obj[o].intent # "live"
  BY <1>0, <1>1, <1>5, IssueKeeps DEF DropIntent
<1> QED
  BY <1>4, <1>5

\* A thread that ends: idle, or done with a result.
Ends(t) ==
  /\ thr'[t].kind = "idle" /\ thr'[t].arts = {}
  /\ thr'[t].pc \in {"idle", "done"} /\ (t = "cli" => thr'[t].pc = "idle")

LEMMA FinishType ==
  ASSUME IInv, NEW t \in Threads, NEW res \in Results, Finish(t, res)
  PROVE  /\ thr' \in [Threads -> ThreadRecord] /\ thr'[t].res = res /\ thr'[t].pc = "done"
         /\ thr'[t].kind = "idle" /\ thr'[t].arts = {}
         /\ \A u \in Threads : u # t => thr'[u] = thr[u]
<1>1. thr \in [Threads -> ThreadRecord]
  BY DEF IInv, TypeOK
<1>2. PICK r : r = [IdleThread EXCEPT !.pc = "done", !.res = res]
  OBVIOUS
<1>3. r.pc = "done" /\ r.res = res /\ r.kind = "idle" /\ r.arts = {}
  BY <1>2 DEF IdleThread
<1>4. r \in ThreadRecord
  <2>1. "done" \in Steps
    BY DEF Steps
  <2> QED
    BY <1>2, <2>1, IdleType DEF ThreadRecord
<1>5. thr' = [thr EXCEPT ![t] = r]
  BY <1>2 DEF Finish
<1> QED
  BY <1>1, <1>3, <1>4, <1>5

\* A worker that ends with a result.
LEMMA FinishKeeps ==
  ASSUME IInv, Moves, TypeOK', NEW t \in Workers, Unfinished(t), NEW res \in Results, Finish(t, res),
         UNCHANGED <<call, svc>>,
         res \in {"found", "staged"} => row'[thr[t].art].state # "absent",
         thr[t].kind = "preflight" /\ res = "missing" =>
           \A a \in Artifacts : a = thr[t].art => Only(a, 0)'
  PROVE  IInv'
<1>1. t \in Threads /\ t # "cli"
  BY DEF Threads, Workers
<1>2. /\ thr'[t].res = res /\ thr'[t].pc = "done" /\ thr'[t].kind = "idle" /\ thr'[t].arts = {}
      /\ \A u \in Threads : u # t => thr'[u] = thr[u]
  BY <1>1, FinishType
<1>3. ThreadOK(t)'
  BY <1>1, <1>2, QuietThread
<1>4. ResultOK(t)
  BY <1>2 DEF ResultOK
<1> QED
  BY <1>1, <1>2, <1>3, <1>4, StepKeeps

\* A step of the maintenance process.
LEMMA CliKeeps ==
  ASSUME IInv, Moves, TypeOK', UNCHANGED <<call, svc>>,
         \A u \in Threads : u # "cli" => thr'[u] = thr[u], ThreadOK("cli")'
  PROVE  IInv'
<1>1. "cli" \in Threads /\ "cli" \notin Workers
  BY DEF Threads, Workers
<1> QED
  BY <1>1, StepKeeps

\* A startup that ends in the service: it is up, or down again.
LEMMA StartupEnds ==
  ASSUME IInv, NEW t \in Workers, thr[t].kind = "startup", svc' \in {"up", "down"},
         thr' = [thr EXCEPT ![t] = IdleThread], UNCHANGED <<obj, row, op, call, raced>>,
         faults' \in 0..MaxFaults
  PROVE  IInv'
<1>1. /\ t \in Threads /\ thr \in [Threads -> ThreadRecord]
      /\ thr'[t] = IdleThread /\ \A u \in Threads : u # t => thr'[u] = thr[u]
  BY DEF Threads, IInv, TypeOK
<1>2. TypeOK'
  BY <1>1, IdleType DEF IInv, TypeOK
<1>3. svc = "starting" /\ Unfinished(t)
  BY <1>1 DEF IInv, ThreadOK, PlaceOK, Unfinished
<1>4. call.pc = "idle" /\ t = "w1" /\ ~ Unfinished("w2")
  BY <1>3 DEF IInv, ServiceOK, Workers
<1>5. SameStaging
  BY <1>1 DEF SameStaging, IdleThread
<1>6. Moves
  BY <1>5, Unchanged
<1>7. ASSUME NEW u \in Threads PROVE ThreadOK(u)'
  <2>1. CASE u = t
    BY <1>1, <2>1, QuietThread DEF IdleThread, Workers
  <2>2. CASE u # t
    <3>1. ~ (thr[u].kind = "startup" /\ u \in Workers)
      BY <1>4, <2>2 DEF IInv, ThreadOK, PlaceOK, Unfinished, Workers
    <3> QED
      BY <1>1, <1>2, <1>6, <2>2, <3>1, ThreadStays
  <2> QED
    BY <2>1, <2>2
<1>8. ~ Unfinished("w1")' /\ ~ Unfinished("w2")'
  BY <1>1, <1>4 DEF Unfinished, IdleThread, Threads, Workers
<1>9. ServiceOK'
  BY <1>4, <1>8 DEF ServiceOK, OneWorker, Workers
<1>10. CallOK'
  BY <1>4 DEF IInv, CallOK
<1> QED
  BY <1>2, <1>6, <1>7, <1>9, <1>10, FilesStay DEF IInv

LEMMA StartupRowsKeeps ==
  ASSUME IInv, NEW t \in Threads, StartupRows(t)
  PROVE  IInv'
<1>0. /\ thr[t].pc = "intents" /\ thr[t].pc \in IntentPcs /\ thr[t].kind = "startup"
      /\ UNCHANGED <<obj, row, op, call, faults, raced>>
  BY DEF StartupRows, IntentsDone, At, IntentPcs
<1>1. thr \in [Threads -> ThreadRecord] /\ Unfinished(t) /\ faults \in 0..MaxFaults
  BY <1>0, IntentThread DEF IInv, TypeOK
<1>2. CASE t = "cli"
  <2>1. PICK r : /\ UNCHANGED svc /\ thr' = [thr EXCEPT ![t] = r]
                 /\ \/ r = IdleThread
                    \/ \E sel \in SUBSET Prunable :
                         r = [IdleThread EXCEPT !.kind = "prune", !.pc = "select", !.arts = sel]
    BY <1>2 DEF StartupRows
  <2>2. /\ thr'[t] = r /\ \A u \in Threads : u # t => thr'[u] = thr[u]
    BY <1>1, <2>1
  <2>3. r \in ThreadRecord /\ r.kind # "stage" /\ (ThreadOK("cli"))'
    <3>1. CASE r = IdleThread
      BY <1>2, <2>2, <3>1, IdleType, QuietThread DEF IdleThread
    <3>2. ASSUME NEW sel \in SUBSET Prunable,
                 r = [IdleThread EXCEPT !.kind = "prune", !.pc = "select", !.arts = sel]
          PROVE  r \in ThreadRecord /\ r.kind # "stage" /\ (ThreadOK("cli"))'
      <4>1. r.kind = "prune" /\ r.pc = "select" /\ r.arts = sel
        BY <3>2 DEF IdleThread
      <4>2. r \in ThreadRecord
        <5>1. "prune" \in Kinds /\ "select" \in Steps /\ sel \in SUBSET Artifacts
          BY DEF Kinds, Steps, Prunable
        <5> QED
          BY <3>2, <5>1, IdleType DEF ThreadRecord
      <4>3. PruneOK("cli")'
        BY <1>0, <1>2, <2>2, <4>1 DEF PruneOK, Prunable, JournalPcs, Stages
      <4>4. (ThreadOK("cli"))'
        BY <1>2, <2>2, <4>1, <4>3
           DEF ThreadOK, PlaceOK, StagingOK, ReconcileOK, FreshOK, PreflightOK, JournalPcs, Stages,
               Reconciling, IntentPcs, StagePcs, Unpublished
      <4> QED
        BY <4>1, <4>2, <4>4
    <3> QED
      BY <2>1, <3>1, <3>2
  <2>4. TypeOK'
    BY <1>0, <1>1, <2>1, <2>3 DEF IInv, TypeOK
  <2>5. Moves
    BY <1>0, <2>2, <2>3, IntentSame, Unchanged
  <2> QED
    BY <1>0, <1>1, <1>2, <2>1, <2>2, <2>3, <2>4, <2>5, CliKeeps
<1>3. CASE t # "cli"
  <2>1. t \in Workers /\ svc' \in {"up", "down"} /\ thr' = [thr EXCEPT ![t] = IdleThread]
    BY <1>3 DEF StartupRows, Threads
  <2> QED
    BY <1>0, <1>1, <2>1, StartupEnds
<1> QED
  BY <1>2, <1>3

\* A listing that stayed within the limit was read to its end.
LEMMA ListingRead ==
  ASSUME IInv, NEW t \in Threads, IntentsDone(t), thr[t].kind # "startup", ~ LimitExceeded(t)
  PROVE  thr[t].todo = {}
<1>1. thr[t].seen \subseteq Objects
  BY DEF IInv, TypeOK, ThreadRecord
<1>2. Cardinality(thr[t].seen) \in Nat
  <2>1. 1 \in Int /\ MaxObjects \in Int
    BY ArtifactAssumption
  <2>2. IsFiniteSet(Objects)
    BY <2>1, FS_Interval DEF Objects
  <2>3. IsFiniteSet(thr[t].seen)
    BY <1>1, <2>2, FS_Subset
  <2> QED
    BY <2>3, FS_CardinalityType
<1> QED
  BY <1>2, ArtifactAssumption DEF IntentsDone, LimitExceeded

LEMMA RelevantRowsKeeps ==
  ASSUME IInv, NEW t \in Threads, RelevantRows(t)
  PROVE  IInv'
<1>0. /\ thr[t].pc = "intents" /\ thr[t].pc \in IntentPcs /\ thr[t].kind \in {"preflight", "recovery"}
      /\ ~ LimitExceeded(t) => thr[t].todo = {}
      /\ UNCHANGED <<obj, row, op, call, svc, faults, raced>>
  BY ListingRead DEF RelevantRows, IntentsDone, At, IntentPcs
<1>1. PICK res : /\ res = IF thr[t].bad \/ LimitExceeded(t) THEN "error" ELSE _existing_staged(thr[t].art)
                 /\ Finish(t, res)
  BY DEF RelevantRows
<1>2. /\ t \in Workers /\ Unfinished(t) /\ PreflightOK(t) /\ thr[t].art \in Artifacts
      /\ thr[t] \in ThreadRecord
  BY <1>0, IntentThread
<1>3. /\ res \in {"error", "missing", "found"} /\ res \in Results
      /\ res = "found" => row[thr[t].art].state # "absent"
      /\ res = "missing" => /\ ~ thr[t].bad /\ row[thr[t].art].state = "absent"
                            /\ thr[t].todo = {}
  BY <1>0, <1>1 DEF _existing_staged, Results
<1>4. TypeOK'
  BY <1>0, <1>1, <1>3, FinishType DEF IInv, TypeOK
<1>5. Moves
  BY <1>0, <1>1, <1>3, FinishType, IntentSame, Unchanged
<1>6. ASSUME thr[t].kind = "preflight", res = "missing", NEW a \in Artifacts, a = thr[t].art
      PROVE  Only(a, 0)'
  <2>1. \A p \in Objects : obj[p].art = a /\ Publishable(p) => Exempt(p)
    BY <1>0, <1>2, <1>3, <1>6 DEF PreflightOK
  <2> QED
    BY <1>0, <2>1 DEF Only, Publishable, Exempt
<1> QED
  BY <1>0, <1>1, <1>2, <1>3, <1>4, <1>5, <1>6, FinishKeeps

LEMMA ReconcileStoppedKeeps ==
  ASSUME IInv, NEW t \in Threads, ReconcileStopped(t)
  PROVE  IInv'
<1>0. /\ thr[t].pc \in ReconcileSteps /\ UNCHANGED <<obj, row, op, call, raced>>
      /\ faults' \in 0..MaxFaults
  <2>1. faults' = faults \/ (faults < MaxFaults /\ faults' = faults + 1)
    BY DEF ReconcileStopped, Fault
  <2> QED
    BY <2>1, ArtifactAssumption DEF ReconcileStopped, IInv, TypeOK
<1>1. thr \in [Threads -> ThreadRecord] /\ Unfinished(t) /\ thr[t].pc \in {"ops"} \cup IntentPcs
  BY <1>0 DEF IInv, TypeOK, ReconcileSteps, IntentPcs, Unfinished
<1>2. CASE thr[t].kind = "startup"
  <2>1. thr' = [thr EXCEPT ![t] = IdleThread] /\ svc' = (IF t = "cli" THEN svc ELSE "down")
    BY <1>2 DEF ReconcileStopped
  <2>2. thr'[t] = IdleThread /\ \A u \in Threads : u # t => thr'[u] = thr[u]
    BY <1>1, <2>1
  <2>3. CASE t = "cli"
    <3>1. TypeOK'
      BY <1>0, <1>1, <2>1, <2>3, IdleType DEF IInv, TypeOK
    <3>2. SameStaging
      BY <1>0, <2>2 DEF SameStaging, IdleThread
    <3>3. Moves
      BY <1>0, <3>2, Unchanged
    <3>4. (ThreadOK("cli"))'
      BY <2>2, <2>3, QuietThread DEF IdleThread
    <3> QED
      BY <1>0, <1>1, <2>1, <2>2, <2>3, <3>1, <3>3, <3>4, CliKeeps
  <2>4. CASE t # "cli"
    BY <1>0, <1>2, <2>1, <2>4, StartupEnds DEF Threads
  <2> QED
    BY <2>3, <2>4
<1>3. CASE thr[t].kind # "startup"
  <2>1. Finish(t, "error") /\ UNCHANGED svc
    BY <1>3 DEF ReconcileStopped
  <2>2. t \in Workers /\ thr[t].pc \in IntentPcs
    BY <1>1, <1>3, JournalThread, IntentThread
  <2>3. TypeOK'
    BY <1>0, <2>1, FinishType DEF IInv, TypeOK, Results
  <2>4. Moves
    BY <1>0, <2>1, <2>2, FinishType, IntentSame, Unchanged DEF Results
  <2> QED
    BY <1>0, <1>1, <2>1, <2>2, <2>3, <2>4, FinishKeeps DEF Results
<1> QED
  BY <1>2, <1>3

LEMMA ReconcileStepKeeps ==
  ASSUME IInv, NEW t \in Threads, ReconcileStep(t) \/ ReconcileStopped(t)
  PROVE  IInv'
BY ReadIntentKeeps, PublishIntentKeeps, QueueIntentKeeps, DropTempKeeps, DropIntentKeeps,
   StartupRowsKeeps, RelevantRowsKeeps, ReconcileStoppedKeeps DEF ReconcileStep

-----------------------------------------------------------------------------
(* The steps of the staging worker *)

LEMMA StageThread ==
  ASSUME IInv, NEW t \in Threads, thr[t].pc \in StagePcs
  PROVE  /\ thr[t].kind = "stage" /\ t \in Workers /\ Unfinished(t)
         /\ StagingOK(t) /\ FreshOK(t) /\ PruneOK(t)
         /\ thr[t] \in ThreadRecord /\ thr \in [Threads -> ThreadRecord] /\ thr[t].art \in Artifacts
BY StageIsStage DEF IInv, ThreadOK, PlaceOK, TypeOK

\* What the staging worker knows of its copy.
LEMMA StageKnows ==
  ASSUME IInv, NEW t \in Threads, thr[t].pc \in StagePcs \ {"open"}, NEW o, o = thr[t].obj
  PROVE  /\ o \in Objects /\ o # 0 /\ obj[o] \in ObjectRecord /\ obj \in [Objects -> ObjectRecord]
         /\ obj[o].art = thr[t].art /\ obj[o].art \in Artifacts /\ obj[o].art # NoArtifact
         /\ obj[o].loc # "none" /\ Staged(o) /\ (thr[t].pc \in Unpublished => Working(o))
         /\ thr[t].pc \in Unpublished /\ obj[o].loc = "out" => Exempt(o)
         /\ obj[o].intent # "none" => obj[o].loc \in {"temp", "out", "dead"}
<1>1. thr[t].kind = "stage" /\ StagingOK(t) /\ thr[t].art \in Artifacts /\ thr[t] \in ThreadRecord
  BY StageThread
<1>2. o \in Objects /\ o # 0
  BY <1>1 DEF IInv, ThreadOK, PlaceOK, ThreadRecord, Objects
<1>3. obj[o] \in ObjectRecord /\ obj \in [Objects -> ObjectRecord]
  BY <1>2 DEF IInv, TypeOK
<1>4. obj[o].art = thr[t].art /\ (thr[t].pc \in Unpublished /\ obj[o].loc = "out" => Exempt(o))
  BY <1>1 DEF StagingOK
<1>5. obj[o].art # NoArtifact /\ obj[o].loc # "none"
      /\ (obj[o].intent # "none" => obj[o].loc \in {"temp", "out", "dead"})
  BY <1>1, <1>2, <1>4, ArtifactAssumption DEF IInv, FilesOK, ObjectOK
<1> QED
  BY <1>1, <1>2, <1>3, <1>4, <1>5 DEF Staged, Working

\* The step of a worker moves its copy.
LEMMA WorkerMovesItsCopy ==
  ASSUME NEW t \in Threads, thr[t].kind = "stage", NEW o, thr[t].obj = o, thr'[t] # thr[t]
  PROVE  WorkerMoves(o)
BY DEF WorkerMoves

\* No other copy of the artifact is made meanwhile.
LEMMA OnlyWorker ==
  ASSUME IInv, NEW t \in Threads, thr[t].pc \in StagePcs, NEW p \in Objects, Working(p)
  PROVE  p = thr[t].obj
BY OneStaging, StageIsStage, StageThread DEF Working, StagePcs

\* A step that goes on with the staging.
LEMMA StageGoesOn ==
  ASSUME IInv, Moves, TypeOK', NEW t \in Threads, thr[t].pc \in StagePcs \ {"open"},
         NEW pc \in StagePcs \ {"open"}, Goto(t, pc), UNCHANGED <<call, svc>>,
         pc \in Unpublished => thr[t].pc \in Unpublished, StagingOK(t)'
  PROVE  IInv'
<1>1. /\ thr[t].kind = "stage" /\ t \in Workers /\ Unfinished(t) /\ FreshOK(t) /\ PruneOK(t)
      /\ thr[t] \in ThreadRecord /\ thr \in [Threads -> ThreadRecord] /\ thr[t].art \in Artifacts
  BY StageThread
<1>2. /\ \A u \in Threads : u # t => thr'[u] = thr[u]
      /\ thr'[t].pc = pc /\ thr'[t].obj = thr[t].obj
      /\ thr'[t].kind = thr[t].kind /\ thr'[t].art = thr[t].art /\ thr'[t].arts = thr[t].arts
  BY <1>1 DEF Goto, ThreadRecord
<1>3. /\ thr'[t].pc \notin {"idle", "done", "prepare", "select", "ops", "quarantine", "QUARANTINED",
                            "update", "SQLITE_UPDATED", "retire"}
      /\ thr'[t].pc \notin JournalPcs \cup IntentPcs \cup Reconciling
  BY <1>2 DEF JournalPcs, Stages, IntentPcs, Reconciling, StagePcs, Unpublished
<1>4. thr[t].obj # 0
  BY StageKnows
<1>5. PlaceOK(t)'
  BY <1>1, <1>2, <1>3, <1>4 DEF PlaceOK, StagePcs, Unpublished, Workers
<1>6. PruneOK(t)'
  BY <1>1, <1>2, <1>3 DEF PruneOK, Moves, RowMoves, ThreadRecord
<1>7. ReconcileOK(t)' /\ PreflightOK(t)'
  BY <1>1, <1>2, <1>3 DEF ReconcileOK, PreflightOK
<1>8. FreshOK(t)'
  <2> SUFFICES ASSUME pc \in Unpublished
               PROVE  Only(thr[t].art, thr[t].obj)'
    BY <1>2, <1>3 DEF FreshOK, Only, StagePcs, Unpublished
  <2>1. PICK a, o : a = thr[t].art /\ o = thr[t].obj
    OBVIOUS
  <2>2. Only(a, o)
    BY <1>1, <2>1 DEF FreshOK
  <2>3. Only(a, o)'
    BY <2>1, <2>2, OnlyStays, OnlyWorker
  <2> QED
    BY <1>2, <2>1, <2>3 DEF Only
<1>9. ThreadOK(t)' /\ Unfinished(t)'
  BY <1>3, <1>5, <1>6, <1>7, <1>8 DEF ThreadOK, Unfinished
<1> QED
  BY <1>1, <1>2, <1>9, StepKeeps

\* A step of a worker on its own copy.
LEMMA OwnCopy ==
  ASSUME IInv, NEW t \in Threads, thr[t].pc \in StagePcs \ {"open"}, NEW o, o = thr[t].obj,
         \A u \in Threads : u # t => thr'[u] = thr[u],
         thr'[t].kind # "stage" \/ thr'[t].obj = o, thr'[t].pc # thr[t].pc,
         \A p \in Objects : p # o => obj'[p] = obj[p], UNCHANGED <<row, op, raced>>,
         WorkerMoves(o) => ObjectMoves(o)
  PROVE  Moves
<1>1. thr[t].kind = "stage"
  BY StageThread
<1>2. SameStaging
  BY <1>1 DEF SameStaging
<1>3. WorkerMoves(o)
  BY <1>1, WorkerMovesItsCopy
<1> QED
  BY <1>2, <1>3, OneObject

LEMMA GotoChanges ==
  ASSUME IInv, NEW t \in Threads, NEW pc, Goto(t, pc)
  PROVE  /\ \A u \in Threads : u # t => thr'[u] = thr[u]
         /\ thr'[t].pc = pc /\ thr'[t].obj = thr[t].obj /\ thr'[t].op = thr[t].op
         /\ thr'[t].kind = thr[t].kind /\ thr'[t].art = thr[t].art /\ thr'[t].arts = thr[t].arts
BY DEF Goto, IInv, TypeOK, ThreadRecord

\* Steps of the worker that leave its copy as it is, or change its transaction alone.
LEMMA TxnMoves ==
  ASSUME IInv, NEW t \in Threads, thr[t].pc \in Unpublished, NEW o, o = thr[t].obj, WorkerMoves(o),
         obj'[o].art = obj[o].art, obj'[o].cap = obj[o].cap, obj'[o].loc = obj[o].loc,
         obj'[o].intent = obj[o].intent, obj'[o].name = obj[o].name
  PROVE  ObjectMoves(o)
<1>1. thr[t].pc \in StagePcs \ {"open"}
  BY DEF StagePcs, Unpublished
<1>2. /\ obj[o].art # NoArtifact /\ obj[o].loc # "none" /\ Working(o)
      /\ (obj[o].loc = "out" => Exempt(o))
      /\ (obj[o].intent # "none" => obj[o].loc \in {"temp", "out", "dead"})
  BY <1>1, StageKnows
<1> QED
  BY <1>2 DEF ObjectMoves, Exempt, Publishable

\* A worker that gives up before publication turns to the clean-up.
LEMMA GiveUp ==
  ASSUME IInv, NEW t \in Threads, thr[t].pc \in Unpublished \ {"cleanTemp", "cleanIntent"},
         Goto(t, "cleanTemp"), NEW x \in TxnStates, NEW o, o = thr[t].obj,
         obj' = [obj EXCEPT ![o].txn = x] \/ obj' = obj,
         UNCHANGED <<row, op, call, svc, raced>>, faults' \in 0..MaxFaults
  PROVE  IInv'
<1>1. thr[t].pc \in StagePcs \ {"open"} /\ thr[t].pc # "cleanTemp" /\ "cleanTemp" \in StagePcs \ {"open"}
  BY DEF StagePcs, Unpublished
<1>2. /\ o \in Objects /\ obj[o] \in ObjectRecord /\ obj \in [Objects -> ObjectRecord]
      /\ obj[o].art = thr[t].art /\ obj[o].art # NoArtifact
      /\ (obj[o].loc = "out" => Exempt(o))
  BY <1>1, StageKnows
<1>3. PICK y \in TxnStates : obj' = [obj EXCEPT ![o].txn = y]
  <2>1. obj' = obj => obj' = [obj EXCEPT ![o].txn = obj[o].txn]
    BY <1>2 DEF ObjectRecord
  <2>2. obj[o].txn \in TxnStates
    BY <1>2 DEF ObjectRecord
  <2> QED
    BY <2>1, <2>2
<1>4. /\ \A u \in Threads : u # t => thr'[u] = thr[u]
      /\ thr'[t].pc = "cleanTemp" /\ thr'[t].obj = o /\ thr'[t].kind = thr[t].kind
      /\ thr'[t].art = thr[t].art
  BY GotoChanges
<1>5. WorkerMoves(o)
  BY <1>1, <1>4, StageThread, WorkerMovesItsCopy
<1>6. /\ obj' \in [Objects -> ObjectRecord]
      /\ \A p \in Objects : p # o => obj'[p] = obj[p]
      /\ obj'[o].art = obj[o].art /\ obj'[o].cap = obj[o].cap /\ obj'[o].loc = obj[o].loc
      /\ obj'[o].intent = obj[o].intent /\ obj'[o].name = obj[o].name
  BY <1>2, <1>3 DEF ObjectRecord
<1>a. ObjectMoves(o)
  <2>1. thr[t].pc \in Unpublished
    OBVIOUS
  <2> QED
    BY <1>5, <1>6, <2>1, TxnMoves
<1>7. TypeOK'
  BY <1>6, GotoType DEF IInv, TypeOK, Steps
<1>8. Moves
  BY <1>1, <1>4, <1>6, <1>a, OwnCopy
<1>9. StagingOK(t)'
  BY <1>2, <1>4, <1>6 DEF StagingOK, Exempt, Unpublished
<1> QED
  BY <1>1, <1>7, <1>8, <1>9, StageGoesOn DEF Unpublished

LEMMA StageSealKeeps ==
  ASSUME IInv, NEW t \in Threads, StageSeal(t)
  PROVE  IInv'
<1>0. /\ thr[t].pc = "seal" /\ thr[t].pc \in StagePcs \ {"open"} /\ thr[t].pc \in Unpublished
      /\ UNCHANGED <<row, op, call, svc, faults, raced>> /\ faults \in 0..MaxFaults
  BY DEF StageSeal, At, StagePcs, Unpublished, IInv, TypeOK
<1>1. PICK o : o = thr[t].obj
  OBVIOUS
<1>2. /\ o \in Objects /\ obj[o] \in ObjectRecord /\ obj \in [Objects -> ObjectRecord]
      /\ obj[o].art = thr[t].art /\ obj[o].art # NoArtifact /\ Working(o)
      /\ thr[t].kind = "stage" /\ StagingOK(t)
  BY <1>0, <1>1, StageKnows, StageThread
<1>3. CASE obj[o].txn = "ABORTED"
  BY <1>0, <1>1, <1>3, GiveUp DEF StageSeal, TxnStates
<1>4. CASE obj[o].txn # "ABORTED"
  <2>1. obj' = [obj EXCEPT ![o].loc = "temp"] /\ Goto(t, "intent")
    BY <1>1, <1>4 DEF StageSeal
  <2>2. /\ obj'[o].loc = "temp" /\ obj'[o].art = obj[o].art /\ obj'[o].cap = obj[o].cap
        /\ obj'[o].name = obj[o].name /\ obj'[o].intent = obj[o].intent /\ obj'[o].txn = obj[o].txn
        /\ \A p \in Objects : p # o => obj'[p] = obj[p]
        /\ obj' \in [Objects -> ObjectRecord]
    BY <1>2, <2>1 DEF ObjectRecord, Places
  <2>3. /\ \A u \in Threads : u # t => thr'[u] = thr[u]
        /\ thr'[t].pc = "intent" /\ thr'[t].obj = o /\ thr'[t].kind = thr[t].kind
        /\ thr'[t].art = thr[t].art
    BY <1>1, <2>1, GotoChanges
  <2>4. TypeOK'
    BY <1>0, <2>1, <2>2, GotoType DEF IInv, TypeOK, Steps
  <2>5. obj[o].loc = "part" /\ obj[o].intent = "none" /\ obj[o].txn \in {"COPYING", "ABORTED"}
    BY <1>0, <1>1, <1>2 DEF StagingOK
  <2>6. WorkerMoves(o) => ObjectMoves(o)
    BY <1>2, <2>2, <2>5 DEF ObjectMoves, Publishable
  <2>7. Moves
    BY <1>0, <1>1, <2>2, <2>3, <2>6, OwnCopy
  <2>8. StagingOK(t)'
    BY <1>2, <2>2, <2>3, <2>5 DEF StagingOK
  <2> QED
    BY <1>0, <2>1, <2>4, <2>7, <2>8, StageGoesOn DEF StagePcs, Unpublished
<1> QED
  BY <1>3, <1>4

LEMMA StageIntentKeeps ==
  ASSUME IInv, NEW t \in Threads, StageIntent(t)
  PROVE  IInv'
<1>0. /\ thr[t].pc = "intent" /\ thr[t].pc \in StagePcs \ {"open"} /\ thr[t].pc \in Unpublished
      /\ UNCHANGED <<row, op, call, svc, faults, raced>>
  BY DEF StageIntent, At, StagePcs, Unpublished
<1>1. PICK o : o = thr[t].obj
  OBVIOUS
<1>2. /\ o \in Objects /\ obj[o] \in ObjectRecord /\ obj \in [Objects -> ObjectRecord]
      /\ obj[o].art = thr[t].art /\ obj[o].art # NoArtifact /\ Working(o)
      /\ thr[t].kind = "stage" /\ StagingOK(t)
  BY <1>0, <1>1, StageKnows, StageThread
<1>3. obj' = [obj EXCEPT ![o].intent = "live"] /\ Goto(t, "ready")
  BY <1>1 DEF StageIntent
<1>4. /\ obj'[o].intent = "live" /\ obj'[o].art = obj[o].art /\ obj'[o].cap = obj[o].cap
      /\ obj'[o].name = obj[o].name /\ obj'[o].loc = obj[o].loc /\ obj'[o].txn = obj[o].txn
      /\ \A p \in Objects : p # o => obj'[p] = obj[p]
      /\ obj' \in [Objects -> ObjectRecord]
  BY <1>2, <1>3 DEF ObjectRecord
<1>5. /\ \A u \in Threads : u # t => thr'[u] = thr[u]
      /\ thr'[t].pc = "ready" /\ thr'[t].obj = o /\ thr'[t].kind = thr[t].kind
      /\ thr'[t].art = thr[t].art
  BY <1>1, <1>3, GotoChanges
<1>6. TypeOK'
  BY <1>0, <1>3, <1>4, GotoType DEF IInv, TypeOK, Steps
<1>7. obj[o].loc = "temp" /\ obj[o].intent = "none" /\ obj[o].txn \in {"COPYING", "ABORTED"}
  BY <1>0, <1>1, <1>2 DEF StagingOK
<1>8. WorkerMoves(o) => ObjectMoves(o)
  BY <1>2, <1>4, <1>7 DEF ObjectMoves
<1>9. Moves
  BY <1>0, <1>1, <1>4, <1>5, <1>8, OwnCopy
<1>10. StagingOK(t)'
  BY <1>2, <1>4, <1>5, <1>7 DEF StagingOK
<1> QED
  BY <1>0, <1>3, <1>6, <1>9, <1>10, StageGoesOn DEF StagePcs, Unpublished

LEMMA AdvanceKeeps ==
  ASSUME IInv, NEW t \in Threads, NEW from \in TxnStates, NEW to \in TxnStates, NEW next,
         <<thr[t].pc, from, to, next>> \in {<<"ready", "COPYING", "READY_TO_COMMIT", "commit">>,
                                            <<"commit", "READY_TO_COMMIT", "COMMITTING", "rename">>},
         Advance(t, from, to, next)
  PROVE  IInv'
<1>0. /\ thr[t].pc \in {"ready", "commit"} /\ thr[t].pc \in StagePcs \ {"open"}
      /\ thr[t].pc \in Unpublished \ {"cleanTemp", "cleanIntent"} /\ thr[t].pc \in Unpublished
      /\ next \in StagePcs \ {"open"} /\ next # thr[t].pc /\ next \in Steps
      /\ next = "commit" => thr[t].pc = "ready" /\ to = "READY_TO_COMMIT"
      /\ next = "rename" => thr[t].pc = "commit" /\ to = "COMMITTING"
      /\ next \in {"commit", "rename"}
      /\ UNCHANGED <<row, op, call, svc, faults, raced>> /\ faults \in 0..MaxFaults
  BY DEF Advance, StagePcs, Unpublished, Steps, IInv, TypeOK
<1>1. PICK o : o = thr[t].obj
  OBVIOUS
<1>2. /\ o \in Objects /\ obj[o] \in ObjectRecord /\ obj \in [Objects -> ObjectRecord]
      /\ obj[o].art = thr[t].art /\ obj[o].art # NoArtifact
      /\ (obj[o].loc = "out" => Exempt(o))
      /\ thr[t].kind = "stage" /\ StagingOK(t)
  BY <1>0, <1>1, StageKnows, StageThread
<1>3. CASE obj[o].txn # from
  BY <1>0, <1>1, <1>3, GiveUp DEF Advance, TxnStates
<1>4. CASE obj[o].txn = from
  <2>1. obj' = [obj EXCEPT ![o].txn = to] /\ Goto(t, next)
    BY <1>1, <1>4 DEF Advance
  <2>2. /\ \A u \in Threads : u # t => thr'[u] = thr[u]
        /\ thr'[t].pc = next /\ thr'[t].obj = o /\ thr'[t].kind = thr[t].kind
        /\ thr'[t].art = thr[t].art
    BY <1>1, <2>1, GotoChanges
  <2>3. WorkerMoves(o)
    BY <1>0, <1>1, <1>2, <2>2, WorkerMovesItsCopy
  <2>4. /\ obj' \in [Objects -> ObjectRecord]
        /\ \A p \in Objects : p # o => obj'[p] = obj[p]
        /\ obj'[o].txn = to /\ obj'[o].art = obj[o].art /\ obj'[o].cap = obj[o].cap
        /\ obj'[o].loc = obj[o].loc /\ obj'[o].intent = obj[o].intent /\ obj'[o].name = obj[o].name
    BY <1>2, <2>1 DEF ObjectRecord
  <2>a. ObjectMoves(o)
    BY <1>0, <1>1, <2>3, <2>4, TxnMoves
  <2>5. TypeOK'
    BY <1>0, <2>1, <2>4, GotoType DEF IInv, TypeOK
  <2>6. Moves
    BY <1>0, <1>1, <2>2, <2>4, <2>a, OwnCopy
  <2>7. obj[o].loc = "temp" => obj[o].intent = "live"
    BY <1>0, <1>1, <1>2 DEF StagingOK
  <2>8. StagingOK(t)'
    BY <1>0, <1>2, <2>2, <2>4, <2>7 DEF StagingOK, Exempt
  <2> QED
    BY <1>0, <2>1, <2>5, <2>6, <2>8, StageGoesOn
<1> QED
  BY <1>3, <1>4

LEMMA StagePublishKeeps ==
  ASSUME IInv, NEW t \in Threads, StagePublish(t)
  PROVE  IInv'
<1>0. /\ thr[t].pc = "rename" /\ thr[t].pc \in StagePcs \ {"open"} /\ thr[t].pc \in Unpublished
      /\ UNCHANGED <<row, op, call, svc, faults, raced>> /\ faults \in 0..MaxFaults
  BY DEF StagePublish, At, StagePcs, Unpublished, IInv, TypeOK
<1>1. PICK o : o = thr[t].obj
  OBVIOUS
<1>2. /\ o \in Objects /\ obj[o] \in ObjectRecord /\ obj \in [Objects -> ObjectRecord]
      /\ obj[o].art = thr[t].art /\ obj[o].art # NoArtifact /\ Working(o)
      /\ thr[t].kind = "stage" /\ StagingOK(t)
  BY <1>0, <1>1, StageKnows, StageThread
<1>3. CASE obj[o].loc # "temp"
  BY <1>0, <1>1, <1>3, GiveUp DEF StagePublish, TxnStates
<1>4. CASE obj[o].loc = "temp"
  <2>1. obj' = [obj EXCEPT ![o].loc = "out"] /\ Goto(t, "insert")
    BY <1>1, <1>4 DEF StagePublish
  <2>2. /\ obj'[o].loc = "out" /\ obj'[o].art = obj[o].art /\ obj'[o].cap = obj[o].cap
        /\ obj'[o].name = obj[o].name /\ obj'[o].intent = obj[o].intent /\ obj'[o].txn = obj[o].txn
        /\ \A p \in Objects : p # o => obj'[p] = obj[p]
        /\ obj' \in [Objects -> ObjectRecord]
    BY <1>2, <2>1 DEF ObjectRecord, Places
  <2>3. /\ \A u \in Threads : u # t => thr'[u] = thr[u]
        /\ thr'[t].pc = "insert" /\ thr'[t].obj = o /\ thr'[t].kind = thr[t].kind
        /\ thr'[t].art = thr[t].art
    BY <1>1, <2>1, GotoChanges
  <2>4. TypeOK'
    BY <1>0, <2>1, <2>2, GotoType DEF IInv, TypeOK, Steps
  <2>5. obj[o].intent = "live" /\ obj[o].txn = "COMMITTING"
    BY <1>0, <1>1, <1>2, <1>4 DEF StagingOK
  <2>6. WorkerMoves(o) => ObjectMoves(o)
    BY <1>2, <1>4, <2>2, <2>5 DEF ObjectMoves
  <2>7. Moves
    BY <1>0, <1>1, <2>2, <2>3, <2>6, OwnCopy
  <2>8. StagingOK(t)'
    BY <1>2, <2>2, <2>3, <2>5 DEF StagingOK, Unpublished
  <2> QED
    BY <1>0, <2>1, <2>4, <2>7, <2>8, StageGoesOn DEF StagePcs, Unpublished
<1> QED
  BY <1>3, <1>4

LEMMA StageOpenKeeps ==
  ASSUME IInv, NEW t \in Threads, StageOpen(t)
  PROVE  IInv'
<1>0. thr[t].pc = "open" /\ thr[t].pc \in StagePcs /\ UNCHANGED <<row, op, call, svc, faults, raced>>
  BY DEF StageOpen, At, StagePcs
<1>1. PICK o \in Objects :
        /\ obj[o].art = NoArtifact
        /\ obj' = [obj EXCEPT ![o].art = thr[t].art, ![o].cap = call.cap, ![o].loc = "part"]
        /\ thr' = [thr EXCEPT ![t].obj = o, ![t].pc = "seal"]
  BY DEF StageOpen
<1>2. /\ thr[t].kind = "stage" /\ t \in Workers /\ Unfinished(t) /\ FreshOK(t) /\ PruneOK(t)
      /\ thr[t] \in ThreadRecord /\ thr \in [Threads -> ThreadRecord] /\ thr[t].art \in Artifacts
      /\ thr[t].obj = 0 /\ o # 0 /\ obj \in [Objects -> ObjectRecord] /\ obj[o] \in ObjectRecord
      /\ call.cap \in BOOLEAN /\ thr[t].art # NoArtifact
  BY <1>0, StageThread, ArtifactAssumption DEF IInv, ThreadOK, PlaceOK, TypeOK, Objects
<1>3. /\ obj'[o].art = thr[t].art /\ obj'[o].loc = "part" /\ obj'[o].intent = obj[o].intent
      /\ obj'[o].txn = obj[o].txn /\ obj'[o].name = obj[o].name
      /\ \A p \in Objects : p # o => obj'[p] = obj[p]
      /\ obj' \in [Objects -> ObjectRecord]
  BY <1>1, <1>2 DEF ObjectRecord, Places
<1>4. /\ obj[o].loc = "none" /\ obj[o].intent = "none" /\ obj[o].txn = "COPYING" /\ obj[o].name = 0
  BY <1>1 DEF IInv, FilesOK, ObjectOK
<1>5. /\ \A u \in Threads : u # t => thr'[u] = thr[u]
      /\ thr'[t].pc = "seal" /\ thr'[t].obj = o
      /\ thr'[t].kind = thr[t].kind /\ thr'[t].art = thr[t].art /\ thr'[t].arts = thr[t].arts
  BY <1>1, <1>2 DEF ThreadRecord
<1>6. TypeOK'
  <2>1. [thr[t] EXCEPT !.obj = o, !.pc = "seal"] \in ThreadRecord
    <3>1. o \in 0..MaxObjects /\ "seal" \in Steps
      BY DEF Objects, Steps
    <3> QED
      BY <1>2, <3>1 DEF ThreadRecord
  <2> QED
    BY <1>0, <1>1, <1>2, <1>3, <2>1 DEF IInv, TypeOK
<1>7. ObjectMoves(o)
  BY <1>1, <1>2, <1>3, <1>4 DEF ObjectMoves, Publishable, TxnOrder
<1>8. Moves
  <2>1. \A p \in Objects : ObjectMoves(p)
    BY <1>3, <1>7, StillObject
  <2>2. (\A a \in Artifacts : RowMoves(a)) /\ (\A k \in Ops : OpMoves(k))
    BY <1>0, StillRow, StillOp
  <2>3. \A w \in Threads : thr'[w].kind = "stage" /\ thr'[w].obj # 0 =>
          \/ thr[w].kind = "stage" /\ thr'[w].obj = thr[w].obj
          \/ obj[thr'[w].obj].art = NoArtifact
    BY <1>1, <1>5
  <2> QED
    BY <1>0, <2>1, <2>2, <2>3 DEF Moves
<1>9. /\ thr'[t].pc \in StagePcs /\ thr'[t].pc \notin JournalPcs \cup IntentPcs \cup Reconciling
  BY <1>5 DEF JournalPcs, Stages, IntentPcs, Reconciling, StagePcs, Unpublished
<1>10. PlaceOK(t)'
  BY <1>2, <1>5, <1>9 DEF PlaceOK, Workers
<1>11. PruneOK(t)' /\ ReconcileOK(t)' /\ PreflightOK(t)'
  BY <1>0, <1>2, <1>5, <1>9 DEF PruneOK, ReconcileOK, PreflightOK
<1>12. StagingOK(t)'
  BY <1>2, <1>3, <1>4, <1>5 DEF StagingOK
<1>13. FreshOK(t)'
  <2>1. PICK a : a = thr[t].art
    OBVIOUS
  <2>2. Only(a, 0)
    BY <1>0, <1>2, <2>1 DEF FreshOK
  <2>3. Only(a, 0)'
    BY <1>0, <1>2, <1>8, <2>2, OnlyStays, OnlyWorker
  <2> QED
    BY <1>5, <2>1, <2>3 DEF FreshOK, Only, Objects
<1>14. ThreadOK(t)' /\ Unfinished(t)'
  BY <1>5, <1>10, <1>11, <1>12, <1>13 DEF ThreadOK, Unfinished
<1> QED
  BY <1>0, <1>2, <1>5, <1>6, <1>8, <1>14, StepKeeps

\* A worker that ends without a copy to show.
LEMMA StageEnds ==
  ASSUME IInv, NEW t \in Threads, thr[t].pc \in StagePcs, NEW res \in {"error", "cancelled"},
         Finish(t, res), UNCHANGED <<obj, row, op, call, svc, raced>>, faults' \in 0..MaxFaults
  PROVE  IInv'
<1>1. thr[t].kind = "stage" /\ t \in Workers /\ Unfinished(t) /\ res \in Results
  BY StageThread DEF Results
<1>2. /\ thr' \in [Threads -> ThreadRecord] /\ thr'[t].kind = "idle"
      /\ \A u \in Threads : u # t => thr'[u] = thr[u]
  BY <1>1, FinishType
<1>3. TypeOK'
  BY <1>2 DEF IInv, TypeOK
<1>4. SameStaging
  BY <1>2 DEF SameStaging
<1>5. Moves
  BY <1>4, Unchanged
<1> QED
  BY <1>1, <1>3, <1>5, FinishKeeps

LEMMA StageQueueKeeps ==
  ASSUME IInv, NEW t \in Threads, StageQueue(t)
  PROVE  IInv'
<1>0. /\ thr[t].pc = "insert" /\ thr[t].pc \in StagePcs \ {"open"} /\ thr[t].pc \in StagePcs
      /\ UNCHANGED <<obj, op, call, svc, faults, raced>> /\ faults \in 0..MaxFaults
  BY DEF StageQueue, At, StagePcs, IInv, TypeOK
<1>1. PICK o : o = thr[t].obj
  OBVIOUS
<1>2. /\ o \in Objects /\ obj[o].art = thr[t].art /\ obj[o].art \in Artifacts
      /\ thr[t].kind = "stage" /\ StagingOK(t)
  BY <1>0, <1>1, StageKnows, StageThread
<1>3. CASE ~ (Published(o) /\ (row[obj[o].art].state = "absent" \/ Queued(o)))
  BY <1>0, <1>1, <1>3, StageEnds DEF StageQueue
<1>4. CASE Published(o) /\ (row[obj[o].art].state = "absent" \/ Queued(o))
  <2>1. ensure_artifact_queued(o) /\ Goto(t, "close")
    BY <1>1, <1>4 DEF StageQueue
  <2>2. PICK a \in Artifacts : a = obj[o].art
    BY <1>2
  <2>3. /\ row' \in [Artifacts -> RowRecord] /\ RowMoves(a)
        /\ \A b \in Artifacts : b # a => row'[b] = row[b]
        /\ row'[a].obj = o
    BY <1>0, <1>2, <1>4, <2>1, <2>2, RowInserted
  <2>4. /\ \A u \in Threads : u # t => thr'[u] = thr[u]
        /\ thr'[t].pc = "close" /\ thr'[t].obj = o /\ thr'[t].kind = thr[t].kind
        /\ thr'[t].art = thr[t].art
    BY <1>1, <2>1, GotoChanges
  <2>5. TypeOK'
    BY <1>0, <2>1, <2>3, GotoType DEF IInv, TypeOK, Steps
  <2>6. SameStaging
    BY <1>0, <1>1, <1>2, <2>4 DEF SameStaging
  <2>7. Moves
    BY <1>0, <2>2, <2>3, <2>6, OneRow
  <2>8. StagingOK(t)'
    BY <1>0, <1>1, <1>2, <2>2, <2>3, <2>4 DEF StagingOK, Unpublished
  <2> QED
    BY <1>0, <2>1, <2>5, <2>7, <2>8, StageGoesOn DEF StagePcs, Unpublished
<1> QED
  BY <1>3, <1>4

LEMMA StageCloseKeeps ==
  ASSUME IInv, NEW t \in Threads, StageClose(t)
  PROVE  IInv'
<1>0. /\ thr[t].pc = "close" /\ thr[t].pc \in StagePcs \ {"open"} /\ thr[t].pc \in StagePcs
      /\ UNCHANGED <<row, op, call, svc, faults, raced>> /\ faults \in 0..MaxFaults
  BY DEF StageClose, At, StagePcs, IInv, TypeOK
<1>1. PICK o : o = thr[t].obj
  OBVIOUS
<1>2. /\ o \in Objects /\ o # 0 /\ obj[o] \in ObjectRecord /\ obj \in [Objects -> ObjectRecord]
      /\ obj[o].art = thr[t].art /\ obj[o].art \in Artifacts /\ obj[o].art # NoArtifact
      /\ thr[t].kind = "stage" /\ t \in Workers /\ Unfinished(t) /\ StagingOK(t)
  BY <1>0, <1>1, StageKnows, StageThread
<1>3. CASE obj[o].intent # "live"
  BY <1>0, <1>1, <1>3, StageEnds DEF StageClose
<1>4. CASE obj[o].intent = "live"
  <2>1. obj' = [obj EXCEPT ![o].intent = "gone", ![o].txn = "COMMITTED"] /\ Finish(t, "staged")
    BY <1>1, <1>4 DEF StageClose
  <2>2. /\ obj'[o].intent = "gone" /\ obj'[o].art = obj[o].art /\ obj'[o].cap = obj[o].cap
        /\ obj'[o].name = obj[o].name /\ obj'[o].loc = obj[o].loc /\ obj'[o].txn = "COMMITTED"
        /\ \A p \in Objects : p # o => obj'[p] = obj[p]
        /\ obj' \in [Objects -> ObjectRecord]
    BY <1>2, <2>1 DEF ObjectRecord, TxnStates
  <2>3. /\ thr' \in [Threads -> ThreadRecord] /\ thr'[t].kind = "idle" /\ thr'[t].pc = "done"
        /\ \A u \in Threads : u # t => thr'[u] = thr[u]
    BY <2>1, FinishType DEF Results
  <2>4. TypeOK'
    BY <1>0, <2>2, <2>3 DEF IInv, TypeOK
  <2>5. obj[o].loc = "out" /\ row[obj[o].art].obj = o
    BY <1>0, <1>1, <1>2 DEF StagingOK
  <2>6. WorkerMoves(o) => ObjectMoves(o)
    BY <1>2, <1>4, <2>2, <2>5 DEF ObjectMoves, Publishable
  <2>7. Moves
    BY <1>0, <1>1, <2>2, <2>3, <2>6, OwnCopy
  <2>8. row'[thr[t].art].state # "absent"
    BY <1>0, <1>2, <2>5 DEF IInv, FilesOK, RowOK
  <2> QED
    BY <1>0, <1>2, <2>1, <2>4, <2>7, <2>8, FinishKeeps DEF Results
<1> QED
  BY <1>3, <1>4

LEMMA FaultType ==
  ASSUME IInv, Fault
  PROVE  faults' \in 0..MaxFaults
BY ArtifactAssumption DEF Fault, IInv, TypeOK

LEMMA StageCancelledKeeps ==
  ASSUME IInv, NEW t \in Threads, StageCancelled(t)
  PROVE  IInv'
<1>1. /\ thr[t].pc \in Unpublished \ {"cleanTemp", "cleanIntent"} /\ faults' \in 0..MaxFaults
      /\ Goto(t, "cleanTemp") /\ UNCHANGED <<row, op, call, svc, raced>>
      /\ obj' = [obj EXCEPT ![thr[t].obj].txn = "ABORTED"]
  BY FaultType DEF StageCancelled, Unpublished
<1> QED
  BY <1>1, GiveUp DEF TxnStates

LEMMA StageFaultKeeps ==
  ASSUME IInv, NEW t \in Threads, StageFault(t)
  PROVE  IInv'
<1>0. /\ thr[t].pc \in {"seal", "intent", "ready", "rename", "insert", "close"}
      /\ thr[t].pc \in StagePcs \ {"open"} /\ thr[t].pc \in StagePcs
      /\ faults' \in 0..MaxFaults /\ UNCHANGED <<row, op, call, svc, raced>>
  BY FaultType DEF StageFault, StagePcs, Unpublished
<1>1. CASE thr[t].pc \in {"insert", "close"}
  <2>1. UNCHANGED obj /\ Finish(t, "error")
    BY <1>1 DEF StageFault
  <2> QED
    BY <1>0, <2>1, StageEnds
<1>2. CASE thr[t].pc \notin {"insert", "close"}
  <2>0. thr[t].pc \in Unpublished
    BY <1>0, <1>2 DEF Unpublished
  <2>1. PICK o : o = thr[t].obj
    OBVIOUS
  <2>2. PICK i \in IF thr[t].pc = "intent" THEN {"gone", "torn"} ELSE {obj[o].intent} :
          obj' = [obj EXCEPT ![o].intent = i]
    BY <1>2, <2>1 DEF StageFault
  <2>3. Goto(t, "cleanTemp")
    BY <1>2 DEF StageFault
  <2>4. /\ o \in Objects /\ o # 0 /\ obj[o] \in ObjectRecord /\ obj \in [Objects -> ObjectRecord]
        /\ obj[o].art = thr[t].art /\ obj[o].art \in Artifacts /\ obj[o].art # NoArtifact
        /\ obj[o].loc # "none" /\ Working(o) /\ StagingOK(t) /\ thr[t].kind = "stage"
        /\ (obj[o].loc = "out" => Exempt(o))
        /\ (obj[o].intent # "none" => obj[o].loc \in {"temp", "out", "dead"})
    BY <1>0, <2>0, <2>1, StageKnows, StageThread
  <2>5. /\ obj'[o].intent = i /\ obj'[o].art = obj[o].art /\ obj'[o].cap = obj[o].cap
        /\ obj'[o].name = obj[o].name /\ obj'[o].loc = obj[o].loc /\ obj'[o].txn = obj[o].txn
        /\ \A p \in Objects : p # o => obj'[p] = obj[p]
        /\ obj' \in [Objects -> ObjectRecord]
    BY <2>2, <2>4 DEF ObjectRecord
  <2>6. /\ \A u \in Threads : u # t => thr'[u] = thr[u]
        /\ thr'[t].pc = "cleanTemp" /\ thr'[t].obj = o /\ thr'[t].kind = thr[t].kind
        /\ thr'[t].art = thr[t].art
    BY <2>1, <2>3, GotoChanges
  <2>7. TypeOK'
    BY <1>0, <2>3, <2>5, GotoType DEF IInv, TypeOK, Steps
  <2>8. thr[t].pc = "intent" => obj[o].loc = "temp" /\ obj[o].intent = "none"
    BY <2>1, <2>4 DEF StagingOK
  <2>9. ObjectMoves(o)
    <3>1. WorkerMoves(o)
      BY <1>0, <2>1, <2>4, <2>6, WorkerMovesItsCopy
    <3>2. CASE thr[t].pc = "intent"
      BY <2>2, <2>4, <2>5, <2>8, <3>1, <3>2 DEF ObjectMoves, Publishable
    <3>3. CASE thr[t].pc # "intent"
      BY <2>0, <2>1, <2>2, <2>5, <3>1, <3>3, TxnMoves
    <3> QED
      BY <3>2, <3>3
  <2>10. Moves
    BY <1>0, <2>1, <2>5, <2>6, <2>9, OwnCopy
  <2>11. StagingOK(t)'
    BY <1>0, <2>4, <2>5, <2>6 DEF StagingOK, Exempt
  <2> QED
    BY <1>0, <2>0, <2>3, <2>7, <2>10, <2>11, StageGoesOn DEF StagePcs, Unpublished
<1> QED
  BY <1>1, <1>2

LEMMA CleanTempKeeps ==
  ASSUME IInv, NEW t \in Threads, CleanTemp(t)
  PROVE  IInv'
<1>0. /\ thr[t].pc = "cleanTemp" /\ thr[t].pc \in StagePcs \ {"open"} /\ thr[t].pc \in Unpublished
      /\ UNCHANGED <<row, op, call, svc, faults, raced>>
  BY DEF CleanTemp, At, StagePcs, Unpublished
<1>1. PICK o : o = thr[t].obj
  OBVIOUS
<1>2. /\ o \in Objects /\ obj[o] \in ObjectRecord /\ obj \in [Objects -> ObjectRecord]
      /\ obj[o].art = thr[t].art /\ obj[o].art # NoArtifact /\ obj[o].loc # "none"
      /\ (obj[o].loc = "out" => Exempt(o)) /\ thr[t].kind = "stage"
      /\ (obj[o].intent # "none" => obj[o].loc \in {"temp", "out", "dead"})
  BY <1>0, <1>1, StageKnows, StageThread
<1>3. /\ obj' = [obj EXCEPT ![o].loc = IF @ \in {"part", "temp"} THEN "dead" ELSE @]
      /\ Goto(t, "cleanIntent")
  BY <1>1 DEF CleanTemp
<1>4. /\ obj'[o].loc = (IF obj[o].loc \in {"part", "temp"} THEN "dead" ELSE obj[o].loc)
      /\ obj'[o].art = obj[o].art /\ obj'[o].cap = obj[o].cap
      /\ obj'[o].name = obj[o].name /\ obj'[o].intent = obj[o].intent /\ obj'[o].txn = obj[o].txn
      /\ \A p \in Objects : p # o => obj'[p] = obj[p]
      /\ obj' \in [Objects -> ObjectRecord]
  BY <1>2, <1>3 DEF ObjectRecord, Places
<1>5. /\ \A u \in Threads : u # t => thr'[u] = thr[u]
      /\ thr'[t].pc = "cleanIntent" /\ thr'[t].obj = o /\ thr'[t].kind = thr[t].kind
      /\ thr'[t].art = thr[t].art
  BY <1>1, <1>3, GotoChanges
<1>6. TypeOK'
  BY <1>0, <1>3, <1>4, GotoType DEF IInv, TypeOK, Steps
<1>7. WorkerMoves(o) => ObjectMoves(o)
  BY <1>2, <1>4 DEF ObjectMoves, Publishable, Exempt
<1>8. Moves
  BY <1>0, <1>1, <1>4, <1>5, <1>7, OwnCopy
<1>9. StagingOK(t)'
  BY <1>0, <1>2, <1>4, <1>5 DEF StagingOK, Exempt
<1> QED
  BY <1>0, <1>3, <1>6, <1>8, <1>9, StageGoesOn DEF StagePcs, Unpublished

LEMMA CleanIntentKeeps ==
  ASSUME IInv, NEW t \in Threads, CleanIntent(t)
  PROVE  IInv'
<1>0. /\ thr[t].pc = "cleanIntent" /\ thr[t].pc \in StagePcs \ {"open"} /\ thr[t].pc \in Unpublished
      /\ UNCHANGED <<row, op, call, svc, faults, raced>>
  BY DEF CleanIntent, At, StagePcs, Unpublished
<1>1. PICK o, res : o = thr[t].obj /\ res = CleanResult(t)
  OBVIOUS
<1>2. /\ o \in Objects /\ obj[o] \in ObjectRecord /\ obj \in [Objects -> ObjectRecord]
      /\ obj[o].art = thr[t].art /\ obj[o].art # NoArtifact /\ obj[o].loc # "none"
      /\ Staged(o) /\ (obj[o].loc = "out" => Exempt(o))
      /\ (obj[o].intent # "none" => obj[o].loc \in {"temp", "out", "dead"})
      /\ thr[t].kind = "stage" /\ t \in Workers /\ Unfinished(t)
  BY <1>0, <1>1, StageKnows, StageThread
<1>3. /\ obj' = [obj EXCEPT ![o].intent = IF @ = "live" THEN "moved" ELSE @]
      /\ Finish(t, res) /\ res \in {"error", "cancelled"} /\ res \in Results
  BY <1>1 DEF CleanIntent, CleanResult, Results
<1>4. /\ obj'[o].intent = (IF obj[o].intent = "live" THEN "moved" ELSE obj[o].intent)
      /\ obj'[o].art = obj[o].art /\ obj'[o].cap = obj[o].cap
      /\ obj'[o].name = obj[o].name /\ obj'[o].loc = obj[o].loc /\ obj'[o].txn = obj[o].txn
      /\ \A p \in Objects : p # o => obj'[p] = obj[p]
      /\ obj' \in [Objects -> ObjectRecord]
  BY <1>2, <1>3 DEF ObjectRecord
<1>5. /\ thr' \in [Threads -> ThreadRecord] /\ thr'[t].kind = "idle" /\ thr'[t].pc = "done"
      /\ \A u \in Threads : u # t => thr'[u] = thr[u]
  BY <1>3, FinishType
<1>6. TypeOK'
  BY <1>0, <1>4, <1>5 DEF IInv, TypeOK
<1>7. WorkerMoves(o) => ObjectMoves(o)
  BY <1>2, <1>4 DEF ObjectMoves, Publishable, Exempt
<1>8. Moves
  BY <1>0, <1>1, <1>4, <1>5, <1>7, OwnCopy
<1> QED
  BY <1>0, <1>2, <1>3, <1>6, <1>8, FinishKeeps

LEMMA CleanFaultKeeps ==
  ASSUME IInv, NEW t \in Threads, CleanFault(t)
  PROVE  IInv'
<1>0. /\ thr[t].pc \in {"cleanTemp", "cleanIntent"} /\ thr[t].pc \in StagePcs \ {"open"}
      /\ thr[t].pc \in StagePcs /\ thr[t].pc \in Unpublished
      /\ faults' \in 0..MaxFaults /\ UNCHANGED <<obj, row, op, call, svc, raced>>
  BY FaultType DEF CleanFault, StagePcs, Unpublished
<1>1. CASE thr[t].pc = "cleanTemp"
  <2>1. Goto(t, "cleanIntent")
    BY <1>1 DEF CleanFault, At
  <2>2. PICK o : o = thr[t].obj
    OBVIOUS
  <2>3. /\ \A u \in Threads : u # t => thr'[u] = thr[u]
        /\ thr'[t].pc = "cleanIntent" /\ thr'[t].obj = o /\ thr'[t].kind = thr[t].kind
        /\ thr'[t].art = thr[t].art
    BY <2>1, <2>2, GotoChanges
  <2>4. TypeOK'
    BY <1>0, <2>1, GotoType DEF IInv, TypeOK, Steps
  <2>5. obj[o].art = thr[t].art /\ (obj[o].loc = "out" => Exempt(o)) /\ thr[t].kind = "stage"
    BY <1>0, <2>2, StageKnows, StageThread
  <2>6. SameStaging
    BY <1>0, <2>2, <2>3, <2>5 DEF SameStaging
  <2>7. Moves
    BY <1>0, <2>6, Unchanged
  <2>8. StagingOK(t)'
    BY <1>0, <2>3, <2>5 DEF StagingOK, Exempt
  <2> QED
    BY <1>0, <2>1, <2>4, <2>7, <2>8, StageGoesOn DEF StagePcs, Unpublished
<1>2. CASE thr[t].pc = "cleanIntent"
  <2>1. Finish(t, CleanResult(t)) /\ CleanResult(t) \in {"error", "cancelled"}
    BY <1>2 DEF CleanFault, At, CleanResult
  <2> QED
    BY <1>0, <2>1, StageEnds
<1> QED
  BY <1>0, <1>1, <1>2

LEMMA StageStepKeeps ==
  ASSUME IInv, NEW t \in Threads, StageStep(t) \/ StageCancelled(t) \/ StageFault(t) \/ CleanFault(t)
  PROVE  IInv'
<1>1. CASE StageReady(t)
  BY <1>1, AdvanceKeeps DEF StageReady, At, TxnStates
<1>2. CASE StageBeginCommit(t)
  BY <1>2, AdvanceKeeps DEF StageBeginCommit, At, TxnStates
<1> QED
  BY <1>1, <1>2, StageOpenKeeps, StageSealKeeps, StageIntentKeeps, StagePublishKeeps, StageQueueKeeps,
     StageCloseKeeps, CleanTempKeeps, CleanIntentKeeps, StageCancelledKeeps, StageFaultKeeps,
     CleanFaultKeeps DEF StageStep

-----------------------------------------------------------------------------
(* The coroutine of a call *)

\* A call waits for its worker in a service that is up, or poisoned.
LEMMA CallKnows ==
  ASSUME IInv, call.pc # "idle"
  PROVE  /\ svc \notin {"down", "starting"} /\ call.w \in Workers /\ call.w \in Threads
         /\ call.art \in Artifacts /\ call.w # "cli"
         /\ \A w \in Workers : Unfinished(w) => w = call.w
BY DEF IInv, ServiceOK, CallOK, TypeOK, Threads, Workers

\* No worker is in a startup once the service is up.
LEMMA NoStartup ==
  ASSUME IInv, svc \notin {"down", "starting"}, NEW u \in Threads
  PROVE  ~ (thr[u].kind = "startup" /\ u \in Workers)
BY DEF IInv, ThreadOK, PlaceOK

\* What a start of a worker knows: a preflight has every intent before it.
LEMMA PreflightStarts ==
  ASSUME IInv, NEW a \in Artifacts, row[a].state = "absent", NEW p \in Objects, obj[p].art = a,
         Publishable(p), ~ Exempt(p)
  PROVE  p \in Intents
<1>1. row[a].obj # p
  BY DEF IInv, FilesOK, RowOK, Objects
<1> QED
  BY <1>1 DEF IInv, FilesOK, PublishedTracked, Publishable, Exempt, Intents, Entries

LEMMA LaunchKeeps ==
  ASSUME IInv, NEW w \in Workers, \A v \in Workers : ~ Unfinished(v),
         NEW kind, NEW pc, NEW a \in Artifacts, Launch(w, kind, pc, a),
         <<kind, pc>> \in {<<"preflight", "intents">>, <<"stage", "open">>, <<"recovery", "intents">>},
         kind = "stage" => Only(a, 0),
         svc \notin {"down", "starting"}, UNCHANGED <<obj, row, op, svc, faults, raced>>,
         call' \in [pc : {"idle", "preflight", "stopping", "staging", "cancelling", "recovering"},
                    art : Artifacts \cup {NoArtifact}, cap : BOOLEAN, w : Workers,
                    started : BOOLEAN, out : Results],
         call'.w = w, call'.art = a,
         call'.pc = IF kind = "stage" THEN "staging" ELSE IF kind = "recovery" THEN "recovering" ELSE kind,
         call'.out = "staged" => row[a].state # "absent"
  PROVE  IInv'
<1>0. /\ w \in Threads /\ w # "cli" /\ thr \in [Threads -> ThreadRecord]
      /\ kind \in {"preflight", "stage", "recovery"} /\ (pc = "open" <=> kind = "stage")
      /\ pc \in {"intents", "open"}
  BY DEF Threads, Workers, IInv, TypeOK
<1>1. PICK r : r = [IdleThread EXCEPT !.kind = kind, !.pc = pc, !.art = a,
                      !.todo = IF pc = "intents" THEN Intents ELSE {},
                      !.seen = IF pc = "intents" THEN Entries ELSE {}]
  OBVIOUS
<1>2. thr' = [thr EXCEPT ![w] = r]
  BY <1>1 DEF Launch
<1>3. /\ r.kind = kind /\ r.pc = pc /\ r.art = a /\ r.obj = 0 /\ r.arts = {} /\ r.bad = FALSE
      /\ r.todo = IF pc = "intents" THEN Intents ELSE {}
  BY <1>1 DEF IdleThread
<1>4. r \in ThreadRecord
  <2>1. /\ kind \in Kinds /\ pc \in Steps /\ a \in Artifacts \cup {NoArtifact}
        /\ (IF pc = "intents" THEN Intents ELSE {}) \in SUBSET Objects
        /\ (IF pc = "intents" THEN Entries ELSE {}) \in SUBSET Objects
    BY <1>0 DEF Kinds, Steps, Intents, Entries
  <2> QED
    BY <1>1, <2>1, IdleType DEF ThreadRecord
<1>5. thr'[w] = r /\ \A u \in Threads : u # w => thr'[u] = thr[u]
  BY <1>0, <1>2
<1>6. TypeOK'
  BY <1>0, <1>2, <1>4 DEF IInv, TypeOK
<1>7. SameStaging
  BY <1>3, <1>5 DEF SameStaging
<1>8. Moves
  BY <1>7, Unchanged
<1>9. ThreadOK(w)'
  <2>1. pc \notin JournalPcs \cup Reconciling \cup Unpublished
    BY <1>0 DEF JournalPcs, Stages, Reconciling, IntentPcs, Unpublished
  <2>2. PlaceOK(w)'
    BY <1>0, <1>3, <1>5, <2>1 DEF PlaceOK, StagePcs, IntentPcs, Unpublished
  <2>3. PruneOK(w)'
    BY <1>0, <1>3, <1>5, <2>1 DEF PruneOK, JournalPcs, Stages
  <2>4. StagingOK(w)' /\ ReconcileOK(w)'
    BY <1>0, <1>3, <1>5, <2>1 DEF StagingOK, ReconcileOK
  <2>5. FreshOK(w)'
    BY <1>0, <1>3, <1>5, <2>1 DEF FreshOK, Only, Publishable, Exempt
  <2>6. PreflightOK(w)'
    BY <1>0, <1>3, <1>5, PreflightStarts DEF PreflightOK, Publishable, Exempt
  <2> QED
    BY <2>2, <2>3, <2>4, <2>5, <2>6 DEF ThreadOK
<1>10. ASSUME NEW u \in Threads PROVE ThreadOK(u)'
  BY <1>5, <1>6, <1>8, <1>9, NoStartup, ThreadStays
<1>11. \A v \in Workers : Unfinished(v)' => v = w
  BY <1>5 DEF Unfinished, Threads
<1>12. ServiceOK'
  BY <1>11 DEF ServiceOK, OneWorker
<1>13. CallOK'
  <2>1. thr'[w].pc = pc /\ thr'[w].kind = kind /\ thr'[w].art = a /\ thr'[w].pc # "done"
    BY <1>0, <1>3, <1>5
  <2> QED
    BY <1>0, <2>1 DEF CallOK, At, Unfinished
<1> QED
  BY <1>6, <1>8, <1>10, <1>12, <1>13, FilesStay DEF IInv

\* The coroutine returns: with what its finished worker left, or while the worker goes on.
LEMMA ReturnKeeps ==
  ASSUME IInv, call.pc # "idle", NEW out \in Results, Return(out),
         thr' = thr \/ (~ Unfinished(call.w) /\ thr' = [thr EXCEPT ![call.w] = IdleThread]),
         out = "staged" => row[call.art].state # "absent",
         svc' \in {svc, "poisoned"}, UNCHANGED <<obj, row, op, raced>>, faults' \in 0..MaxFaults
  PROVE  IInv'
<1>1. /\ svc \notin {"down", "starting"} /\ call.w \in Workers /\ call.w \in Threads
      /\ call.art \in Artifacts /\ call.w # "cli" /\ thr \in [Threads -> ThreadRecord]
  BY CallKnows DEF IInv, TypeOK
<1>2. /\ call'.pc = "idle" /\ call'.art = call.art /\ call'.out = out
      /\ call' \in [pc : {"idle", "preflight", "stopping", "staging", "cancelling", "recovering"},
                    art : Artifacts \cup {NoArtifact}, cap : BOOLEAN, w : Workers,
                    started : BOOLEAN, out : Results]
  BY <1>1 DEF Return, NoCall, Workers
<1>3. thr' \in [Threads -> ThreadRecord] /\ \A u \in Threads : u # call.w => thr'[u] = thr[u]
  BY <1>1, IdleType
<1>4. thr'[call.w] = thr[call.w] \/ (thr'[call.w] = IdleThread /\ ~ Unfinished(call.w))
  BY <1>1
<1>5. svc' \in {"down", "starting", "up", "poisoned"} /\ svc' \notin {"down", "starting"}
  BY <1>1 DEF IInv, TypeOK
<1>6. TypeOK'
  BY <1>2, <1>3, <1>5 DEF IInv, TypeOK
<1>7. SameStaging
  BY <1>3, <1>4 DEF SameStaging, IdleThread
<1>8. Moves
  BY <1>7, Unchanged
<1>9. ASSUME NEW u \in Threads PROVE ThreadOK(u)'
  <2>1. CASE thr'[u] = thr[u]
    BY <1>1, <1>6, <1>8, <2>1, NoStartup, ThreadStays
  <2>2. CASE u = call.w /\ thr'[u] = IdleThread
    BY <1>1, <2>2, QuietThread DEF IdleThread
  <2> QED
    BY <1>3, <1>4, <2>1, <2>2
<1>10. \A v \in Workers : Unfinished(v)' => Unfinished(v)
  BY <1>3, <1>4 DEF Unfinished, IdleThread, Threads
<1>11. ServiceOK'
  BY <1>2, <1>5, <1>10 DEF IInv, ServiceOK, OneWorker
<1>12. CallOK'
  BY <1>1, <1>2 DEF CallOK
<1> QED
  BY <1>6, <1>8, <1>9, <1>11, <1>12, FilesStay DEF IInv

LEMMA AnswerKeeps ==
  ASSUME IInv, call.pc # "idle", At(call.w, "done"), NEW out \in Results, Answer(out),
         out = "staged" => row[call.art].state # "absent",
         UNCHANGED <<obj, row, op, svc, faults, raced>>
  PROVE  IInv'
<1>1. ~ Unfinished(call.w) /\ faults' \in 0..MaxFaults
  BY DEF At, Unfinished, IInv, TypeOK
<1> QED
  BY <1>1, ReturnKeeps DEF Answer

\* A call whose worker is done: no worker is at work.
LEMMA CallDone ==
  ASSUME IInv, call.pc # "idle", At(call.w, "done")
  PROVE  /\ \A v \in Workers : ~ Unfinished(v)
         /\ thr[call.w].res \in Results
         /\ thr[call.w].res \in {"found", "staged"} => row[call.art].state # "absent"
         /\ call.pc = "preflight" /\ thr[call.w].res = "missing" => Only(call.art, 0)
BY CallKnows DEF IInv, CallOK, At, Unfinished, TypeOK, ThreadRecord

LEMMA StageKeeps ==
  ASSUME IInv, NEW a \in Artifacts, NEW cap \in Authorities, Stage(a, cap)
  PROVE  IInv'
<1>1. /\ call.pc = "idle" /\ svc = "up" /\ \A v \in Workers : ~ Unfinished(v)
      /\ UNCHANGED <<obj, row, op, svc, faults, raced>>
  BY DEF Stage, _ensure_available
<1>2. PICK w \in Workers :
        /\ Launch(w, "preflight", "intents", a)
        /\ call' = [NoCall EXCEPT !.pc = "preflight", !.art = a, !.cap = cap, !.w = w]
  BY DEF Stage
<1>3. /\ call'.pc = "preflight" /\ call'.art = a /\ call'.w = w /\ call'.out = "none"
      /\ call' \in [pc : {"idle", "preflight", "stopping", "staging", "cancelling", "recovering"},
                    art : Artifacts \cup {NoArtifact}, cap : BOOLEAN, w : Workers,
                    started : BOOLEAN, out : Results]
  <2>1. cap \in BOOLEAN
    BY ArtifactAssumption
  <2> QED
    BY <1>2, <2>1 DEF NoCall, Results
<1> QED
  BY <1>1, <1>2, <1>3, LaunchKeeps

LEMMA PreflightDoneKeeps ==
  ASSUME IInv, PreflightDone
  PROVE  IInv'
<1>1. /\ call.pc = "preflight" /\ At(call.w, "done") /\ UNCHANGED <<obj, row, op, svc, faults, raced>>
      /\ svc \notin {"down", "starting"} /\ call.w \in Workers /\ call.art \in Artifacts
  BY CallKnows DEF PreflightDone
<1>2. CASE thr[call.w].res = "missing"
  <2>1. /\ Launch(call.w, "stage", "open", call.art)
        /\ call' = [call EXCEPT !.pc = "staging"]
    BY <1>2 DEF PreflightDone
  <2>2. /\ call'.pc = "staging" /\ call'.art = call.art /\ call'.w = call.w /\ call'.out = call.out
        /\ call' \in [pc : {"idle", "preflight", "stopping", "staging", "cancelling", "recovering"},
                      art : Artifacts \cup {NoArtifact}, cap : BOOLEAN, w : Workers,
                      started : BOOLEAN, out : Results]
    BY <2>1 DEF IInv, TypeOK
  <2>3. /\ \A v \in Workers : ~ Unfinished(v)
        /\ Only(call.art, 0)
    BY <1>1, <1>2, CallDone
  <2>4. call'.out = "staged" => row[call.art].state # "absent"
    BY <2>2 DEF IInv, CallOK
  <2> QED
    BY <1>1, <2>1, <2>2, <2>3, <2>4, LaunchKeeps
<1>3. CASE thr[call.w].res # "missing"
  <2>1. PICK out : out = IF thr[call.w].res = "found" THEN "staged" ELSE "error"
    OBVIOUS
  <2>2. Answer(out) /\ out \in Results /\ (out = "staged" => thr[call.w].res = "found")
    BY <1>3, <2>1 DEF PreflightDone, Results
  <2> QED
    BY <1>1, <2>2, CallDone, AnswerKeeps
<1> QED
  BY <1>2, <1>3

LEMMA AnswersKeep ==
  ASSUME IInv, PreflightStopped \/ StageDone \/ RecoveryDone
  PROVE  IInv'
<1>1. /\ call.pc # "idle" /\ At(call.w, "done") /\ UNCHANGED <<obj, row, op, svc, faults, raced>>
  BY DEF PreflightStopped, StageDone, RecoveryDone
<1>2. PICK out : Answer(out) /\ out \in {"cancelled", "staged", thr[call.w].res}
                 /\ (out = "staged" => thr[call.w].res \in {"found", "staged"})
  BY DEF PreflightStopped, StageDone, RecoveryDone
<1>3. out \in Results
  BY <1>1, <1>2, CallDone DEF Results
<1> QED
  BY <1>1, <1>2, <1>3, CallDone, AnswerKeeps

LEMMA CancelSettledKeeps ==
  ASSUME IInv, CancelSettled
  PROVE  IInv'
<1>1. /\ call.pc = "cancelling" /\ At(call.w, "done") /\ UNCHANGED <<obj, row, op, svc, faults, raced>>
      /\ svc \notin {"down", "starting"} /\ call.w \in Workers /\ call.art \in Artifacts
  BY CallKnows DEF CancelSettled
<1>2. CASE thr[call.w].res = "error" /\ call.started
  <2>1. /\ Launch(call.w, "recovery", "intents", call.art)
        /\ call' = [call EXCEPT !.pc = "recovering"]
    BY <1>2 DEF CancelSettled
  <2>2. /\ call'.pc = "recovering" /\ call'.art = call.art /\ call'.w = call.w /\ call'.out = call.out
        /\ call' \in [pc : {"idle", "preflight", "stopping", "staging", "cancelling", "recovering"},
                      art : Artifacts \cup {NoArtifact}, cap : BOOLEAN, w : Workers,
                      started : BOOLEAN, out : Results]
    BY <2>1 DEF IInv, TypeOK
  <2>3. \A v \in Workers : ~ Unfinished(v)
    BY <1>1, CallDone
  <2>4. call'.out = "staged" => row[call.art].state # "absent"
    BY <2>2 DEF IInv, CallOK
  <2> QED
    BY <1>1, <2>1, <2>2, <2>3, <2>4, LaunchKeeps
<1>3. CASE ~ (thr[call.w].res = "error" /\ call.started)
  <2>1. PICK out \in {"staged", "cancelled"} :
          Answer(out) /\ (out = "staged" => thr[call.w].res = "staged")
    BY <1>3 DEF CancelSettled
  <2> QED
    BY <1>1, <2>1, CallDone, AnswerKeeps DEF Results
<1> QED
  BY <1>2, <1>3

LEMMA GivesUpWaiting ==
  ASSUME IInv, _poison \/ GraceExpired
  PROVE  IInv'
<1>1. /\ call.pc # "idle" /\ Return("cancelled") /\ faults' \in 0..MaxFaults
      /\ svc' \in {svc, "poisoned"} /\ UNCHANGED <<obj, row, op, thr, raced>>
  BY FaultType DEF _poison, GraceExpired
<1> QED
  BY <1>1, ReturnKeeps DEF Results

\* The worker is told to stop; nothing it knows changes.
LEMMA PreflightStopKeeps ==
  ASSUME IInv, PreflightStop
  PROVE  IInv'
<1>1. /\ call.pc = "preflight" /\ Unfinished(call.w)
      /\ thr' = [thr EXCEPT ![call.w].stop = TRUE] /\ call' = [call EXCEPT !.pc = "stopping"]
      /\ UNCHANGED <<obj, row, op, svc, faults, raced>>
      /\ call.w \in Threads /\ call.w \in Workers /\ svc \notin {"down", "starting"}
      /\ thr \in [Threads -> ThreadRecord] /\ thr[call.w] \in ThreadRecord
  BY CallKnows DEF PreflightStop, IInv, TypeOK
<1>2. PICK w \in Workers : w = call.w
  BY <1>1
<1>3. /\ \A u \in Threads : u # w => thr'[u] = thr[u]
      /\ thr'[w].kind = thr[w].kind /\ thr'[w].pc = thr[w].pc /\ thr'[w].art = thr[w].art
      /\ thr'[w].obj = thr[w].obj /\ thr'[w].op = thr[w].op /\ thr'[w].todo = thr[w].todo
      /\ thr'[w].arts = thr[w].arts /\ thr'[w].bad = thr[w].bad /\ thr'[w].res = thr[w].res
  BY <1>1, <1>2 DEF ThreadRecord
<1>4. /\ call'.pc = "stopping" /\ call'.art = call.art /\ call'.w = w /\ call'.out = call.out
  BY <1>1, <1>2 DEF IInv, TypeOK
<1>5. TypeOK'
  <2>1. thr' \in [Threads -> ThreadRecord]
    BY <1>1 DEF ThreadRecord
  <2> QED
    BY <1>1, <2>1 DEF IInv, TypeOK
<1>6. SameStaging
  BY <1>1, <1>3 DEF SameStaging
<1>7. Moves
  BY <1>1, <1>6, Unchanged
<1>8. thr[w].kind = "preflight" /\ thr[w].pc \in IntentPcs
  BY <1>1, <1>2 DEF IInv, CallOK, ThreadOK, PlaceOK
<1>9. ThreadOK(w)'
  <2>1. ThreadOK(w)
    BY <1>1, <1>2 DEF IInv
  <2>2. thr'[w].pc \notin JournalPcs \cup StagePcs \cup Unpublished \cup {"open", "prepare"}
    BY <1>3, <1>8 DEF IntentPcs, JournalPcs, Stages, StagePcs, Unpublished
  <2>3. PlaceOK(w)'
    BY <1>1, <1>3, <2>1 DEF ThreadOK, PlaceOK
  <2>4. PruneOK(w)'
    BY <1>1, <1>3, <2>1, <2>2 DEF ThreadOK, PruneOK, JournalPcs, Stages
  <2>5. StagingOK(w)' /\ FreshOK(w)'
    BY <1>3, <1>8, <2>2 DEF StagingOK, FreshOK
  <2>7. ReconcileOK(w)'
    <3>1. PICK o : o = thr[w].obj
      OBVIOUS
    <3>2. Staged(o)' => Staged(o)
      BY <1>3 DEF Staged
    <3>3. ReconcileOK(w) /\ UNCHANGED <<obj, row, raced>>
      BY <1>1, <2>1 DEF ThreadOK
    <3> QED
      BY <1>3, <3>1, <3>2, <3>3 DEF ReconcileOK, Staged
  <2>8. PreflightOK(w)'
    BY <1>1, <1>3, <2>1 DEF ThreadOK, PreflightOK, Publishable, Exempt
  <2> QED
    BY <2>3, <2>4, <2>5, <2>7, <2>8 DEF ThreadOK
<1>10. ASSUME NEW u \in Threads PROVE ThreadOK(u)'
  BY <1>1, <1>3, <1>5, <1>7, <1>9, NoStartup, ThreadStays
<1>11. \A v \in Workers : Unfinished(v)' <=> Unfinished(v)
  BY <1>3 DEF Unfinished, Threads
<1>12. ServiceOK'
  BY <1>1, <1>2, <1>4, <1>11, CallKnows DEF ServiceOK, OneWorker
<1>13. CallOK'
  BY <1>1, <1>2, <1>3, <1>4 DEF IInv, CallOK, At, Unfinished
<1> QED
  BY <1>5, <1>7, <1>10, <1>12, <1>13, FilesStay DEF IInv

LEMMA request_cancelKeeps ==
  ASSUME IInv, request_cancel
  PROVE  IInv'
<1>a. PICK o : o = thr[call.w].obj
  OBVIOUS
<1>b. PICK early \in BOOLEAN : early <=> obj[o].txn \in {"COPYING", "READY_TO_COMMIT"}
  OBVIOUS
<1>c. PICK started : started = (obj[o].txn \in {"COMMITTING", "COMMITTED"})
  OBVIOUS
<1>d. started = TRUE \/ started = FALSE
  <2>1. CASE obj[o].txn \in {"COMMITTING", "COMMITTED"}
    BY <1>c, <2>1
  <2>2. CASE obj[o].txn \notin {"COMMITTING", "COMMITTED"}
    BY <1>c, <2>2
  <2> QED
    BY <2>1, <2>2
<1>1. /\ o = thr[call.w].obj /\ early = (obj[o].txn \in {"COPYING", "READY_TO_COMMIT"})
      /\ started = (obj[o].txn \in {"COMMITTING", "COMMITTED"}) /\ started \in BOOLEAN
  BY <1>a, <1>b, <1>c, <1>d
<1>2. /\ call.pc = "staging" /\ Unfinished(call.w) /\ o # 0
      /\ obj' = (IF early THEN [obj EXCEPT ![o].txn = "ABORTED"] ELSE obj)
      /\ call' = [call EXCEPT !.pc = "cancelling",
                    !.started = started]
      /\ UNCHANGED <<row, op, thr, svc, faults, raced>>
      /\ call.w \in Threads /\ call.w \in Workers /\ svc \notin {"down", "starting"}
  BY <1>1, CallKnows DEF request_cancel
<1>3. thr[call.w].kind = "stage" /\ thr[call.w].pc \in StagePcs \ {"open"}
  BY <1>1, <1>2 DEF IInv, CallOK, ThreadOK, PlaceOK
<1>4. /\ o \in Objects /\ obj[o] \in ObjectRecord /\ obj \in [Objects -> ObjectRecord]
      /\ obj[o].art # NoArtifact /\ obj[o].loc # "none"
      /\ (obj[o].intent # "none" => obj[o].loc \in {"temp", "out", "dead"})
  BY <1>1, <1>2, <1>3, StageKnows
<1>5. /\ obj'[o].txn = (IF early THEN "ABORTED" ELSE obj[o].txn)
      /\ obj'[o].art = obj[o].art /\ obj'[o].cap = obj[o].cap
      /\ obj'[o].name = obj[o].name /\ obj'[o].loc = obj[o].loc /\ obj'[o].intent = obj[o].intent
      /\ \A p \in Objects : p # o => obj'[p] = obj[p]
      /\ obj' \in [Objects -> ObjectRecord]
  BY <1>2, <1>4 DEF ObjectRecord, TxnStates
<1>6. /\ call'.pc = "cancelling" /\ call'.art = call.art /\ call'.w = call.w /\ call'.out = call.out
      /\ call' \in [pc : {"idle", "preflight", "stopping", "staging", "cancelling", "recovering"},
                    art : Artifacts \cup {NoArtifact}, cap : BOOLEAN, w : Workers,
                    started : BOOLEAN, out : Results]
  BY <1>1, <1>2 DEF IInv, TypeOK
<1>7. TypeOK'
  BY <1>2, <1>5, <1>6 DEF IInv, TypeOK
<1>8. ObjectMoves(o)
  <2>1. obj[o].loc = "out" /\ ~ obj[o].cap => ~ early
    BY <1>1, <1>4 DEF IInv, FilesOK, ObjectOK
  <2>2. obj[o].loc = "out" /\ ~ obj[o].cap => obj[o].txn \in {"COMMITTING", "COMMITTED"}
    BY <1>4 DEF IInv, FilesOK, ObjectOK
  <2> QED
    BY <1>1, <1>4, <1>5, <2>1, <2>2 DEF ObjectMoves, TxnOrder, Publishable, Exempt
<1>9. SameStaging
  BY <1>2 DEF SameStaging
<1>10. Moves
  BY <1>2, <1>5, <1>8, <1>9, OneObject
<1>11. ASSUME NEW u \in Threads PROVE ThreadOK(u)'
  BY <1>2, <1>7, <1>10, NoStartup, ThreadStays
<1>12. ServiceOK'
  BY <1>2, <1>6, CallKnows DEF ServiceOK, OneWorker, Unfinished
<1>13. CallOK'
  BY <1>2, <1>3, <1>6 DEF IInv, CallOK, At, Unfinished
<1> QED
  BY <1>7, <1>10, <1>11, <1>12, <1>13, FilesStay DEF IInv

LEMMA CallStepKeeps ==
  ASSUME IInv, CallStep \/ CallFault
  PROVE  IInv'
BY PreflightDoneKeeps, AnswersKeep, CancelSettledKeeps, GivesUpWaiting, PreflightStopKeeps,
   request_cancelKeeps DEF CallStep, CallFault

-----------------------------------------------------------------------------
(* Processes: start, crash, and the upload's confirmation *)

\* A process starts with the reconciliation.
LEMMA StartThreadKnows ==
  ASSUME IInv
  PROVE  /\ StartThread \in ThreadRecord /\ StartThread.kind = "startup" /\ StartThread.pc = "ops"
         /\ StartThread.arts = {}
<1>1. {k \in Ops : op[k].active \in {"torn", "active"}} \in SUBSET Ops
  OBVIOUS
<1>2. "startup" \in Kinds /\ "ops" \in Steps
  BY DEF Kinds, Steps
<1> QED
  BY <1>1, <1>2, IdleType DEF StartThread, IdleThread, ThreadRecord

LEMMA StartsOK ==
  ASSUME NEW t \in Threads, thr'[t] = StartThread, StartThread.kind = "startup", StartThread.pc = "ops",
         StartThread.arts = {}, t \in Workers => svc' = "starting"
  PROVE  ThreadOK(t)'
BY DEF ThreadOK, PlaceOK, PruneOK, StagingOK, ReconcileOK, FreshOK, PreflightOK, JournalPcs, Stages,
       Reconciling, IntentPcs, StagePcs, Unpublished

LEMMA StartServiceKeeps ==
  ASSUME IInv, StartService
  PROVE  IInv'
<1>1. /\ svc = "down" /\ svc' = "starting" /\ thr' = [thr EXCEPT !["w1"] = StartThread]
      /\ UNCHANGED <<obj, row, op, call, faults, raced>>
  BY DEF StartService
<1>2. /\ StartThread \in ThreadRecord /\ StartThread.kind = "startup" /\ StartThread.pc = "ops"
      /\ StartThread.arts = {}
  BY StartThreadKnows
<1>3. call.pc = "idle" /\ ~ Unfinished("w1") /\ ~ Unfinished("w2")
  BY <1>1 DEF IInv, ServiceOK
<1>4. /\ thr'["w1"] = StartThread /\ thr' \in [Threads -> ThreadRecord] /\ "w1" \in Threads
      /\ \A u \in Threads : u # "w1" => thr'[u] = thr[u]
  BY <1>1, <1>2 DEF IInv, TypeOK, Threads, Workers
<1>5. TypeOK'
  BY <1>1, <1>4 DEF IInv, TypeOK
<1>6. SameStaging
  BY <1>1, <1>2, <1>4 DEF SameStaging
<1>7. Moves
  BY <1>1, <1>6, Unchanged
<1>8. ASSUME NEW u \in Threads PROVE ThreadOK(u)'
  <2>1. CASE u = "w1"
    BY <1>1, <1>2, <1>4, <2>1, StartsOK
  <2>2. CASE u # "w1"
    BY <1>1, <1>4, <1>5, <1>7, <2>2, ThreadStays
  <2> QED
    BY <2>1, <2>2
<1>9. ServiceOK'
  BY <1>1, <1>3, <1>4 DEF ServiceOK, OneWorker, Unfinished, Workers, Threads
<1>10. CallOK'
  BY <1>1, <1>3 DEF IInv, CallOK
<1> QED
  BY <1>5, <1>7, <1>8, <1>9, <1>10, FilesStay DEF IInv

LEMMA StartPruningKeeps ==
  ASSUME IInv, StartPruning
  PROVE  IInv'
<1>1. thr' = [thr EXCEPT !["cli"] = StartThread] /\ UNCHANGED <<obj, row, op, call, svc, faults, raced>>
  BY DEF StartPruning
<1>2. /\ StartThread \in ThreadRecord /\ StartThread.kind = "startup" /\ StartThread.pc = "ops"
      /\ StartThread.arts = {}
  BY StartThreadKnows
<1>3. /\ thr'["cli"] = StartThread /\ thr' \in [Threads -> ThreadRecord] /\ "cli" \in Threads
      /\ "cli" \notin Workers /\ \A u \in Threads : u # "cli" => thr'[u] = thr[u]
  BY <1>1, <1>2 DEF IInv, TypeOK, Threads, Workers
<1>4. TypeOK'
  BY <1>1, <1>3 DEF IInv, TypeOK
<1>5. SameStaging
  BY <1>1, <1>2, <1>3 DEF SameStaging
<1>6. Moves
  BY <1>1, <1>5, Unchanged
<1>7. ThreadOK("cli")'
  BY <1>2, <1>3, StartsOK
<1> QED
  BY <1>1, <1>3, <1>4, <1>6, <1>7, StepKeeps

\* What a killed process leaves of its half-written records.
LEMMA TornIntentMoves ==
  ASSUME IInv, NEW o \in Objects, NEW t \in Threads, At(t, "intent"), thr[t].obj = o,
         thr'[t] = IdleThread, obj'[o] = [obj[o] EXCEPT !.intent = "torn"]
  PROVE  ObjectMoves(o)
<1>1. thr[t].kind = "stage" /\ thr[t].pc = "intent"
  BY StageIsStage DEF At, StagePcs, Unpublished
<1>2. obj[o].loc = "temp" /\ obj[o].intent = "none" /\ obj[o].art # NoArtifact
  BY <1>1 DEF IInv, ThreadOK, StagingOK, FilesOK, ObjectOK
<1>3. WorkerMoves(o)
  BY <1>1 DEF WorkerMoves, IdleThread
<1>4. /\ obj'[o].intent = "torn" /\ obj'[o].art = obj[o].art /\ obj'[o].cap = obj[o].cap
      /\ obj'[o].name = obj[o].name /\ obj'[o].loc = obj[o].loc /\ obj'[o].txn = obj[o].txn
  BY DEF IInv, TypeOK, ObjectRecord
<1> QED
  BY <1>2, <1>3, <1>4 DEF ObjectMoves, Publishable

LEMMA TornActiveMoves ==
  ASSUME IInv, NEW k \in Ops, NEW t \in Threads, At(t, "prepare"), thr[t].op = k,
         thr'[t] = IdleThread, op'[k] = [op[k] EXCEPT !.active = "torn"]
  PROVE  OpMoves(k)
<1>1. t = "cli" /\ op[k].active = "none" /\ thr'["cli"] # thr["cli"]
  BY DEF IInv, ThreadOK, PlaceOK, PruneOK, At, IdleThread, Kinds, TypeOK, ThreadRecord, StagePcs, Unpublished,
         IntentPcs, JournalPcs, Stages
<1>2. op'[k].active = "torn"
  BY DEF IInv, TypeOK, OpRecord
<1> QED
  BY <1>1, <1>2 DEF OpMoves, Journalled

LEMMA TornEventMoves ==
  ASSUME IInv, NEW k \in Ops, op'[k].obj = op[k].obj, op'[k].active = op[k].active,
         \A s \in Stages : op'[k].ev[s] = op[k].ev[s] \/ (op[k].ev[s] = "none" /\ op'[k].ev[s] = "torn")
  PROVE  OpMoves(k)
<1>1. \A s \in Stages : Committed(k, s)' <=> Committed(k, s)
  BY DEF Committed
<1>2. Journalled(k)' <=> Journalled(k)
  BY DEF Journalled
<1> QED
  BY <1>1, <1>2 DEF OpMoves, Stages

LEMMA CrashMoves ==
  ASSUME IInv, NEW ts \in SUBSET Threads, Crash(ts)
  PROVE  Moves /\ TypeOK'
<1>1. PICK torn \in BOOLEAN :
        /\ obj' = [o \in Objects |-> IF torn /\ o \in TornIntents(ts)
                                     THEN [obj[o] EXCEPT !.intent = "torn"] ELSE obj[o]]
        /\ op' = [k \in Ops |->
                    IF torn /\ k \in TornActive(ts) THEN [op[k] EXCEPT !.active = "torn"]
                    ELSE IF torn
                    THEN [op[k] EXCEPT !.ev = [s \in Stages |->
                            IF \E t \in ts : At(t, s) /\ thr[t].op = k /\ @[s] = "none"
                            THEN "torn" ELSE @[s]]]
                    ELSE op[k]]
  BY DEF Crash
<1>2. /\ thr' = [t \in Threads |-> IF t \in ts THEN IdleThread ELSE thr[t]]
      /\ UNCHANGED <<row, raced>> /\ faults' \in 0..MaxFaults
      /\ svc' \in {svc, "down"} /\ call' \in {call, NoCall}
  BY FaultType DEF Crash
<1>3. ASSUME NEW o \in Objects PROVE ObjectMoves(o) /\ obj'[o] \in ObjectRecord
  <2>1. CASE torn /\ o \in TornIntents(ts)
    <3>1. obj'[o] = [obj[o] EXCEPT !.intent = "torn"]
      BY <1>1, <2>1
    <3>2. PICK t \in ts : At(t, "intent") /\ thr[t].obj = o
      BY <2>1 DEF TornIntents
    <3>3. t \in Threads /\ thr'[t] = IdleThread
      BY <1>2
    <3>4. obj'[o] \in ObjectRecord
      BY <3>1 DEF IInv, TypeOK, ObjectRecord
    <3> QED
      BY <3>1, <3>2, <3>3, <3>4, TornIntentMoves
  <2>2. CASE ~ (torn /\ o \in TornIntents(ts))
    <3>1. obj'[o] = obj[o]
      BY <1>1, <2>2
    <3> QED
      BY <3>1, StillObject DEF IInv, TypeOK
  <2> QED
    BY <2>1, <2>2
<1>4. ASSUME NEW k \in Ops PROVE OpMoves(k) /\ op'[k] \in OpRecord
  <2>0. op[k] \in OpRecord
    BY DEF IInv, TypeOK
  <2>1. CASE torn /\ k \in TornActive(ts)
    <3>1. op'[k] = [op[k] EXCEPT !.active = "torn"]
      BY <1>1, <2>1
    <3>2. PICK t \in ts : At(t, "prepare") /\ thr[t].op = k
      BY <2>1 DEF TornActive
    <3>3. t \in Threads /\ thr'[t] = IdleThread
      BY <1>2
    <3>4. op'[k] \in OpRecord
      BY <2>0, <3>1 DEF OpRecord
    <3> QED
      BY <3>1, <3>2, <3>3, <3>4, TornActiveMoves
  <2>2. CASE torn /\ k \notin TornActive(ts)
    <3>1. PICK ev : ev = [s \in Stages |-> IF \E t \in ts : At(t, s) /\ thr[t].op = k /\ op[k].ev[s] = "none"
                                           THEN "torn" ELSE op[k].ev[s]]
      OBVIOUS
    <3>2. op'[k] = [op[k] EXCEPT !.ev = ev]
      BY <1>1, <2>2, <3>1
    <3>3. \A s \in Stages : ev[s] = op[k].ev[s] \/ (op[k].ev[s] = "none" /\ ev[s] = "torn")
      BY <3>1
    <3>4. ev \in [Stages -> {"none", "torn", "ok"}]
      BY <2>0, <3>1 DEF OpRecord
    <3>5. op'[k].obj = op[k].obj /\ op'[k].active = op[k].active /\ op'[k].ev = ev /\ op'[k] \in OpRecord
      BY <2>0, <3>2, <3>4 DEF OpRecord
    <3> QED
      BY <3>3, <3>5, TornEventMoves
  <2>3. CASE ~ torn
    <3>1. op'[k] = op[k]
      BY <1>1, <2>3
    <3> QED
      BY <2>0, <3>1, StillOp
  <2> QED
    BY <2>1, <2>2, <2>3
<1>5. SameStaging
  BY <1>2 DEF SameStaging, IdleThread
<1>6. TypeOK'
  <2>1. NoCall \in [pc : {"idle", "preflight", "stopping", "staging", "cancelling", "recovering"},
                    art : Artifacts \cup {NoArtifact}, cap : BOOLEAN, w : Workers, started : BOOLEAN,
                    out : Results]
    BY DEF NoCall, Workers, Results
  <2>2. obj' \in [Objects -> ObjectRecord]
    BY <1>1, <1>3
  <2>3. op' \in [Ops -> OpRecord]
    BY <1>1, <1>4
  <2>4. thr' \in [Threads -> ThreadRecord]
    BY <1>2, IdleType DEF IInv, TypeOK
  <2> QED
    BY <1>2, <2>1, <2>2, <2>3, <2>4 DEF IInv, TypeOK
<1> QED
  BY <1>2, <1>3, <1>4, <1>5, <1>6, StillRow DEF Moves, SameStaging

LEMMA CrashServiceKeeps ==
  ASSUME IInv, CrashService
  PROVE  IInv'
<1>1. Crash(Workers) /\ Workers \in SUBSET Threads /\ "cli" \notin Workers
  BY DEF CrashService, Threads, Workers
<1>2. Moves /\ TypeOK'
  BY <1>1, CrashMoves
<1>3. /\ thr' = [t \in Threads |-> IF t \in Workers THEN IdleThread ELSE thr[t]]
      /\ svc' = "down" /\ call' = NoCall
  BY <1>1 DEF Crash
<1>4. ASSUME NEW u \in Threads PROVE ThreadOK(u)'
  <2>1. CASE u \in Workers
    BY <1>1, <1>3, <2>1, QuietThread DEF IdleThread
  <2>2. CASE u \notin Workers
    BY <1>2, <1>3, <2>2, ThreadStays
  <2> QED
    BY <2>1, <2>2
<1>5. \A w \in Workers : ~ Unfinished(w)'
  BY <1>1, <1>3 DEF Unfinished, IdleThread
<1>6. ServiceOK'
  BY <1>3, <1>5 DEF ServiceOK, OneWorker, NoCall, Workers
<1>7. CallOK'
  BY <1>3 DEF CallOK, NoCall
<1> QED
  BY <1>2, <1>4, <1>6, <1>7, FilesStay DEF IInv

LEMMA CrashPruningKeeps ==
  ASSUME IInv, CrashPruning
  PROVE  IInv'
<1>1. Crash({"cli"}) /\ {"cli"} \in SUBSET Threads /\ "cli" \notin Workers /\ "cli" \in Threads
  BY DEF CrashPruning, Threads, Workers
<1>2. Moves /\ TypeOK'
  BY <1>1, CrashMoves
<1>3. /\ thr' = [t \in Threads |-> IF t \in {"cli"} THEN IdleThread ELSE thr[t]]
      /\ UNCHANGED <<svc, call>>
  BY <1>1 DEF Crash
<1>4. thr'["cli"] = IdleThread /\ \A u \in Threads : u # "cli" => thr'[u] = thr[u]
  BY <1>1, <1>3
<1>5. ThreadOK("cli")'
  BY <1>1, <1>4, QuietThread DEF IdleThread
<1> QED
  BY <1>1, <1>2, <1>3, <1>4, <1>5, StepKeeps

LEMMA ConfirmKeeps ==
  ASSUME IInv, NEW a \in Artifacts, Confirm(a)
  PROVE  IInv'
<1>1. /\ row[a].state = "pending" /\ row' = [row EXCEPT ![a].state = "confirmed"]
      /\ UNCHANGED <<obj, op, thr, call, svc, faults, raced>> /\ row \in [Artifacts -> RowRecord]
      /\ row[a] \in RowRecord
  BY DEF Confirm, IInv, TypeOK
<1>2. /\ row'[a].state = "confirmed" /\ row'[a].obj = row[a].obj /\ row'[a].path = row[a].path
      /\ row' \in [Artifacts -> RowRecord] /\ \A b \in Artifacts : b # a => row'[b] = row[b]
  BY <1>1 DEF RowRecord
<1>3. RowMoves(a)
  BY <1>1, <1>2 DEF RowMoves, IInv, FilesOK, RowOK
<1>4. SameStaging
  BY <1>1 DEF SameStaging
<1>5. Moves
  BY <1>1, <1>2, <1>3, <1>4, OneRow
<1>6. TypeOK'
  BY <1>1, <1>2 DEF IInv, TypeOK
<1>7. ThreadOK("cli")'
  BY <1>1, <1>5, <1>6, ThreadStays DEF Threads, Workers
<1> QED
  BY <1>1, <1>5, <1>6, <1>7, StepKeeps DEF Threads, Workers

-----------------------------------------------------------------------------
(* The theorems *)

LEMMA InitOK ==
  ASSUME Init
  PROVE  IInv
<1>1. TypeOK
  <2>1. row \in [Artifacts -> RowRecord]
    BY ArtifactAssumption DEF Init, RowRecord
  <2>2. obj \in [Objects -> ObjectRecord]
    BY ArtifactAssumption DEF Init, ObjectRecord, Places, TxnStates
  <2>3. op \in [Ops -> OpRecord]
    BY ArtifactAssumption DEF Init, OpRecord
  <2>4. thr \in [Threads -> ThreadRecord]
    BY IdleType DEF Init
  <2>5. call \in [pc : {"idle", "preflight", "stopping", "staging", "cancelling", "recovering"},
                  art : Artifacts \cup {NoArtifact}, cap : BOOLEAN, w : Workers, started : BOOLEAN,
                  out : Results]
    BY DEF Init, NoCall, Workers, Results
  <2>6. svc \in {"down", "starting", "up", "poisoned"} /\ raced \subseteq Objects /\ faults \in 0..MaxFaults
    BY ArtifactAssumption DEF Init
  <2> QED
    BY <2>1, <2>2, <2>3, <2>4, <2>5, <2>6 DEF TypeOK
<1>2. /\ \A o \in Objects : obj[o].art = NoArtifact /\ obj[o].loc = "none" /\ obj[o].name = 0
                            /\ obj[o].intent = "none" /\ obj[o].txn = "COPYING"
      /\ \A a \in Artifacts : row[a].state = "absent" /\ row[a].obj = 0 /\ row[a].path = 0
      /\ \A k \in Ops : op[k].active = "none"
      /\ \A t \in Threads : thr[t] = IdleThread
  BY DEF Init
<1>3. FilesOK
  BY <1>2 DEF FilesOK, RowOK, JournalOK, Journalled, ObjectOK, PublishedTracked, UniqueOK, Publishable
<1>4. ASSUME NEW t \in Threads PROVE ThreadOK(t)
  BY <1>2 DEF IdleThread, ThreadOK, PlaceOK, PruneOK, StagingOK, ReconcileOK, FreshOK, PreflightOK,
              JournalPcs, Stages, Reconciling, IntentPcs, StagePcs, Unpublished
<1>5. ServiceOK
  BY <1>2 DEF Init, NoCall, IdleThread, ServiceOK, OneWorker, Unfinished, Threads, Workers
<1>6. CallOK
  BY DEF Init, NoCall, CallOK
<1> QED
  BY <1>1, <1>3, <1>4, <1>5, <1>6 DEF IInv

LEMMA NextKeeps ==
  ASSUME IInv, Next
  PROVE  IInv'
<1>1. ASSUME NEW t \in Threads, ThreadStep(t) \/ ThreadFault(t) PROVE IInv'
  BY <1>1, PruneStepKeeps, ReconcileStepKeeps, StageStepKeeps DEF ThreadStep, ThreadFault
<1>2. CASE CallStep \/ CallFault
  BY <1>2, CallStepKeeps
<1>3. ASSUME NEW a \in Artifacts, Confirm(a) \/ \E cap \in Authorities : Stage(a, cap) PROVE IInv'
  BY <1>3, ConfirmKeeps, StageKeeps
<1>4. CASE StartService \/ StartPruning \/ CrashService \/ CrashPruning
  BY <1>4, StartServiceKeeps, StartPruningKeeps, CrashServiceKeeps, CrashPruningKeeps
<1> QED
  BY <1>1, <1>2, <1>3, <1>4 DEF Next

\* A step that changes nothing.
LEMMA StutterKeeps ==
  ASSUME IInv, UNCHANGED vars
  PROVE  IInv'
<1>1. UNCHANGED <<obj, row, op, thr, call, svc, raced, faults>>
  BY DEF vars
<1>2. TypeOK'
  BY <1>1 DEF IInv, TypeOK
<1>3. SameStaging
  BY <1>1 DEF SameStaging
<1>4. Moves
  BY <1>1, <1>3, Unchanged
<1>5. ThreadOK("cli")'
  BY <1>1, <1>2, <1>4, ThreadStays DEF Threads, Workers
<1> QED
  BY <1>1, <1>2, <1>4, <1>5, StepKeeps DEF Threads, Workers

\* The inductive invariant: where each thread is, against the copies, rows and journal it works on.
THEOREM ArtifactInvariance == Spec => []IInv
<1>1. Init => IInv
  BY InitOK
<1>2. IInv /\ [Next]_vars => IInv'
  BY NextKeeps, StutterKeeps
<1> QED
  BY <1>1, <1>2, PTL DEF Spec

\* A copy under a name of its own is in a quarantine that the journal names.
LEMMA RowsAgree ==
  ASSUME IInv
  PROVE  RowsAndFilesAgree
<1>1. QueuedHasBytes
  <2> SUFFICES ASSUME NEW a \in Artifacts, row[a].state = "pending"
               PROVE  row[a].path = 0 /\ RowFileExists(a)
    BY DEF QueuedHasBytes
  <2>1. PICK o : o = row[a].obj
    OBVIOUS
  <2>2. o \in Objects /\ obj[o].art = a /\ obj[o].loc = "out" /\ row[a].path = 0
    BY <2>1 DEF IInv, TypeOK, RowRecord, FilesOK, RowOK, Objects
  <2>3. obj[o].name = 0
    <3>1. SUFFICES ASSUME obj[o].name # 0 PROVE FALSE
      OBVIOUS
    <3>2. PICK k : k = obj[o].name
      OBVIOUS
    <3>3. k \in Ops /\ Journalled(k) /\ op[k].obj = o
      BY <2>2, <3>1, <3>2 DEF IInv, TypeOK, ObjectRecord, FilesOK, ObjectOK, Ops
    <3>4. Confirmed(o)
      BY <3>3 DEF IInv, FilesOK, JournalOK
    <3> QED
      BY <2>2, <3>4 DEF Confirmed
  <2> QED
    BY <2>1, <2>2, <2>3 DEF RowFileExists
<1>2. ConfirmedLocatable
  <2> SUFFICES ASSUME NEW a \in Artifacts, row[a].state = "confirmed", ~ RowFileExists(a)
               PROVE  /\ row[a].path = 0
                      /\ obj[row[a].obj].loc = "out" /\ obj[row[a].obj].name # 0
                      /\ op[obj[row[a].obj].name].obj = row[a].obj
                      /\ op[obj[row[a].obj].name].active \in {"active", "conflict"}
                      /\ Committed(obj[row[a].obj].name, "PREPARED")
    BY DEF ConfirmedLocatable
  <2>1. PICK o, k : o = row[a].obj /\ k = obj[o].name
    OBVIOUS
  <2>2. o \in Objects /\ obj[o].art = a /\ obj[o].loc = "out"
    BY <2>1 DEF IInv, TypeOK, RowRecord, FilesOK, RowOK, Objects
  <2>3. k # row[a].path /\ row[a].path = 0
    BY <2>1, <2>2 DEF RowFileExists, IInv, FilesOK, RowOK
  <2>4. k \in Ops /\ Journalled(k) /\ op[k].obj = o /\ Committed(k, "PREPARED")
    BY <2>1, <2>2, <2>3 DEF IInv, TypeOK, ObjectRecord, FilesOK, ObjectOK, Ops
  <2>5. op[k].active # "retired"
    BY <2>2, <2>3, <2>4 DEF IInv, FilesOK, JournalOK, RowOf
  <2> QED
    BY <2>1, <2>2, <2>3, <2>4, <2>5 DEF Journalled
<1>3. PublishedOnce
  BY DEF IInv, FilesOK, UniqueOK, PublishedOnce, Publishable, Exempt
<1> QED
  BY <1>1, <1>2, <1>3 DEF IInv, FilesOK, RowsAndFilesAgree

LEMMA AnswersAgree ==
  ASSUME IInv
  PROVE  AnswersHold
<1>1. AbortedNotPublished
  BY DEF IInv, FilesOK, ObjectOK, AbortedNotPublished
<1>2. StagedIsQueued
  BY DEF IInv, CallOK, StagedIsQueued
<1> QED
  BY <1>1, <1>2 DEF IInv, ServiceOK, AnswersHold

\* Whatever the service and the maintenance process do, in whatever order they are killed: a queued
\* row has its bytes, a confirmed artifact's bytes can be found, a published file is named by a row
\* or an intent, and an artifact is published once (artifacts.py).
THEOREM RowsAndFilesTheorem == Spec => []RowsAndFilesAgree
BY ArtifactInvariance, RowsAgree, PTL

\* What stage() answered stays true, with one worker at a time, whatever a cancelled, late or
\* abandoned worker still does (artifacts.py).
THEOREM AnswersHoldTheorem == Spec => []AnswersHold
BY ArtifactInvariance, AnswersAgree, PTL
=============================================================================
