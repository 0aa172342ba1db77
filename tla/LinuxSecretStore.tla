-------------------------- MODULE LinuxSecretStore --------------------------
(***************************************************************************)
(* LinuxEncryptedFileSecretStore: secrets in files of a private directory, *)
(* shared by the processes of one agent under flock.                       *)
(*                                                                         *)
(* Each change is bracketed by two two-slot records.  .store-state goes    *)
(* HEALTHY, MUTATING, HEALTHY and .store-completion-guard goes IDLE,       *)
(* FINALIZING, IDLE around the body, each record written and fsynced before *)
(* the next.  A reader is served only when both say that the last change   *)
(* is over; anything else is left to the operator.  The module has the     *)
(* page cache and the disk, so that a process may be killed (the cache     *)
(* stays) and the machine may lose power (what was not fsynced may be      *)
(* there, missing or torn).                                                *)
(***************************************************************************)
EXTENDS Naturals, Sequences

CONSTANTS
  Procs,      \* processes that open the store
  Keys,       \* secret names
  Values,     \* plaintexts
  MaxOps,     \* bound: mutations, the creation of the master key included
  MaxFaults   \* bound: killed processes, power losses, failed system calls

NoProc == "none"
NoVal  == "none"

ASSUME SecretStoreAssumption ==
  /\ NoProc \notin Procs /\ NoVal \notin Values
  /\ MaxOps \in Nat /\ MaxFaults \in Nat

VARIABLES
  cache,    \* the files as processes see them
  disk,     \* the files as a power loss would leave them
  proc,     \* down, opening (constructor), idle, waiting (for flock) or running
  fatal,    \* _fatal_reason is set, or the lock descriptor was given up
  loaded,   \* the master key the object read, 0: none
  req,      \* the request of a waiting process
  holder,   \* who has the flock
  pc,       \* where the holder is
  op,       \* the mutation it performs
  allowed,  \* what callers may expect of each key (history)
  before,   \* allowed, as it was before the mutation in progress (history)
  clean,    \* no mutation was cut short and no protocol write failed (history)
  ops, faults,
  ins       \* the read-only inspection, which takes no lock

vars == <<cache, disk, proc, fatal, loaded, req, holder, pc, op, allowed, before, clean,
          ops, faults, ins>>

-----------------------------------------------------------------------------
(* The files.  A slot with a wrong checksum or a wrong field is torn.      *)

StateSlots == [seq : Nat, st : {"HEALTHY", "MUTATING", "POISONED", "torn"}, tok : Nat]
GuardSlots == [seq : Nat, st : {"IDLE", "FINALIZING", "torn"}, store : Nat, tok : Nat]

TornState == [seq |-> 0, st |-> "torn", tok |-> 0]
TornGuard == [seq |-> 0, st |-> "torn", store |-> 0, tok |-> 0]

\* <<>>: no such file.  <<torn>>: created, its two slots not yet written.
InitialState == <<[seq |-> 1, st |-> "HEALTHY", tok |-> 0],
                  [seq |-> 0, st |-> "HEALTHY", tok |-> 0]>>
InitialGuard == <<[seq |-> 1, st |-> "IDLE", store |-> 1, tok |-> 0],
                  [seq |-> 0, st |-> "IDLE", store |-> 1, tok |-> 0]>>

\* A secret file: its plaintext and the master key it is encrypted with
Secrets  == [val : Values \cup {NoVal}, key : Nat]
NoSecret == [val |-> NoVal, key |-> 0]

Files == [state : Seq(StateSlots), guard : Seq(GuardSlots), sec : [Keys -> Secrets],
          mkey : Nat, marker : BOOLEAN]

NoFiles == [state |-> <<>>, guard |-> <<>>, sec |-> [k \in Keys |-> NoSecret],
            mkey |-> 0, marker |-> FALSE]

Newer(s) == IF s[1].seq > s[2].seq THEN 1 ELSE 2
Other(i) == 3 - i

\* Both slots decode, and the newer is the successor of the older.
Consecutive(s) ==
  /\ Len(s) = 2
  /\ \A i \in 1..2 : s[i].st # "torn"
  /\ s[Newer(s)].seq = s[Other(Newer(s))].seq + 1

\* _select_store_state_slots: the pair is one the protocol can leave.
StateSelectable(s) ==
  /\ Consecutive(s)
  /\ LET new == s[Newer(s)]
         old == s[Other(Newer(s))]
     IN  \/ s = InitialState
         \/ new.st = "MUTATING" /\ old.st = "HEALTHY" /\ new.tok # old.tok
         \/ old.st = "MUTATING" /\ new.st \in {"HEALTHY", "POISONED"} /\ new.tok = old.tok

\* _select_completion_guard_slots
GuardSelectable(g) ==
  /\ Consecutive(g)
  /\ LET new == g[Newer(g)]
         old == g[Other(Newer(g))]
     IN  \/ g = InitialGuard
         \/ /\ old.st = "IDLE" /\ new.st = "FINALIZING"
            /\ new.store = old.store + 2 /\ new.tok # old.tok
         \/ /\ old.st = "FINALIZING" /\ new.st = "IDLE"
            /\ new.store = old.store /\ new.tok = old.tok

State(f) == f.state[Newer(f.state)]
Guard(f) == f.guard[Newer(f.guard)]

\* _completion_guard_block_reason finds none, for a HEALTHY state
GuardReleases(f) ==
  /\ GuardSelectable(f.guard)
  /\ Guard(f).store = State(f).seq /\ Guard(f).tok = State(f).tok
  /\ Guard(f).st = "IDLE"

\* _raise_if_poisoned returns: the store serves.
Readable(f) ==
  /\ StateSelectable(f.state) /\ State(f).st = "HEALTHY"
  /\ GuardReleases(f)
  /\ ~f.marker

\* get: the plaintext, once the master key on disk is the one it was encrypted with
Decrypts(f, k) == f.sec[k].val # NoVal => f.sec[k].key = f.mkey

-----------------------------------------------------------------------------
NoReq == [kind |-> "none", key |-> NoVal, val |-> NoVal]
Requests ==
  [kind : {"put"}, key : Keys, val : Values] \cup [kind : {"delete"}, key : Keys, val : {NoVal}]

\* tok: its operation token; prev: the secret it replaces; err: the body raised
\* ("failed"), or was applied and could not close a descriptor ("cleanup")
NoOp == [kind |-> "none", key |-> NoVal, val |-> NoVal, tok |-> 0, prev |-> NoSecret,
         err |-> "none"]

Pcs == {"none", "boot", "boot_state", "boot_guard", "guard_file", "ready",
        "mutating", "mutating_sync", "finalizing", "finalizing_sync",
        "key", "temp", "publish", "validate", "retire", "remove", "close",
        "healthy", "healthy_sync", "idle", "idle_sync", "idle_check",
        "poison", "poison_sync", "recovery_marker", "ok", "failed", "indeterminate"}

NoInspection == [pc |-> "idle", state |-> <<>>, guard |-> <<>>, seen |-> FALSE, healthy |-> FALSE]

SecretInit ==
  /\ cache = NoFiles /\ disk = NoFiles
  /\ proc = [p \in Procs |-> "down"]
  /\ fatal = [p \in Procs |-> FALSE]
  /\ loaded = [p \in Procs |-> 0]
  /\ req = [p \in Procs |-> NoReq]
  /\ holder = NoProc /\ pc = "none" /\ op = NoOp
  /\ allowed = [k \in Keys |-> {NoVal}]
  /\ before = [k \in Keys |-> {NoVal}]
  /\ clean = TRUE
  /\ ops = 0 /\ faults = 0
  /\ ins = NoInspection

Fault == faults < MaxFaults /\ faults' = faults + 1

At(a) == holder # NoProc /\ pc = a
Go(b) == pc' = b

files == <<cache, disk>>
procs == <<proc, fatal, loaded, req>>
hist  == <<allowed, before>>

-----------------------------------------------------------------------------
(* Processes, and the lock                                                 *)

Start(p) ==
  /\ proc[p] = "down"
  /\ proc' = [proc EXCEPT ![p] = "opening"]
  /\ UNCHANGED <<files, fatal, loaded, req, holder, pc, op, hist, clean, ops, faults, ins>>

\* put or delete, by a process whose object is not given up
Call(p, r) ==
  /\ proc[p] = "idle" /\ ~fatal[p] /\ ops < MaxOps
  /\ proc' = [proc EXCEPT ![p] = "waiting"]
  /\ req' = [req EXCEPT ![p] = r]
  /\ UNCHANGED <<files, fatal, loaded, holder, pc, op, hist, clean, ops, faults, ins>>

\* _process_shared_lock: flock, then _raise_if_poisoned; the constructor goes
\* on whatever it finds.
Acquire(p) ==
  /\ holder = NoProc /\ proc[p] \in {"opening", "waiting"}
  /\ holder' = p
  /\ proc' = [proc EXCEPT ![p] = "running"]
  /\ IF proc[p] = "opening" THEN Go("boot")
     ELSE IF Readable(cache) /\ ops < MaxOps THEN Go("mutating") ELSE Go("failed")
  /\ op' = [NoOp EXCEPT !.kind = IF proc[p] = "opening" THEN "open" ELSE req[p].kind,
                        !.key = req[p].key, !.val = req[p].val]
  /\ req' = [req EXCEPT ![p] = NoReq]
  /\ UNCHANGED <<files, fatal, loaded, hist, clean, ops, faults, ins>>

\* The lock is polled until the deadline.
LockTimesOut(p) ==
  /\ holder \notin {NoProc, p} /\ proc[p] \in {"opening", "waiting"}
  /\ proc' = [proc EXCEPT ![p] = IF @ = "opening" THEN "down" ELSE "idle"]
  /\ req' = [req EXCEPT ![p] = NoReq]
  /\ UNCHANGED <<files, fatal, loaded, holder, pc, op, hist, clean, ops, faults, ins>>

\* What the caller may expect, once it knows how its mutation ended
Expect ==
  IF op.kind \notin {"put", "delete"} \/ op.tok = 0 THEN UNCHANGED allowed
  ELSE allowed' = [allowed EXCEPT ![op.key] =
         CASE pc = "ok"            -> {op.val}
           [] pc = "failed"        -> before[op.key]
           [] pc = "indeterminate" -> @]

\* The lock is released; bad: by closing its descriptor, because unlocking
\* failed, and the object is given up.
Leave(bad) ==
  /\ pc \in {"ok", "failed", "indeterminate"} /\ holder # NoProc
  /\ Expect
  /\ proc' = [proc EXCEPT ![holder] =
       IF op.kind \in {"open", "init"} /\ (pc # "ok" \/ (bad /\ op.kind = "open"))
       THEN "down" ELSE "idle"]
  /\ fatal' = [fatal EXCEPT ![holder] = proc'[holder] # "down" /\ (@ \/ bad)]
  /\ loaded' = [loaded EXCEPT ![holder] = IF proc'[holder] = "down" THEN 0 ELSE @]
  /\ holder' = NoProc /\ pc' = "none" /\ op' = NoOp
  /\ UNCHANGED <<files, req, before, clean, ops, ins>>

Unlock == Leave(FALSE) /\ UNCHANGED faults
UnlockFails == Leave(TRUE) /\ Fault

-----------------------------------------------------------------------------
(* The constructor                                                         *)

Keep == UNCHANGED <<fatal, loaded, proc, req, holder, op, hist, clean, ops, faults, ins>>

\* Both files are created only where neither is there; one alone blocks the
\* store, and one of the wrong size fails the constructor.
Boot ==
  /\ At("boot")
  /\ IF cache.state = <<>> /\ cache.guard = <<>>
     THEN cache' = [cache EXCEPT !.state = <<TornState>>] /\ Go("boot_state")
     ELSE /\ UNCHANGED cache
          /\ IF 1 \in {Len(cache.state), Len(cache.guard)} THEN Go("failed") ELSE Go("ready")
  /\ UNCHANGED disk /\ Keep

\* _open_store_state: two slots, fsync of the file and of the directory
BootState ==
  /\ At("boot_state")
  /\ cache' = [cache EXCEPT !.state = InitialState]
  /\ disk' = [disk EXCEPT !.state = InitialState]
  /\ Go("guard_file") /\ Keep

BootGuardFile ==
  /\ At("guard_file")
  /\ cache' = [cache EXCEPT !.guard = <<TornGuard>>]
  /\ UNCHANGED disk
  /\ Go("boot_guard") /\ Keep

BootGuard ==
  /\ At("boot_guard")
  /\ cache' = [cache EXCEPT !.guard = InitialGuard]
  /\ disk' = [disk EXCEPT !.guard = InitialGuard]
  /\ Go("ready") /\ Keep

BootFails ==
  /\ pc \in {"boot_state", "guard_file", "boot_guard"} /\ holder # NoProc /\ Fault
  /\ Go("failed") /\ clean' = FALSE
  /\ UNCHANGED <<files, fatal, loaded, proc, req, holder, op, hist, ops, ins>>

\* The master key is read; where there is none, its creation is a mutation.  A
\* blocked store is opened without a key.
Ready ==
  /\ At("ready")
  /\ IF ~Readable(cache) THEN Go("ok") /\ UNCHANGED <<loaded, op>>
     ELSE IF cache.mkey # 0
     THEN Go("ok") /\ loaded' = [loaded EXCEPT ![holder] = cache.mkey] /\ UNCHANGED op
     ELSE /\ IF ops < MaxOps THEN Go("mutating") ELSE Go("failed")
          /\ op' = [op EXCEPT !.kind = "init"] /\ UNCHANGED loaded
  /\ UNCHANGED <<files, fatal, proc, req, holder, hist, clean, ops, faults, ins>>

-----------------------------------------------------------------------------
(* _persist_store_state and _persist_completion_guard: the older slot is   *)
(* overwritten, the file fsynced.                                          *)

NextState(st, tok) == [seq |-> State(cache).seq + 1, st |-> st, tok |-> tok]
NextGuard(st, store, tok) ==
  [seq |-> Guard(cache).seq + 1, st |-> st, store |-> store, tok |-> tok]

PutState(x) == [cache EXCEPT !.state[Other(Newer(cache.state))] = x]
PutGuard(x) == [cache EXCEPT !.guard[Other(Newer(cache.guard))] = x]

\* What the cache holds once place a has written its slot
Written(a) ==
  CASE a = "mutating"   -> PutState(NextState("MUTATING", ops + 1))
    [] a = "finalizing" -> PutGuard(NextGuard("FINALIZING", State(cache).seq + 1, op.tok))
    [] a = "healthy"    -> PutState(NextState("HEALTHY", op.tok))
    [] a = "idle"       -> PutGuard(NextGuard("IDLE", State(cache).seq, op.tok))
    [] a = "poison"     -> PutState(NextState("POISONED", op.tok))

TornWrite(a) ==
  IF a \in {"mutating", "healthy", "poison"} THEN PutState(TornState) ELSE PutGuard(TornGuard)

Writes == {"mutating", "finalizing", "healthy", "idle", "poison"}
Syncs  == {"mutating_sync", "finalizing_sync", "healthy_sync", "idle_sync", "poison_sync"}

SyncOf(a) == CASE a = "mutating"   -> "mutating_sync"   [] a = "finalizing" -> "finalizing_sync"
               [] a = "healthy"    -> "healthy_sync"    [] a = "idle"       -> "idle_sync"
               [] a = "poison"     -> "poison_sync"

\* A mutation begins: it has a token, and its caller does not know its outcome.
Begin ==
  /\ ops' = ops + 1
  /\ op' = [op EXCEPT !.tok = ops + 1]
  /\ before' = allowed
  /\ allowed' = IF op.kind = "init" THEN allowed
                ELSE [allowed EXCEPT ![op.key] = @ \cup {op.val}]

Write ==
  /\ holder # NoProc /\ pc \in Writes
  /\ cache' = Written(pc)
  /\ Go(SyncOf(pc))
  /\ IF pc = "mutating" THEN Begin ELSE UNCHANGED <<ops, op, hist>>
  /\ UNCHANGED <<disk, procs, holder, clean, faults, ins>>

\* The body's first place; the master key on disk must be the one loaded.
Body ==
  IF op.kind = "init" THEN "key"
  ELSE IF cache.mkey # loaded[holder] THEN "healthy"
  ELSE IF op.kind = "put" THEN "temp" ELSE "remove"

Sync ==
  /\ holder # NoProc /\ pc \in Syncs
  /\ IF pc \in {"mutating_sync", "healthy_sync", "poison_sync"}
     THEN disk' = [disk EXCEPT !.state = cache.state]
     ELSE disk' = [disk EXCEPT !.guard = cache.guard]
  /\ Go(CASE pc = "mutating_sync"   -> "finalizing"
          [] pc = "finalizing_sync" -> Body
          [] pc = "healthy_sync"    -> "idle"
          [] pc = "idle_sync"       -> "idle_check"
          [] pc = "poison_sync"     -> "recovery_marker")
  /\ fatal' = [fatal EXCEPT ![holder] = @ \/ pc = "poison_sync"]
  /\ op' = IF pc = "finalizing_sync" /\ Body = "healthy" THEN [op EXCEPT !.err = "failed"] ELSE op
  /\ UNCHANGED <<cache, proc, loaded, req, holder, hist, clean, ops, faults, ins>>

\* _durable_mutation and _complete_store_mutation: where a failed write or
\* fsync at place a leads, and whether the object is given up.
AfterFailure(a) ==
  CASE a \in {"mutating", "mutating_sync"}     -> "failed"
    [] a \in {"finalizing", "finalizing_sync"} -> "failed"
    [] a \in {"healthy", "healthy_sync"}       -> "failed"          \* mutation_not_committed
    [] a \in {"idle", "idle_sync"}             -> "indeterminate"
    [] a \in {"poison", "poison_sync"}         -> "recovery_marker"

ProtocolFails(a) ==
  /\ Go(AfterFailure(a))
  /\ fatal' = [fatal EXCEPT ![holder] = @ \/ a \notin {"mutating", "mutating_sync"}]
  /\ clean' = FALSE

\* A write fails with the slot as it was, torn or whole.
WriteFails ==
  /\ holder # NoProc /\ pc \in Writes /\ Fault
  /\ cache' \in {cache, TornWrite(pc), Written(pc)}
  /\ ProtocolFails(pc)
  /\ IF pc = "mutating" THEN Begin ELSE UNCHANGED <<ops, op, hist>>
  /\ UNCHANGED <<disk, proc, loaded, req, holder, ins>>

\* fsync or the read-back raises: the slot may or may not be on disk.
SyncFails ==
  /\ holder # NoProc /\ pc \in Syncs /\ Fault
  /\ disk' \in {disk, [disk EXCEPT !.state = cache.state, !.guard = cache.guard]}
  /\ ProtocolFails(pc)
  /\ UNCHANGED <<cache, proc, loaded, req, holder, op, hist, ops, ins>>

\* Both records are durable and read back.  A body that failed is over, too;
\* one that was applied and could not close a descriptor succeeded.
Outcome == IF op.err = "failed" THEN "failed" ELSE "ok"

Committed ==
  /\ At("idle_check")
  /\ Go(Outcome)
  /\ fatal' = [fatal EXCEPT ![holder] = @ \/ op.err = "cleanup"]
  /\ loaded' = [loaded EXCEPT ![holder] = IF op.kind = "init" THEN cache.mkey ELSE @]
  /\ UNCHANGED <<files, proc, req, holder, op, hist, clean, ops, faults, ins>>

\* The read-back after the fsync raises: _authoritative_commit_outcome reads
\* both files again, through new descriptors, and may itself fail.
ReadBackFails ==
  /\ At("idle_check") /\ Fault
  /\ \/ /\ Readable(cache) /\ Go(Outcome)
        /\ fatal' = [fatal EXCEPT ![holder] = @ \/ op.err = "cleanup"]
        /\ loaded' = [loaded EXCEPT ![holder] = IF op.kind = "init" THEN cache.mkey ELSE @]
     \/ /\ Go("indeterminate") /\ UNCHANGED loaded
        /\ fatal' = [fatal EXCEPT ![holder] = TRUE]
  /\ UNCHANGED <<files, proc, req, holder, op, hist, clean, ops, ins>>

-----------------------------------------------------------------------------
(* The bodies: _load_or_create_master_key, _put_locked, _delete_locked.    *)
(* Every name is changed by one rename, and the directory fsynced.         *)

SyncDirectory(f) == disk' = [disk EXCEPT !.sec = f.sec, !.mkey = f.mkey, !.marker = f.marker]
WithSecret(x)    == [cache EXCEPT !.sec[op.key] = x]

BodyKeeps == UNCHANGED <<procs, holder, hist, clean, ops, faults, ins>>

CreateKey ==
  /\ At("key")
  /\ cache' = [cache EXCEPT !.mkey = op.tok]
  /\ SyncDirectory(cache')
  /\ Go("close") /\ UNCHANGED op /\ BodyKeeps

\* The new ciphertext under a temporary name
CreateTemporary ==
  /\ At("temp")
  /\ op' = [op EXCEPT !.prev = cache.sec[op.key]]
  /\ Go("publish")
  /\ UNCHANGED files /\ BodyKeeps

\* rename_noreplace, or rename_exchange with the secret that is there
Publish ==
  /\ At("publish")
  /\ cache' = WithSecret([val |-> op.val, key |-> loaded[holder]])
  /\ Go("validate")
  /\ UNCHANGED <<disk, op>> /\ BodyKeeps

Validate_NoFsync ==
  /\ At("validate")
  /\ UNCHANGED disk
  /\ Go(IF op.prev = NoSecret THEN "close" ELSE "retire")
  /\ UNCHANGED <<cache, op>> /\ BodyKeeps

\* _validate_published_secret and the fsync of the directory
Validate ==
  /\ At("validate")
  /\ SyncDirectory(cache)
  /\ Go(IF op.prev = NoSecret THEN "close" ELSE "retire")
  /\ UNCHANGED <<cache, op>> /\ BodyKeeps

\* The previous secret leaves the temporary name.
RetirePrevious ==
  /\ At("retire") /\ Go("close")
  /\ UNCHANGED <<files, op>> /\ BodyKeeps

\* logical_quarantine of the secret, or nothing to delete
Remove ==
  /\ At("remove")
  /\ cache' = WithSecret(NoSecret)
  /\ SyncDirectory(cache')
  /\ Go("close") /\ UNCHANGED op /\ BodyKeeps

Close ==
  /\ At("close") /\ Go("healthy")
  /\ UNCHANGED <<files, op>> /\ BodyKeeps

\* Closing a descriptor fails after the change was applied.
CloseFails ==
  /\ At("close") /\ op.kind # "init" /\ Fault
  /\ op' = [op EXCEPT !.err = "cleanup"]
  /\ Go("healthy")
  /\ UNCHANGED <<files, procs, holder, hist, clean, ops, ins>>

Undone_LeavesMutating ==
  /\ op' = [op EXCEPT !.err = "failed"] /\ Go("failed") /\ UNCHANGED clean

\* A body step fails and its effect is taken back: the mutation is completed
\* with nothing changed.
Undone ==
  /\ op' = [op EXCEPT !.err = "failed"] /\ Go("healthy") /\ UNCHANGED clean

Unproven_Completes ==
  /\ op' = [op EXCEPT !.err = "failed"] /\ Go("healthy") /\ UNCHANGED clean

\* It fails and the way back fails or cannot be proved: the store is poisoned.
Unproven ==
  /\ op' = [op EXCEPT !.err = "failed"] /\ Go("poison") /\ clean' = FALSE

BodyFails ==
  /\ holder # NoProc /\ Fault
  /\ \/ /\ pc \in {"temp", "publish"} /\ UNCHANGED files
        /\ Undone \/ Unproven
     \/ /\ pc = "key" /\ Undone /\ UNCHANGED files
     \/ /\ pc = "key" /\ Unproven
        /\ cache' \in {cache, [cache EXCEPT !.mkey = op.tok]} /\ UNCHANGED disk
        \* _rollback_exchange, or the quarantine of a created secret
     \/ /\ pc = "validate" /\ Undone
        /\ cache' = WithSecret(op.prev) /\ SyncDirectory(cache')
     \/ /\ pc = "validate" /\ Unproven
        /\ cache' \in {cache, WithSecret(op.prev)} /\ UNCHANGED disk
     \/ /\ pc = "retire" /\ Unproven /\ UNCHANGED files
     \/ /\ pc = "remove" /\ Unproven
        /\ cache' \in {cache, WithSecret(NoSecret)} /\ UNCHANGED disk
  /\ UNCHANGED <<procs, holder, hist, ops, ins>>

\* _write_recovery_marker, best effort, and the error goes to the caller.
WriteRecoveryMarker ==
  /\ At("recovery_marker")
  /\ cache' = [cache EXCEPT !.marker = TRUE]
  /\ SyncDirectory(cache')
  /\ Go("failed") /\ UNCHANGED op /\ BodyKeeps

RecoveryMarkerFails ==
  /\ At("recovery_marker") /\ Fault
  /\ Go("failed")
  /\ UNCHANGED <<files, op, procs, holder, hist, clean, ops, ins>>

-----------------------------------------------------------------------------
(* The environment                                                         *)

Abandon == holder' = NoProc /\ pc' = "none" /\ op' = NoOp

\* A process is killed.  The kernel releases its lock; the cache stays.
Crash(p) ==
  /\ proc[p] # "down" /\ Fault
  /\ proc' = [proc EXCEPT ![p] = "down"]
  /\ fatal' = [fatal EXCEPT ![p] = FALSE]
  /\ loaded' = [loaded EXCEPT ![p] = 0]
  /\ req' = [req EXCEPT ![p] = NoReq]
  /\ IF holder = p THEN Abandon /\ clean' = FALSE ELSE UNCHANGED <<holder, pc, op, clean>>
  /\ UNCHANGED <<files, hist, ops, ins>>

\* Slots of a file after a power loss: each as on disk, as in the cache or torn
\* between them.  A file whose entry is not on disk may be missing.
LostSlots(d, c, torn) ==
  IF d = c THEN {d}
  ELSE IF Len(d) # 2 THEN {d, c, <<torn>>}
  ELSE {<<x, y>> : x \in {d[1], c[1]} \cup (IF d[1] = c[1] THEN {} ELSE {torn}),
                   y \in {d[2], c[2]} \cup (IF d[2] = c[2] THEN {} ELSE {torn})}

PowerLoss ==
  /\ Fault
  /\ \E s \in LostSlots(disk.state, cache.state, TornState),
        g \in LostSlots(disk.guard, cache.guard, TornGuard),
        x \in [Keys -> {disk, cache}], m \in {disk.mkey, cache.mkey},
        b \in {disk.marker, cache.marker} :
       cache' = [state |-> s, guard |-> g, sec |-> [k \in Keys |-> x[k].sec[k]],
                 mkey |-> m, marker |-> b]
  /\ disk' = cache'
  /\ proc' = [p \in Procs |-> "down"]
  /\ fatal' = [p \in Procs |-> FALSE]
  /\ loaded' = [p \in Procs |-> 0]
  /\ req' = [p \in Procs |-> NoReq]
  /\ Abandon
  /\ clean' = (clean /\ holder = NoProc)
  /\ ins' = NoInspection
  /\ UNCHANGED <<hist, ops>>

-----------------------------------------------------------------------------
(* inspect_encrypted_file_secret_store_read_only: the doctor reads both    *)
(* files without the lock and looks again before it reports.  A file that  *)
(* was written since has another mtime, here another content.              *)

InspectState ==
  /\ ins.pc = "idle" /\ Len(cache.state) = 2 /\ ~cache.marker
  /\ ins' = [NoInspection EXCEPT !.pc = "guard", !.state = cache.state]
  /\ UNCHANGED <<files, procs, holder, pc, op, hist, clean, ops, faults>>

InspectGuard ==
  /\ ins.pc = "guard" /\ Len(cache.guard) = 2
  /\ ins' = [ins EXCEPT !.pc = "check", !.guard = cache.guard, !.seen = Readable(cache)]
  /\ UNCHANGED <<files, procs, holder, pc, op, hist, clean, ops, faults>>

\* Anything but "healthy" is reported as blocked or as a concurrent change.
Inspected ==
  /\ cache.state = ins.state /\ cache.guard = ins.guard /\ cache.mkey # 0 /\ ~cache.marker
  /\ Readable([cache EXCEPT !.state = ins.state, !.guard = ins.guard])

InspectReport ==
  /\ ins.pc = "check"
  /\ ins' = [NoInspection EXCEPT !.seen = ins.seen /\ Inspected, !.healthy = Inspected]
  /\ UNCHANGED <<files, procs, holder, pc, op, hist, clean, ops, faults>>

-----------------------------------------------------------------------------
HolderStep ==
  \/ Boot \/ BootState \/ BootGuardFile \/ BootGuard \/ Ready
  \/ Write \/ Sync \/ Committed
  \/ CreateKey \/ CreateTemporary \/ Publish \/ Validate \/ RetirePrevious \/ Remove \/ Close
  \/ WriteRecoveryMarker \/ Unlock

Failures ==
  \/ BootFails \/ WriteFails \/ SyncFails \/ ReadBackFails \/ CloseFails \/ BodyFails
  \/ RecoveryMarkerFails \/ UnlockFails \/ PowerLoss

Next ==
  \/ \E p \in Procs : Start(p) \/ Acquire(p) \/ LockTimesOut(p) \/ Crash(p)
  \/ \E p \in Procs, r \in Requests : Call(p, r)
  \/ HolderStep
  \/ Failures
  \/ InspectState \/ InspectGuard \/ InspectReport

Spec == SecretInit /\ [][Next]_vars

-----------------------------------------------------------------------------
(* Properties                                                              *)

\* The types; only the process that holds the flock is inside the store.
TypeOK ==
  /\ cache \in Files /\ disk \in Files
  /\ proc \in [Procs -> {"down", "opening", "idle", "waiting", "running"}]
  /\ fatal \in [Procs -> BOOLEAN] /\ loaded \in [Procs -> Nat]
  /\ req \in [Procs -> Requests \cup {NoReq}]
  /\ holder \in Procs \cup {NoProc} /\ pc \in Pcs
  /\ \A p \in Procs : proc[p] = "running" <=> holder = p
  /\ allowed \in [Keys -> SUBSET (Values \cup {NoVal})]
  /\ ops \in 0..MaxOps /\ faults \in 0..MaxFaults

\* Whenever the store serves, what it serves of a key is what the callers were
\* told: the value of the last put that returned, not that of one that raised;
\* one of both only where the caller was told so (MutationCommitIndeterminate)
\* or died.  Half-done changes, and what a power loss makes of them, are
\* behind a record that blocks.
ServedIsExpected ==
  Readable(cache) => \A k \in Keys : cache.sec[k].val \in allowed[k]

\* The same for the disk: what survives a power loss and serves is expected.
DurableIsExpected ==
  Readable(disk) => \A k \in Keys : disk.sec[k].val \in allowed[k]

\* A store that serves can decrypt what it holds: no secret outlives the
\* master key it was encrypted with, and no second key replaces the first.
ServedDecrypts ==
  /\ Readable(cache) => \A k \in Keys : Decrypts(cache, k)
  /\ Readable(disk) => \A k \in Keys : Decrypts(disk, k)

\* The store blocks for a reason only: as long as no mutation was cut short
\* and no write of a record failed, whatever else went wrong (a body that was
\* undone, a lock, a descriptor), it serves, now and after a power loss.
ServesUnlessInterrupted ==
  clean /\ holder = NoProc /\ ops > 0 => Readable(cache) /\ Readable(disk)

\* The doctor's unlocked reading says healthy only if the store did serve at
\* the moment the second file was read: two readings of different moments are
\* never put together.
InspectionTruthful == ins.healthy => ins.seen

\* What the store and the doctor say is true: a value served is the expected
\* one and decrypts, a store called healthy does serve.
AnswersTruthful == TypeOK /\ ServedIsExpected /\ ServedDecrypts /\ InspectionTruthful
=============================================================================
