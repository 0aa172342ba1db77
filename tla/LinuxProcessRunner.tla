------------------------- MODULE LinuxProcessRunner -------------------------
(***************************************************************************)
(* AllowlistedProcessRunner.run on Linux: one command, from the spawn      *)
(* guard to the end of its cleanup.                                        *)
(*                                                                         *)
(* The coroutine of run() (main) starts a task for start_process (spawn),  *)
(* which starts a task for the guard's creation.  The guard blocks on the  *)
(* control pipe until its identity is taken (pidfd) and, for the scope     *)
(* "tree", until it is a verified member of a private cgroup; then it is   *)
(* released and executes the target.  The cancellation token, the request  *)
(* deadline and the bounds of the cleanup may cut in at every await; every *)
(* bounded wait may expire whenever what it waits for has not happened.    *)
(* One event loop runs the tasks: what lies between two awaits is one step *)
(* of them, the kernel's steps excepted.                                   *)
(***************************************************************************)
EXTENDS Naturals

CONSTANT MaxFaults   \* bound: failed calls, processes that die, stick or reuse a PID

ASSUME RunnerAssumption == MaxFaults \in Nat

VARIABLES
  scope,     \* LinuxCleanupScope of the command: leader or tree
  main,      \* where run() is
  spawn,     \* where start_process is
  sc,        \* a cancellation of the spawn task is to be delivered
  known,     \* handshake.process is set
  creation,  \* the task of _spawn_guard
  ctl,       \* the control pipe, as the guard reads it
  marked,    \* the guard wrote its marker
  ctx,       \* LinuxProcessContext: none, open (holds the pidfd) or closed
  grp,       \* the execution cgroup
  term, kill, \* term_sent; kill_sent, of the context or of the cgroup handle
  fin,       \* where _finish_cgroup is
  clean,     \* where the task of _cleanup_process is
  child,     \* the process: guard, target, zombie, reaped
  doomed,    \* SIGKILL was sent to it
  rc,        \* process.returncode is set
  stuck,     \* it is uninterruptible
  kid,       \* a descendant of the target
  other,     \* another process of the agent that was given the same PID
  outcome,   \* of run(), before its cleanup
  noted,     \* an error of the abort was noted on the exception of the spawn task
  cut,       \* that exception is the CancelledError of run()'s own cancellation
  err,       \* an error of the cleanup is what run() raises, or a note of it
  failed,    \* a system call of the cleanup failed (history)
  tok, late, \* the token is set; the request deadline has passed
  faults

coroutines == <<main, spawn, sc, known, creation, clean, fin, outcome, noted, cut, err, failed>>
channel    == <<ctl, marked>>
context    == <<ctx, grp, term, kill>>
kernel     == <<child, doomed, rc, stuck, kid, other>>
events     == <<tok, late>>
vars == <<scope, coroutines, channel, context, kernel, events, faults>>

-----------------------------------------------------------------------------
Alive == child \in {"guard", "ready", "target"}

\* Awaits of start_process that a cancellation or the deadline interrupts
Stages == {"creating", "payload", "marker", "yield", "leaf", "attach", "verify"}
Aborting == {"recover", "abort", "abort_wait", "abort_clean", "abort_cgroup", "abort_finish",
             "abort_reap", "abort_end"}

NoGroup == [leaf |-> "none", has |-> FALSE, moved |-> FALSE]

NoCleanup == [pc |-> "none", pass |-> 1, err |-> FALSE]

ProcessInit ==
  /\ scope \in {"leader", "tree"}
  /\ main = "spawning" /\ spawn = "start" /\ sc = FALSE /\ known = FALSE
  /\ creation = "none" /\ ctl = "empty" /\ marked = FALSE
  /\ ctx = "none" /\ grp = NoGroup /\ term = FALSE /\ kill = FALSE
  /\ fin = "none" /\ clean = NoCleanup
  /\ child = "none" /\ doomed = FALSE /\ rc = FALSE /\ stuck = FALSE
  /\ kid = "none" /\ other = "none"
  /\ outcome = "none" /\ noted = FALSE /\ cut = FALSE /\ err = FALSE /\ failed = FALSE
  /\ tok = FALSE /\ late = FALSE /\ faults = 0

Fault == faults < MaxFaults /\ faults' = faults + 1

\* cgroup.events says populated: zombies do not count.
Populated ==
  /\ grp.has /\ grp.leaf = "made"
  /\ (grp.moved /\ (Alive \/ kid # "none")) \/ other = "leaf"

\* cgroup.kill, once per handle
KillMembers ==
  /\ kill' = TRUE
  /\ doomed' = (doomed \/ (~kill /\ grp.moved /\ Alive))
  /\ kid' = IF ~kill /\ grp.moved /\ kid # "none" THEN "doomed" ELSE kid
  /\ other' = IF ~kill /\ other = "leaf" THEN "killed" ELSE other

\* The parent's end of the control pipe is closed: a guard that was not
\* released reads the end of the file.
CloseControl == ctl' = IF ctl = "release" THEN ctl ELSE "eof"

-----------------------------------------------------------------------------
(* start_process                                                           *)

Spawn(to) == spawn' = to
SpawnKeeps == UNCHANGED <<scope, main, clean, fin, outcome, err, failed, kernel, events>>

SpawnStart ==
  /\ spawn = "start" /\ ~sc
  /\ creation' = "scheduled" /\ Spawn("creating")
  /\ UNCHANGED <<sc, known, noted, cut, channel, context, faults>> /\ SpawnKeeps

\* No pidfd, or no delegated cgroup
SpawnRefused ==
  /\ spawn = "start" /\ ~sc /\ Fault
  /\ Spawn("failed")
  /\ UNCHANGED <<sc, known, creation, noted, cut, channel, context>> /\ SpawnKeeps

Created ==
  /\ spawn = "creating" /\ ~sc /\ creation \in {"returned", "failed"}
  /\ known' = (creation = "returned")
  /\ Spawn(IF creation = "returned" THEN "payload" ELSE "recover")
  /\ UNCHANGED <<sc, creation, noted, cut, channel, context, faults>> /\ SpawnKeeps

\* The target's description goes into the pipe; a dead guard breaks it.
SendTarget ==
  /\ spawn = "payload" /\ ~sc
  /\ IF Alive THEN ctl' = "target" /\ Spawn("marker") ELSE UNCHANGED ctl /\ Spawn("recover")
  /\ UNCHANGED <<marked, sc, known, creation, noted, cut, context, faults>> /\ SpawnKeeps

ReadMarker ==
  /\ spawn = "marker" /\ ~sc /\ (marked \/ ~Alive)
  /\ Spawn(IF marked THEN "identify" ELSE "recover")
  /\ UNCHANGED <<sc, known, creation, noted, cut, channel, context, faults>> /\ SpawnKeeps

Identify_NoGroup ==
  /\ spawn = "identify"
  /\ IF rc \/ child = "reaped" THEN UNCHANGED ctx /\ Spawn("recover")
     ELSE ctx' = "open" /\ Spawn("yield")
  /\ UNCHANGED <<grp, term, kill, sc, known, creation, noted, cut, channel, faults>> /\ SpawnKeeps

\* The marker is valid, and the process that pidfd_open found is still the one
\* that wrote it.
Identify ==
  /\ spawn = "identify"
  /\ IF rc \/ child = "reaped" THEN UNCHANGED ctx /\ Spawn("recover")
     ELSE ctx' = "open" /\ Spawn(IF scope = "tree" THEN "leaf" ELSE "yield")
  /\ UNCHANGED <<grp, term, kill, sc, known, creation, noted, cut, channel, faults>> /\ SpawnKeeps

Yield ==
  /\ spawn = "yield" /\ ~sc /\ Spawn("release")
  /\ UNCHANGED <<sc, known, creation, noted, cut, channel, context, faults>> /\ SpawnKeeps

\* create_execution: the handle is registered before the first attach.
CreateLeaf ==
  /\ spawn = "leaf" /\ ~sc
  /\ grp' = [grp EXCEPT !.leaf = "made", !.has = TRUE]
  /\ Spawn("attach")
  /\ UNCHANGED <<ctx, term, kill, sc, known, creation, noted, cut, channel, faults>> /\ SpawnKeeps

\* It fails, and the directory it made may be left for manual recovery.
CreateLeafFails ==
  /\ spawn = "leaf" /\ ~sc /\ Fault
  /\ \E l \in {"none", "made"} : grp' = [grp EXCEPT !.leaf = l] /\ noted' = (noted \/ l = "made")
  /\ Spawn("recover")
  /\ UNCHANGED <<cut, ctx, term, kill, sc, known, creation, channel>> /\ SpawnKeeps

\* The numeric PID is written to cgroup.procs.
AttachPid ==
  /\ spawn = "attach" /\ ~sc
  /\ IF Alive THEN grp' = [grp EXCEPT !.moved = TRUE] /\ other' = other /\ Spawn("verify")
     ELSE IF other = "alive" THEN other' = "leaf" /\ UNCHANGED grp /\ Spawn("verify")
     ELSE UNCHANGED <<grp, other>> /\ Spawn("recover")
  /\ UNCHANGED <<ctx, term, kill, sc, known, creation, noted, cut, channel, faults, scope, main,
                 clean, fin, outcome, err, failed, child, doomed, rc, stuck, kid, events>>

\* The PID is listed in cgroup.procs.
VerifyPid ==
  /\ spawn = "verify" /\ ~sc
  /\ Spawn(IF (grp.moved /\ Alive) \/ other = "leaf" THEN "release" ELSE "recover")
  /\ UNCHANGED <<sc, known, creation, noted, cut, channel, context, faults>> /\ SpawnKeeps

GroupCallFails ==
  /\ spawn \in {"attach", "verify"} /\ ~sc /\ Fault
  /\ Spawn("recover")
  /\ UNCHANGED <<sc, known, creation, noted, cut, channel, context>> /\ SpawnKeeps

\* The release frame is written, or the pipe is broken.
Release ==
  /\ spawn = "release"
  /\ IF Alive THEN ctl' = "release" /\ Spawn("after") ELSE UNCHANGED ctl /\ Spawn("recover")
  /\ UNCHANGED <<marked, sc, known, creation, noted, cut, context, faults>> /\ SpawnKeeps

Returned ==
  /\ spawn = "after" /\ ~sc /\ Spawn("returned")
  /\ UNCHANGED <<sc, known, creation, noted, cut, channel, context, faults>> /\ SpawnKeeps

\* _await_spawn_stage: the request deadline passes in a stage.
StageTimesOut ==
  /\ spawn \in Stages /\ ~sc /\ late
  /\ Spawn("recover")
  /\ UNCHANGED <<sc, known, creation, noted, cut, channel, context, faults>> /\ SpawnKeeps

SpawnCancelled ==
  /\ sc /\ spawn \in Stages \cup {"start", "after"}
  /\ sc' = FALSE /\ cut' = TRUE
  /\ Spawn(IF spawn = "start" THEN "failed" ELSE "recover")
  /\ UNCHANGED <<known, creation, noted, channel, context, faults>> /\ SpawnKeeps

-----------------------------------------------------------------------------
(* _recover_guard_creation, _abort_handshake                               *)

Recover ==
  /\ spawn = "recover" /\ (known \/ creation \in {"none", "returned", "failed"})
  /\ known' = (known \/ creation = "returned")
  /\ Spawn("abort")
  /\ UNCHANGED <<sc, creation, noted, cut, channel, context, faults>> /\ SpawnKeeps

\* The creation does not settle in time, or a second cancellation ends the
\* wait for it: a guard that is created late is left to the closed pipe.
RecoverGivesUp ==
  /\ spawn = "recover" /\ ~known /\ creation \in {"scheduled", "popen"}
  /\ noted' = TRUE /\ sc' = FALSE
  /\ Spawn("abort")
  /\ UNCHANGED <<known, creation, cut, channel, context, faults>> /\ SpawnKeeps

\* The control pipe is closed; what was released is cleaned up like any process.
Abort ==
  /\ spawn = "abort"
  /\ CloseControl
  /\ IF known /\ ctl = "release"
     THEN clean' = [NoCleanup EXCEPT !.pc = "term"] /\ Spawn("abort_clean")
     ELSE UNCHANGED clean /\ Spawn(IF known THEN "abort_wait" ELSE "abort_end")
  /\ UNCHANGED <<marked, sc, known, creation, noted, cut, context, faults, scope, main, fin,
                 outcome, err, failed, kernel, events>>

\* The waits of the abort are protected: a cancellation is noted.
AbortCancelled ==
  /\ sc /\ spawn \in {"abort_wait", "abort_clean", "abort_reap"}
  /\ sc' = FALSE /\ noted' = TRUE
  /\ UNCHANGED <<spawn, known, creation, cut, channel, context, faults>> /\ SpawnKeeps

AbortWaited ==
  /\ spawn = "abort_wait" /\ rc
  /\ Spawn("abort_cgroup")
  /\ UNCHANGED <<sc, known, creation, noted, cut, channel, context, faults>> /\ SpawnKeeps

AbortWaitTimesOut ==
  /\ spawn \in {"abort_wait", "abort_reap"} /\ ~rc
  /\ noted' = TRUE
  /\ Spawn(IF spawn = "abort_wait" THEN "abort_cgroup" ELSE "abort_end")
  /\ UNCHANGED <<sc, known, creation, cut, channel, context, faults>> /\ SpawnKeeps

AbortCleaned ==
  /\ spawn = "abort_clean" /\ clean.pc = "done"
  /\ noted' = (noted \/ clean.err)
  /\ Spawn("abort_cgroup")
  /\ UNCHANGED <<sc, known, creation, cut, channel, context, faults>> /\ SpawnKeeps

\* The cgroup is finished unless it is removed; a closed handle cannot be.
AbortGroup ==
  /\ spawn = "abort_cgroup"
  /\ IF grp.has /\ grp.leaf = "made" /\ ctx = "open"
     THEN fin' = "kill" /\ UNCHANGED noted /\ Spawn("abort_finish")
     ELSE /\ UNCHANGED fin /\ Spawn("abort_end")
          /\ noted' = (noted \/ (grp.has /\ grp.leaf = "made"))
  /\ UNCHANGED <<sc, known, creation, cut, channel, context, faults, scope, main, clean, outcome,
                 err, failed, kernel, events>>

\* It may be cut short by a cancellation.
AbortFinished ==
  /\ spawn = "abort_finish" /\ (fin \in {"ok", "bad"} \/ sc)
  /\ noted' = (noted \/ fin # "ok")
  /\ sc' = FALSE /\ fin' = "none"
  /\ Spawn(IF fin = "ok" THEN "abort_reap" ELSE "abort_end")
  /\ UNCHANGED <<known, creation, cut, channel, context, faults, scope, main, clean, outcome, err,
                 failed, kernel, events>>

AbortReaped ==
  /\ spawn = "abort_reap" /\ rc
  /\ Spawn("abort_end")
  /\ UNCHANGED <<sc, known, creation, noted, cut, channel, context, faults>> /\ SpawnKeeps

\* The context and the channels are closed.
AbortEnd ==
  /\ spawn = "abort_end"
  /\ ctx' = IF ctx = "open" THEN "closed" ELSE ctx
  /\ CloseControl
  /\ Spawn("failed")
  /\ UNCHANGED <<grp, term, kill, marked, sc, known, creation, noted, cut, faults>> /\ SpawnKeeps

-----------------------------------------------------------------------------
(* _finish_cgroup                                                          *)

FinKeeps == UNCHANGED <<scope, main, spawn, sc, known, creation, clean, outcome, noted, cut,
                        channel, ctx, term, rc, child, stuck, events>>

FinishKill ==
  /\ fin = "kill"
  /\ IF Populated THEN KillMembers ELSE UNCHANGED <<kill, doomed, kid, other>>
  /\ fin' = IF grp.leaf = "removed" THEN "ok" ELSE "empty"
  /\ UNCHANGED <<err, failed, grp, faults>> /\ FinKeeps

FinishEmpty ==
  /\ fin = "empty" /\ ~Populated
  /\ fin' = "remove"
  /\ UNCHANGED <<err, failed, grp, faults, kill, doomed, kid, other>> /\ FinKeeps

FinishRemove ==
  /\ fin = "remove"
  /\ grp' = [grp EXCEPT !.leaf = "removed"]
  /\ fin' = "ok"
  /\ UNCHANGED <<err, failed, faults, kill, doomed, kid, other>> /\ FinKeeps

\* wait_empty expires.
FinishTimesOut ==
  /\ fin = "empty" /\ Populated
  /\ fin' = "bad"
  /\ UNCHANGED <<err, failed, grp, faults, kill, doomed, kid, other>> /\ FinKeeps

\* Reading cgroup.events, writing cgroup.kill or rmdir fails.
FinishFails ==
  /\ fin \in {"kill", "empty", "remove"} /\ Fault
  /\ fin' = "bad" /\ failed' = TRUE
  /\ UNCHANGED <<err, grp, kill, doomed, kid, other>> /\ FinKeeps

-----------------------------------------------------------------------------
(* _cleanup_process: terminate, wait_after_finish, _ensure_process_exit,   *)
(* _force_cleanup_process                                                  *)

CleanKeeps == UNCHANGED <<scope, main, spawn, sc, known, creation, outcome, noted, cut, err,
                          channel, grp, rc, child, stuck, events>>

\* A step is over, well or with an error.
StepEnds(bad) ==
  clean' = [clean EXCEPT !.err = @ \/ bad,
                         !.pc = CASE clean.pc = "fin" -> "exit"
                                  [] clean.pc # "fin" /\ clean.pass = 2 -> "force"
                                  [] OTHER -> IF scope = "tree" THEN "fin" ELSE "exit"]

StepGoes(to) == clean' = [clean EXCEPT !.pc = to]

\* The pidfd finds a process that is not yet reaped.
Signalled == ctx = "open" /\ child # "reaped"

Terminate ==
  /\ clean.pc = "term" /\ UNCHANGED <<fin, failed, ctx, kill, doomed, kid, other, faults>>
  /\ IF rc THEN UNCHANGED term /\ IF scope = "tree" THEN StepGoes("term_fin") ELSE StepEnds(FALSE)
     ELSE IF term THEN StepGoes("term_wait") /\ UNCHANGED term
     ELSE IF Signalled THEN StepGoes("term_wait") /\ term' = TRUE
     ELSE StepEnds(TRUE) /\ UNCHANGED term
  /\ CleanKeeps

\* Two seconds for SIGTERM
TermWaited ==
  /\ clean.pc = "term_wait"
  /\ StepGoes("term_kill")
  /\ UNCHANGED <<fin, failed, ctx, term, kill, doomed, kid, other, faults>> /\ CleanKeeps

TermKill_LeaderOnly ==
  /\ clean.pc = "term_kill"
  /\ IF rc THEN StepEnds(FALSE) /\ UNCHANGED <<kill, doomed>>
     ELSE IF Signalled
     THEN StepGoes("term_reap") /\ kill' = TRUE /\ doomed' = (doomed \/ Alive)
     ELSE StepEnds(TRUE) /\ UNCHANGED <<kill, doomed>>
  /\ UNCHANGED <<kid, other, fin, failed, ctx, term, faults>> /\ CleanKeeps

\* The remainder is killed: through cgroup.kill, or the leader through its pidfd.
TermKill ==
  /\ clean.pc = "term_kill"
  /\ IF scope = "tree"
     THEN /\ IF Populated THEN KillMembers ELSE UNCHANGED <<kill, doomed, kid, other>>
          /\ StepGoes("term_empty")
     ELSE /\ UNCHANGED <<kid, other>>
          /\ IF rc THEN StepEnds(FALSE) /\ UNCHANGED <<kill, doomed>>
             ELSE IF kill THEN StepGoes("term_reap") /\ UNCHANGED <<kill, doomed>>
             ELSE IF Signalled
             THEN StepGoes("term_reap") /\ kill' = TRUE /\ doomed' = (doomed \/ Alive)
             ELSE StepEnds(TRUE) /\ UNCHANGED <<kill, doomed>>
  /\ UNCHANGED <<fin, failed, ctx, term, faults>> /\ CleanKeeps

TermKillFails ==
  /\ clean.pc \in {"term_kill", "term_empty"} /\ scope = "tree" /\ Fault
  /\ StepEnds(TRUE) /\ failed' = TRUE
  /\ UNCHANGED <<fin, ctx, term, kill, doomed, kid, other>> /\ CleanKeeps

TermEmpty ==
  /\ clean.pc = "term_empty"
  /\ ~Populated /\ StepGoes("term_reap")
  /\ UNCHANGED <<fin, failed, ctx, term, kill, doomed, kid, other, faults>> /\ CleanKeeps

TermReaped ==
  /\ clean.pc = "term_reap" /\ rc
  /\ StepEnds(FALSE)
  /\ UNCHANGED <<fin, failed, ctx, term, kill, doomed, kid, other, faults>> /\ CleanKeeps

\* _finish_cgroup, of terminate for a process that has exited and of wait_after_finish
FinishBegins ==
  /\ clean.pc \in {"fin", "term_fin"} /\ fin = "none"
  /\ fin' = "kill"
  /\ UNCHANGED <<clean, failed, ctx, term, kill, doomed, kid, other, faults>> /\ CleanKeeps

FinishEnds ==
  /\ clean.pc \in {"fin", "term_fin"} /\ fin \in {"ok", "bad"}
  /\ StepEnds(fin = "bad") /\ fin' = "none"
  /\ UNCHANGED <<failed, ctx, term, kill, doomed, kid, other, faults>> /\ CleanKeeps

\* _run_cleanup_step: the step does not end before the deadline and is cancelled.
StepTimesOut ==
  /\ \/ clean.pc \in {"term_empty", "term_reap"} /\ (Populated \/ ~rc)
     \/ clean.pc \in {"fin", "term_fin"} /\ fin = "empty" /\ Populated
  /\ StepEnds(TRUE) /\ fin' = "none"
  /\ UNCHANGED <<failed, ctx, term, kill, doomed, kid, other, faults>> /\ CleanKeeps

EnsureExit ==
  /\ clean.pc = "exit"
  /\ clean' = IF rc THEN [clean EXCEPT !.pc = "force"] ELSE [clean EXCEPT !.pc = "term", !.pass = 2]
  /\ UNCHANGED <<fin, failed, ctx, term, kill, doomed, kid, other, faults>> /\ CleanKeeps

\* _force_cleanup_process: the last kill, through the cgroup or the pidfd, and
\* the context is closed.
ForceCleanup ==
  /\ ctx' = "closed"
  /\ IF rc THEN UNCHANGED <<kill, doomed, kid, other>>
     ELSE IF scope = "tree"
     THEN IF Populated THEN KillMembers ELSE UNCHANGED <<kill, doomed, kid, other>>
     ELSE /\ UNCHANGED <<kid, other>>
          /\ kill' = TRUE
          /\ doomed' = (doomed \/ (Signalled /\ Alive))

CleanForce ==
  /\ clean.pc = "force"
  /\ ForceCleanup
  /\ clean' = [clean EXCEPT !.pc = "done", !.err = @ \/ ~rc]
  /\ UNCHANGED <<fin, failed, term, faults>> /\ CleanKeeps

\* The last kill itself fails.
CleanForceFails ==
  /\ clean.pc = "force" /\ ~rc /\ scope = "tree" /\ Fault
  /\ ctx' = "closed" /\ failed' = TRUE
  /\ clean' = [clean EXCEPT !.pc = "done", !.err = TRUE]
  /\ UNCHANGED <<fin, term, kill, doomed, kid, other>> /\ CleanKeeps

\* Whoever waits for the cleanup gives up, after 4.9 seconds: it is cancelled
\* and forced.  By then the two seconds for SIGTERM are over.
CleanupTimesOut ==
  /\ \/ clean.pc \in {"term_empty", "term_reap"}
     \/ clean.pc \in {"fin", "term_fin"} /\ fin = "empty"
     \/ clean.pass = 2 /\ clean.pc \notin {"force", "done"}
  /\ ForceCleanup
  /\ clean' = [clean EXCEPT !.pc = "done", !.err = TRUE]
  /\ fin' = "none"
  /\ UNCHANGED <<failed, term, faults>> /\ CleanKeeps

-----------------------------------------------------------------------------
(* _run                                                                    *)

MainKeeps == UNCHANGED <<scope, spawn, known, creation, noted, cut, fin, failed, context,
                         kernel, events>>
MainOnly  == UNCHANGED <<sc, clean, channel>> /\ MainKeeps

\* asyncio.wait({spawn, cancelled}): a cancellation wins over a result.  What a
\* spawn that failed by itself raised is what run() raises, with its notes.
Spawned ==
  /\ main = "spawning" /\ spawn \in {"returned", "failed"} /\ ~tok
  /\ IF spawn = "returned" THEN main' = "started" /\ UNCHANGED err
                           ELSE main' = "force_spawn" /\ err' = (err \/ noted)
  /\ UNCHANGED <<outcome, faults>> /\ MainOnly

\* The executable is the same as before, and neither the token nor the
\* deadline is up: the output is read.
Started ==
  /\ main = "started"
  /\ main' = IF tok \/ late THEN "finally" ELSE "waiting"
  /\ UNCHANGED <<outcome, err, faults>> /\ MainOnly

ExecutableChanged ==
  /\ main = "started" /\ Fault
  /\ main' = "finally"
  /\ UNCHANGED <<outcome, err>> /\ MainOnly

\* The process has exited and both pipes are at their end.
Completed ==
  /\ main = "waiting" /\ rc /\ kid # "holding" /\ ~tok
  /\ main' = "finally" /\ outcome' = "ok"
  /\ UNCHANGED <<err, faults>> /\ MainOnly

OutputLimit ==
  /\ main = "waiting" /\ child = "target" /\ Fault
  /\ main' = "finally"
  /\ UNCHANGED <<outcome, err>> /\ MainOnly

\* The token or the deadline ends the wait.
Interrupted ==
  /\ main \in {"spawning", "waiting"} /\ (tok \/ late)
  /\ main' = "finally"
  /\ UNCHANGED <<outcome, err, faults>> /\ MainOnly

\* The process is there: its cleanup begins, with terminate unless it completed.
CleanupBegins ==
  clean' = [NoCleanup EXCEPT !.pc = IF outcome # "ok" THEN "term"
                                    ELSE IF scope = "tree" THEN "fin" ELSE "exit"]

Finally ==
  /\ main = "finally"
  /\ IF spawn = "returned" THEN CleanupBegins /\ main' = "cleaning" /\ UNCHANGED sc
     ELSE main' = "drain" /\ sc' = (spawn # "failed") /\ UNCHANGED clean
  /\ UNCHANGED <<outcome, err, faults, channel>> /\ MainKeeps

\* The cancelled spawn task ends; it may have returned the process first.  An
\* error of its own is told; its CancelledError is dropped, with its notes.
Drained ==
  /\ main = "drain" /\ spawn \in {"returned", "failed"}
  /\ IF spawn = "returned" THEN CleanupBegins /\ main' = "cleaning" /\ UNCHANGED err
     ELSE UNCHANGED clean /\ main' = "force_spawn" /\ err' = (err \/ ~cut)
  /\ UNCHANGED <<outcome, faults, sc, channel>> /\ MainKeeps

DrainTimesOut ==
  /\ main = "drain" /\ spawn \notin {"returned", "failed"} /\ ~sc
  /\ main' = "force_spawn" /\ err' = TRUE
  /\ UNCHANGED <<outcome, faults>> /\ MainOnly

\* _force_cleanup_spawn, and the spawn task is cancelled once more.
ForceSpawn ==
  /\ main = "force_spawn"
  /\ IF spawn = "failed" THEN UNCHANGED <<ctl, sc>> ELSE CloseControl /\ sc' = TRUE
  /\ main' = "settle"
  /\ UNCHANGED <<outcome, err, faults, clean, marked>> /\ MainKeeps

Settled ==
  /\ main = "settle" /\ spawn = "failed"
  /\ main' = "done"
  /\ UNCHANGED <<outcome, err, faults>> /\ MainOnly

SettleTimesOut ==
  /\ main = "settle" /\ spawn # "failed"
  /\ main' = "done" /\ err' = TRUE
  /\ UNCHANGED <<outcome, faults>> /\ MainOnly

Cleaned ==
  /\ main = "cleaning" /\ clean.pc = "done"
  /\ main' = "done" /\ err' = (err \/ clean.err)
  /\ UNCHANGED <<outcome, faults>> /\ MainOnly

\* The caller's own task is cancelled while the cleanup is protected from it.
CallerCancelled ==
  /\ main = "cleaning" /\ outcome = "ok"
  /\ outcome' = "error"
  /\ UNCHANGED <<main, err, faults>> /\ MainOnly

-----------------------------------------------------------------------------
(* The guard's creation, the guard, the target, the kernel                 *)

CreationKeeps == UNCHANGED <<scope, main, spawn, sc, known, clean, fin, outcome, noted, cut,
                             err, failed, channel, context, doomed, rc, stuck, kid, other,
                             events>>

\* Popen runs in the first step of the task; the channels it passes on are
\* gone if they were closed before.
Popen ==
  /\ creation = "scheduled"
  /\ IF ctl = "eof" THEN creation' = "failed" /\ UNCHANGED child
     ELSE creation' = "popen" /\ child' = "guard"
  /\ UNCHANGED faults /\ CreationKeeps

PopenFails ==
  /\ creation = "scheduled" /\ Fault
  /\ creation' = "failed" /\ UNCHANGED child /\ CreationKeeps

CreationReturns ==
  /\ creation = "popen"
  /\ creation' = "returned" /\ UNCHANGED <<child, faults>> /\ CreationKeeps

KernelKeeps == UNCHANGED <<scope, coroutines, ctl, context, events>>

GuardMarks ==
  /\ child = "guard" /\ ctl = "target" /\ ~stuck
  /\ child' = "ready" /\ marked' = TRUE
  /\ UNCHANGED <<doomed, rc, stuck, kid, other, faults>> /\ KernelKeeps

Exec ==
  /\ child = "ready" /\ ctl = "release" /\ ~stuck
  /\ child' \in {"target", "zombie"}
  /\ UNCHANGED <<marked, doomed, rc, stuck, kid, other, faults>> /\ KernelKeeps

GuardEof_KeepsReading ==
  /\ child \in {"guard", "ready"} /\ ctl = "eof" /\ ~stuck
  /\ UNCHANGED vars

\* The guard reads the end of the control pipe and exits.
GuardEof ==
  /\ child \in {"guard", "ready"} /\ ctl = "eof" /\ ~stuck
  /\ child' = "zombie"
  /\ UNCHANGED <<marked, doomed, rc, stuck, kid, other, faults>> /\ KernelKeeps

TargetExits ==
  /\ child = "target" /\ ~stuck
  /\ child' = "zombie"
  /\ UNCHANGED <<marked, doomed, rc, stuck, kid, other, faults>> /\ KernelKeeps

\* One descendant, which may keep the output pipes open
Fork ==
  /\ child = "target" /\ ~doomed /\ kid = "none"
  /\ kid' \in {"quiet", "holding"}
  /\ UNCHANGED <<marked, child, doomed, rc, stuck, other, faults>> /\ KernelKeeps

KidExits ==
  /\ kid \in {"quiet", "holding"}
  /\ kid' = "none"
  /\ UNCHANGED <<marked, child, doomed, rc, stuck, other, faults>> /\ KernelKeeps

Dies ==
  /\ \/ doomed /\ Alive /\ ~stuck /\ child' = "zombie" /\ UNCHANGED kid
     \/ kid = "doomed" /\ kid' = "none" /\ UNCHANGED child
  /\ UNCHANGED <<marked, doomed, rc, stuck, other, faults>> /\ KernelKeeps

\* The child watcher waits for the process, then the loop learns its code.
Reap ==
  /\ child = "zombie" /\ child' = "reaped"
  /\ UNCHANGED <<marked, doomed, rc, stuck, kid, other, faults>> /\ KernelKeeps

ReturnCode ==
  /\ child = "reaped" /\ ~rc /\ rc' = TRUE
  /\ UNCHANGED <<marked, child, doomed, stuck, kid, other, faults>> /\ KernelKeeps

GuardDies ==
  /\ child \in {"guard", "ready"} /\ Fault
  /\ child' = "zombie"
  /\ UNCHANGED <<marked, doomed, rc, stuck, kid, other>> /\ KernelKeeps

Sticks ==
  /\ Alive /\ ~stuck /\ Fault
  /\ stuck' = TRUE
  /\ UNCHANGED <<marked, child, doomed, rc, kid, other>> /\ KernelKeeps

PidReused ==
  /\ child = "reaped" /\ other = "none" /\ Fault
  /\ other' = "alive"
  /\ UNCHANGED <<marked, child, doomed, rc, stuck, kid>> /\ KernelKeeps

TokenSet ==
  /\ ~tok /\ main # "done" /\ tok' = TRUE
  /\ UNCHANGED <<scope, coroutines, channel, context, kernel, late, faults>>

DeadlinePasses ==
  /\ ~late /\ main # "done" /\ late' = TRUE
  /\ UNCHANGED <<scope, coroutines, channel, context, kernel, tok, faults>>

-----------------------------------------------------------------------------
SpawnStep ==
  \/ SpawnStart \/ Created \/ SendTarget \/ ReadMarker \/ Identify \/ Yield \/ CreateLeaf
  \/ AttachPid \/ VerifyPid \/ Release \/ Returned \/ StageTimesOut \/ SpawnCancelled
  \/ Recover \/ RecoverGivesUp \/ Abort \/ AbortCancelled \/ AbortWaited \/ AbortWaitTimesOut
  \/ AbortCleaned \/ AbortGroup \/ AbortFinished \/ AbortReaped \/ AbortEnd
  \/ Popen \/ CreationReturns

CleanStep ==
  \/ FinishKill \/ FinishEmpty \/ FinishRemove \/ FinishTimesOut
  \/ Terminate \/ TermWaited \/ TermKill \/ TermEmpty \/ TermReaped
  \/ FinishBegins \/ FinishEnds \/ StepTimesOut \/ EnsureExit \/ CleanForce \/ CleanupTimesOut

MainStep ==
  \/ Spawned \/ Started \/ Completed \/ Interrupted \/ Finally \/ Drained \/ DrainTimesOut
  \/ ForceSpawn \/ Settled \/ SettleTimesOut \/ Cleaned

KernelStep == GuardMarks \/ Exec \/ GuardEof \/ Dies \/ Reap \/ ReturnCode

Failures ==
  \/ SpawnRefused \/ CreateLeafFails \/ GroupCallFails \/ FinishFails \/ TermKillFails
  \/ CleanForceFails \/ ExecutableChanged \/ OutputLimit \/ PopenFails
  \/ GuardDies \/ Sticks \/ PidReused

Next ==
  \/ SpawnStep \/ CleanStep \/ MainStep \/ KernelStep \/ Failures
  \/ CallerCancelled \/ TargetExits \/ Fork \/ KidExits \/ TokenSet \/ DeadlinePasses

\* The event loop runs every task that can go on and fires its timers; the
\* request deadline passes; the kernel ends what was killed and reports it.
\* Nothing makes a target exit by itself.
Fairness ==
  /\ WF_vars(SpawnStep) /\ WF_vars(CleanStep) /\ WF_vars(MainStep)
  /\ WF_vars(KernelStep) /\ WF_vars(DeadlinePasses)

Spec == ProcessInit /\ [][Next]_vars /\ Fairness

-----------------------------------------------------------------------------
(* Properties                                                              *)

\* The types; a context is held only by a spawn that got as far as the pidfd.
TypeOK ==
  /\ scope \in {"leader", "tree"}
  /\ main \in {"spawning", "started", "waiting", "finally", "drain", "force_spawn", "settle",
               "cleaning", "done"}
  /\ spawn \in Stages \cup Aborting \cup {"start", "identify", "release", "after", "returned",
                                          "failed"}
  /\ ctl \in {"empty", "target", "release", "eof"}
  /\ ctx \in {"none", "open", "closed"}
  /\ grp \in [leaf : {"none", "made", "removed"}, has : BOOLEAN, moved : BOOLEAN]
  /\ fin \in {"none", "kill", "empty", "remove", "ok", "bad"}
  /\ child \in {"none", "guard", "ready", "target", "zombie", "reaped"}
  /\ kid \in {"none", "quiet", "holding", "doomed"}
  /\ other \in {"none", "alive", "leaf", "killed"}
  /\ faults \in 0..MaxFaults
  /\ spawn = "failed" => ctx # "open"

\* A command of scope "tree" executes nothing outside its cgroup: whatever
\* fails, dies or is cancelled during the handshake, the target runs only as
\* a member, so that each of its descendants is one, too.
ContainedBeforeExec ==
  scope = "tree" /\ (child = "target" \/ kid # "none") => grp.has /\ grp.moved

\* What a command that ended well leaves: the process has ended, the pidfd is
\* closed, and with scope "tree" no descendant lives and the cgroup is removed.
NothingLeft ==
  /\ ~Alive /\ ctx # "open"
  /\ scope = "tree" => kid = "none" /\ grp.leaf # "made"

\* run() leaves nothing behind without raising or noting an error of its
\* cleanup, whether the command ran, or its spawn failed; except that of a spawn
\* it cancelled itself the notes are lost with the CancelledError they were
\* made on (common.py:478).
CleanOrReported == main = "done" /\ ~err /\ ~(cut /\ noted) => NothingLeft

\* Nothing is left running, reported or not: when run() is over and no system
\* call of its cleanup failed, the process has ended, was sent SIGKILL, is a
\* guard that can never execute the target, or is still being cleaned up by
\* the spawn task; and no descendant of a "tree" lives on.
NothingLeftRunning ==
  main = "done" /\ ~failed /\ spawn \notin Aborting =>
    /\ ~Alive \/ doomed \/ ctl = "eof"
    /\ scope = "tree" => kid \in {"none", "doomed"}

\* When run() is over nothing is left behind in silence, and nothing that could
\* still act is left at all.
CleanAtEnd == TypeOK /\ CleanOrReported /\ NothingLeftRunning

\* run() is bounded: whatever the process does, stuck ones included, and
\* whichever call fails, it returns or raises.
RunEnds == <>(main = "done")

\* After run() everything it started is gone for good, unless a process is
\* uninterruptible or a system call of the cleanup failed.
TreeGone ==
  [](main = "done" =>
     <>(\/ stuck \/ failed
        \/ ~Alive /\ creation # "scheduled" /\ (scope = "tree" => kid = "none")))

\* Every command ends, run() and all it started.
CommandEnds == RunEnds /\ TreeGone
=============================================================================
