---------------------- MODULE LinuxProcessRunnerProofs ----------------------
(***************************************************************************)
(* Proofs that a command of scope "tree" executes nothing outside its       *)
(* cgroup (ContainedBeforeExec) and that run() leaves nothing behind in     *)
(* silence and nothing that could still act (CleanAtEnd), for every number  *)
(* of faults.                                                               *)
(*                                                                         *)
(* Neither is inductive.  IInv follows the command through the handshake    *)
(* (Handshake, Containment), says who owns the cleanup at each point of     *)
(* run() and of the spawn task (Ownership), what an unreported cleanup has  *)
(* achieved by then (Reported), and what was killed (Killed).               *)
(***************************************************************************)
EXTENDS LinuxProcessRunner, TLAPS

\* The types of the records.
GroupType == grp \in [leaf : {"none", "made", "removed"}, has : BOOLEAN, moved : BOOLEAN]

CleanType ==
  clean \in [pc : {"none", "term", "term_wait", "term_kill", "term_empty", "term_reap",
                   "term_fin", "fin", "exit", "force", "done"},
             pass : {1, 2}, err : BOOLEAN]

\* The types TypeOK leaves to the code: flags, the outcome and the creation.
FlagTypes ==
  /\ sc \in BOOLEAN /\ known \in BOOLEAN /\ marked \in BOOLEAN
  /\ term \in BOOLEAN /\ kill \in BOOLEAN /\ doomed \in BOOLEAN
  /\ rc \in BOOLEAN /\ stuck \in BOOLEAN /\ failed \in BOOLEAN
  /\ noted \in BOOLEAN /\ cut \in BOOLEAN /\ err \in BOOLEAN
  /\ tok \in BOOLEAN /\ late \in BOOLEAN
  /\ outcome \in {"none", "ok", "error"}
  /\ creation \in {"none", "scheduled", "popen", "returned", "failed"}

Types == TypeOK /\ FlagTypes /\ CleanType

\* Where start_process has the guard's process, has not yet released it, holds
\* its pidfd, and where its abort finishes the cgroup and waits for the exit.
WithGuard == {"payload", "marker", "identify", "yield", "leaf", "attach", "verify",
              "release", "after", "returned"}
Unreleased == {"start", "creating", "payload", "marker", "identify", "yield", "leaf", "attach",
               "verify", "release", "abort_wait"}
WithPidfd == {"yield", "leaf", "attach", "verify", "release", "after"}
Reaping == {"abort_cgroup", "abort_finish", "abort_reap"}

\* The process exists once and as far as the handshake says.
Handshake ==
  /\ known => creation = "returned"
  /\ creation \in {"none", "scheduled", "failed"} => child = "none"
  /\ spawn = "start" => creation = "none"
  /\ spawn \in WithGuard \cup Reaping \cup {"abort_wait", "abort_clean"} => known
  /\ ctl = "release" => known
  /\ spawn \in {"after", "returned"} => ctl = "release"
  /\ spawn \in Unreleased => ctl # "release"
  /\ child = "target" \/ kid # "none" => ctl = "release"
  /\ rc \/ other # "none" => child = "reaped"

\* The cgroup is made before it is joined, and joined before the release.
Containment ==
  /\ grp.has => scope = "tree" /\ grp.leaf # "none"
  /\ grp.moved \/ grp.leaf = "removed" => grp.has
  /\ grp.leaf # "none" \/ kill => known
  /\ spawn \in {"leaf", "attach", "verify"} => scope = "tree"
  /\ spawn = "yield" => scope = "leader"
  /\ spawn \in {"start", "creating", "payload", "marker", "identify", "leaf"} => ~grp.has
  /\ spawn \in {"attach", "verify"} => grp.has /\ grp.leaf = "made"
  /\ scope = "tree" /\ spawn = "release" => grp.has /\ (grp.moved \/ ~Alive)
  /\ scope = "tree" /\ ctl = "release" => grp.has /\ grp.moved

\* A cleanup belongs to run() or to the abort of the spawn task, and it has the
\* context until it is done; run() stops waiting only for a spawn that aborts.
Ownership ==
  /\ spawn \in WithPidfd => ctx = "open"
  /\ spawn = "start" => ctx = "none"
  /\ ctl = "release" /\ clean.pc # "done"
       /\ spawn \in {"returned", "recover", "abort", "abort_clean"} => ctx = "open"
  /\ clean.pc = "done" => ctx = "closed"
  /\ clean.pc # "none" =>
       /\ ctl = "release"
       /\ \/ spawn = "returned" /\ main \in {"cleaning", "done"}
          \/ spawn \in Reaping \cup {"abort_clean", "abort_end", "failed"}
  /\ clean.pc \notin {"none", "done"} =>
       spawn = "abort_clean" \/ (spawn = "returned" /\ main = "cleaning")
  /\ clean.pc = "none" => clean.pass = 1
  /\ clean.pc \in {"fin", "term_fin", "term_empty"} => scope = "tree"
  /\ spawn = "abort_clean" \/ main = "cleaning" => clean.pc # "none"
  /\ ctl = "release" /\ spawn \in Reaping \cup {"abort_end", "failed"} => clean.pc = "done"
  /\ main = "done" /\ spawn = "returned" => clean.pc = "done"
  /\ fin # "none" => clean.pc \in {"fin", "term_fin"} \/ spawn = "abort_finish"
  /\ spawn = "abort_finish" => grp.has
  /\ main \in {"started", "waiting", "cleaning"} => spawn = "returned"
  /\ main \in {"drain", "force_spawn", "settle"} => spawn # "returned"
  /\ main = "drain" => sc \/ spawn \in Aborting \cup {"failed"}
  /\ main \in {"force_spawn", "settle"} => spawn \in Aborting \cup {"failed"}
  /\ main = "done" => spawn \in Aborting \cup {"failed", "returned"}

\* What no noted or recorded error stands for, and who takes the notes of an
\* abort over: a spawn task that is not over when run() goes on is an error, and
\* the notes of one that is over are lost only with a cancellation of its own.
Reported ==
  /\ grp.leaf = "made" /\ ~grp.has => noted
  /\ grp.leaf = "removed" \/ fin = "remove" => kid = "none" /\ (grp.moved => ~Alive)
  /\ fin = "ok" \/ spawn = "abort_reap" => grp.leaf = "removed"
  /\ noted => spawn \in Aborting \cup {"failed"}
  /\ spawn \in {"abort", "abort_end", "failed"} /\ ~known /\ ~noted =>
       creation \in {"none", "failed"}
  /\ spawn \in Reaping \ {"abort_reap"} /\ ~noted => rc
  /\ spawn \in {"abort_end", "failed"} /\ ~noted => grp.leaf # "made" /\ (known => rc)
  /\ spawn \in Reaping \cup {"abort_end", "failed"} /\ ctl = "release" /\ ~noted => ~clean.err
  /\ scope = "tree" /\ ~clean.err /\ (clean.pc \in {"exit", "force", "done"} \/ clean.pass = 2) =>
       grp.leaf = "removed"
  /\ clean.pc = "done" /\ ~clean.err => rc
  /\ main \in {"force_spawn", "settle", "done"} =>
       /\ err \/ cut \/ ~noted
       /\ err \/ spawn \in {"failed", "returned"}
  /\ main = "done" /\ spawn = "returned" /\ ~err => ~clean.err

\* Nothing of the process can go on.
Spent == (~Alive \/ doomed) /\ kid \in {"none", "doomed"}

\* How far the kill has got.
Killed ==
  /\ scope = "tree" /\ kill => Spent
  /\ fin \notin {"none", "kill"} /\ grp.moved /\ ~failed => Spent
  /\ scope = "tree" /\ ~failed
       /\ (clean.pass = 2 \/ clean.pc \in {"term_empty", "term_reap", "exit", "force", "done"}) =>
       Spent
  /\ scope = "leader" /\ clean.pc = "done" => ~Alive \/ doomed
  /\ spawn = "failed" => ctl \in {"release", "eof"} \/ creation = "none"

IInv == Types /\ Handshake /\ Containment /\ Ownership /\ Reported /\ Killed


-----------------------------------------------------------------------------
(* What the operators the actions share do                                 *)

\* Where a step of _cleanup_process goes on: an error is kept, the second pass
\* goes on to the last kill, and in a "tree" the first one to _finish_cgroup.
LEMMA StepEnded ==
  ASSUME CleanType, scope \in {"leader", "tree"}, NEW bad \in BOOLEAN, StepEnds(bad)
  PROVE  /\ clean'.pass = clean.pass
         /\ clean'.err = (clean.err \/ bad)
         /\ clean'.pc \in {"exit", "force", "fin"}
         /\ clean'.pc = "fin" => scope = "tree"
         /\ clean'.pc = "force" => clean.pass = 2
         /\ clean'.pc = "exit" => scope = "leader" \/ clean.pc = "fin"
BY DEF CleanType, StepEnds

\* A step that goes on keeps the pass and the error.
LEMMA StepGone ==
  ASSUME CleanType, NEW to, StepGoes(to)
  PROVE  clean'.pass = clean.pass /\ clean'.err = clean.err /\ clean'.pc = to
BY DEF CleanType, StepGoes

\* terminate() changes the step and term_sent only.
LEMMA TerminateEffect ==
  ASSUME TypeOK, CleanType, Terminate
  PROVE  /\ UNCHANGED <<scope, main, spawn, known, creation, ctl, ctx, grp, kill, fin, child, rc,
                        kid, doomed, noted, cut, err, failed>>
         /\ clean.pc = "term"
         /\ clean'.pc \in {"term_fin", "term_wait", "exit", "force", "fin"}
         /\ clean'.pass = clean.pass
         /\ clean.err => clean'.err
         /\ clean'.pc \in {"fin", "term_fin"} => scope = "tree"
         /\ clean'.pc = "force" => clean.pass = 2
         /\ clean'.pc = "exit" => scope = "leader"
<1>1. UNCHANGED <<scope, main, spawn, known, creation, ctl, ctx, grp, kill, fin, child, rc,
                  kid, doomed, noted, cut, err, failed>>
  BY DEF Terminate, CleanKeeps, channel, events
<1>2. \/ StepGoes("term_fin") /\ scope = "tree"
      \/ StepGoes("term_wait")
      \/ StepEnds(TRUE) \/ StepEnds(FALSE)
  BY DEF Terminate
<1>3. clean.pc = "term" /\ scope \in {"leader", "tree"}
  BY DEF Terminate, TypeOK
<1>4. CASE StepGoes("term_fin") /\ scope = "tree"
  BY <1>1, <1>3, <1>4, StepGone
<1>5. CASE StepGoes("term_wait")
  BY <1>1, <1>3, <1>5, StepGone
<1>6. CASE StepEnds(TRUE)
  BY <1>1, <1>3, <1>6, StepEnded
<1>7. CASE StepEnds(FALSE)
  BY <1>1, <1>3, <1>7, StepEnded
<1> QED
  BY <1>2, <1>4, <1>5, <1>6, <1>7

\* The kill of terminate() goes on to wait for the cgroup in a "tree".
LEMMA TermKillEffect ==
  ASSUME TypeOK, CleanType, TermKill
  PROVE  /\ UNCHANGED <<scope, main, spawn, known, creation, ctl, ctx, grp, fin, child, rc, noted,
                        cut, err, failed>>
         /\ scope = "leader" => UNCHANGED kid
         /\ clean.pc = "term_kill"
         /\ clean'.pc \in {"term_empty", "term_reap", "exit", "force", "fin"}
         /\ clean'.pass = clean.pass
         /\ clean.err => clean'.err
         /\ scope = "tree" <=> clean'.pc = "term_empty"
         /\ scope = "tree" =>
              IF Populated THEN KillMembers ELSE UNCHANGED <<kill, doomed, kid, other>>
         /\ clean'.pc = "fin" => scope = "tree"
         /\ clean'.pc = "force" => clean.pass = 2
<1>1. UNCHANGED <<scope, main, spawn, known, creation, ctl, ctx, grp, fin, child, rc,
                  noted, cut, err, failed>>
  BY DEF TermKill, CleanKeeps, channel, events
<1>2. clean.pc = "term_kill" /\ scope \in {"leader", "tree"}
  BY DEF TermKill, TypeOK
<1>3. CASE scope = "tree"
  <2>1. /\ StepGoes("term_empty")
        /\ IF Populated THEN KillMembers ELSE UNCHANGED <<kill, doomed, kid, other>>
    BY <1>3 DEF TermKill
  <2> QED
    BY <1>1, <1>2, <1>3, <2>1, StepGone
<1>4. CASE scope = "leader"
  <2>1. /\ UNCHANGED kid
        /\ StepGoes("term_reap") \/ StepEnds(TRUE) \/ StepEnds(FALSE)
    BY <1>4 DEF TermKill
  <2>2. CASE StepGoes("term_reap")
    BY <1>1, <1>2, <1>4, <2>1, <2>2, StepGone
  <2>3. CASE StepEnds(TRUE)
    BY <1>1, <1>2, <1>4, <2>1, <2>3, StepEnded
  <2>4. CASE StepEnds(FALSE)
    BY <1>1, <1>2, <1>4, <2>1, <2>4, StepEnded
  <2> QED
    BY <2>1, <2>2, <2>3, <2>4
<1> QED
  BY <1>2, <1>3, <1>4

\* cgroup.kill leaves no member that could go on, when it is written and when
\* the group is not populated; and who is not a member is not there at all.
LEMMA MembersSpent ==
  ASSUME GroupType, FlagTypes, Handshake, Containment, Reported, Killed, scope = "tree", grp.has,
         UNCHANGED child,
         IF Populated THEN KillMembers ELSE UNCHANGED <<kill, doomed, kid, other>>
  PROVE  (grp.moved \/ kill' => Spent') /\ (Spent => Spent')
<1> USE DEF GroupType, FlagTypes, Alive, Spent
<1>1. CASE Populated
  <2>1. (~Alive /\ kid = "none") \/ grp.moved
    BY <1>1 DEF Populated, Handshake, Containment
  <2>2. kill => Spent
    BY DEF Killed
  <2> QED
    BY <1>1, <2>1, <2>2 DEF KillMembers
<1>2. CASE ~Populated
  <2>1. UNCHANGED <<kill, doomed, kid>>
    BY <1>2
  <2>2. grp.moved => ~Alive /\ kid = "none"
    BY <1>2 DEF Populated, Containment, Reported
  <2>3. kill => Spent
    BY DEF Killed
  <2> QED
    BY <2>1, <2>2, <2>3
<1> QED
  BY <1>1, <1>2

\* A step of start_process preserves the invariant.
LEMMA SpawnKept ==
  ASSUME IInv,
         SpawnStart \/ SpawnRefused \/ Created \/ SendTarget \/ ReadMarker \/ Identify \/
         Yield \/ CreateLeaf \/ CreateLeafFails \/ AttachPid \/ VerifyPid \/ GroupCallFails
         \/ Release \/ Returned \/ StageTimesOut \/ SpawnCancelled
  PROVE  IInv'
<1> TypeOK /\ FlagTypes /\ CleanType /\ Handshake /\ Containment
    /\ Ownership /\ Reported /\ Killed
  BY DEF IInv, Types
<1> GroupType
  BY DEF GroupType, TypeOK
<1> SUFFICES /\ TypeOK' /\ FlagTypes' /\ CleanType' /\ Handshake'
             /\ Containment' /\ Ownership' /\ Reported' /\ Killed'
  BY DEF IInv, Types
<1> USE DEF Spawn, SpawnKeeps, kernel, events, channel, context, Alive, Stages, WithGuard,
            Unreleased, WithPidfd, Reaping, Spent, Aborting
<1>1. CASE SpawnStart
  BY <1>1 DEF SpawnStart, TypeOK, FlagTypes, CleanType, Handshake, Containment, Ownership,
                Reported, Killed
<1>2. CASE SpawnRefused
  <2>1. TypeOK'
    <3>1. faults' \in 0..MaxFaults
      BY <1>2, RunnerAssumption DEF SpawnRefused, Fault, TypeOK
    <3> QED
      BY <1>2, <3>1 DEF SpawnRefused, TypeOK, Ownership
  <2>2. FlagTypes'
    BY <1>2 DEF SpawnRefused, FlagTypes
  <2>3. CleanType'
    BY <1>2 DEF SpawnRefused, CleanType
  <2>4. Handshake' /\ Containment'
    BY <1>2 DEF SpawnRefused, Handshake, Containment
  <2>5. Ownership' /\ Reported' /\ Killed'
    BY <1>2 DEF SpawnRefused, Ownership, Handshake, Reported, Containment, Killed
  <2> QED
    BY <2>1, <2>2, <2>3, <2>4, <2>5
<1>3. CASE Created
  <2>1. TypeOK' /\ FlagTypes' /\ CleanType'
    BY <1>3 DEF Created, TypeOK, FlagTypes, CleanType
  <2>2. Handshake' /\ Containment'
    BY <1>3 DEF Created, Handshake, Containment
  <2>3. Ownership' /\ Reported' /\ Killed'
    BY <1>3 DEF Created, Ownership, Handshake, Reported, Killed
  <2> QED
    BY <2>1, <2>2, <2>3
<1>4. CASE SendTarget
  BY <1>4 DEF SendTarget, TypeOK, FlagTypes, CleanType, Handshake, Containment, Ownership,
                Reported, Killed
<1>5. CASE ReadMarker
  BY <1>5 DEF ReadMarker, TypeOK, FlagTypes, CleanType, Handshake, Containment, Ownership,
                Reported, Killed
<1>6. CASE Identify
  BY <1>6 DEF Identify, TypeOK, FlagTypes, CleanType, Handshake, Containment, Ownership,
                GroupType, Types, Reported, Killed
<1>7. CASE Yield
  BY <1>7 DEF Yield, TypeOK, FlagTypes, CleanType, Handshake, Containment, Ownership,
                Reported, Killed
<1>8. CASE CreateLeaf
  <2>1. TypeOK'
    <3>1. GroupType'
      BY <1>8 DEF CreateLeaf, GroupType
    <3> QED
      BY <1>8, <3>1 DEF CreateLeaf, GroupType, TypeOK
  <2>2. FlagTypes'
    BY <1>8 DEF CreateLeaf, FlagTypes
  <2>3. CleanType'
    BY <1>8 DEF CreateLeaf, CleanType
  <2>4. Handshake' /\ Containment'
    BY <1>8 DEF CreateLeaf, Handshake, Containment
  <2>5. Ownership' /\ Reported' /\ Killed'
    BY <1>8 DEF CreateLeaf, Ownership, Reported, Killed
  <2> QED
    BY <2>1, <2>2, <2>3, <2>4, <2>5
<1>9. CASE CreateLeafFails
  <2>1. TypeOK'
    <3>1. faults' \in 0..MaxFaults
      BY <1>9, RunnerAssumption DEF CreateLeafFails, Fault, TypeOK
    <3>2. GroupType'
      BY <1>9 DEF CreateLeafFails, GroupType
    <3> QED
      BY <1>9, <3>1, <3>2 DEF CreateLeafFails, GroupType, TypeOK
  <2>2. FlagTypes'
    BY <1>9 DEF CreateLeafFails, FlagTypes
  <2>3. CleanType'
    BY <1>9 DEF CreateLeafFails, CleanType
  <2>4. Handshake' /\ Containment'
    BY <1>9 DEF CreateLeafFails, Handshake, Containment
  <2>5. Ownership' /\ Reported' /\ Killed'
    BY <1>9 DEF CreateLeafFails, Ownership, Reported, Handshake, Containment, CleanType,
                  GroupType, Killed
  <2> QED
    BY <2>1, <2>2, <2>3, <2>4, <2>5
<1>10. CASE AttachPid
  <2>1. TypeOK'
    <3>1. GroupType'
      BY <1>10 DEF AttachPid, GroupType
    <3> QED
      BY <1>10, <3>1 DEF AttachPid, GroupType, TypeOK
  <2>2. FlagTypes'
    BY <1>10 DEF AttachPid, FlagTypes
  <2>3. CleanType'
    BY <1>10 DEF AttachPid, CleanType
  <2>4. Handshake' /\ Containment'
    BY <1>10 DEF AttachPid, Handshake, Containment, Ownership, GroupType
  <2>5. Ownership' /\ Reported' /\ Killed'
    BY <1>10 DEF AttachPid, Ownership, Reported, Handshake, Containment, CleanType,
                  GroupType, Killed
  <2> QED
    BY <2>1, <2>2, <2>3, <2>4, <2>5
<1>11. CASE VerifyPid
  BY <1>11 DEF VerifyPid, TypeOK, FlagTypes, CleanType, Handshake, Containment, Ownership,
                Reported, Killed
<1>12. CASE GroupCallFails
  <2>1. TypeOK'
    <3>1. faults' \in 0..MaxFaults
      BY <1>12, RunnerAssumption DEF GroupCallFails, Fault, TypeOK
    <3> QED
      BY <1>12, <3>1 DEF GroupCallFails, TypeOK
  <2>2. FlagTypes'
    BY <1>12 DEF GroupCallFails, FlagTypes
  <2>3. CleanType'
    BY <1>12 DEF GroupCallFails, CleanType
  <2>4. Handshake' /\ Containment'
    BY <1>12 DEF GroupCallFails, Handshake, Containment
  <2>5. Ownership' /\ Reported' /\ Killed'
    BY <1>12 DEF GroupCallFails, Ownership, Reported, Killed
  <2> QED
    BY <2>1, <2>2, <2>3, <2>4, <2>5
<1>13. CASE Release
  BY <1>13 DEF Release, TypeOK, FlagTypes, CleanType, Handshake, Containment, Ownership,
                Reported, Killed
<1>14. CASE Returned
  BY <1>14 DEF Returned, TypeOK, FlagTypes, CleanType, Handshake, Containment, Ownership,
                Reported, Killed
<1>15. CASE StageTimesOut
  BY <1>15 DEF StageTimesOut, TypeOK, FlagTypes, CleanType, Handshake, Containment,
                Ownership, Reported, Killed
<1>16. CASE SpawnCancelled
  <2>1. TypeOK'
    BY <1>16 DEF SpawnCancelled, TypeOK, Ownership
  <2>2. FlagTypes'
    <3>1. sc' \in BOOLEAN /\ cut' \in BOOLEAN
      BY <1>16 DEF SpawnCancelled, FlagTypes
    <3>2. UNCHANGED <<known, marked, term, kill, doomed, rc, stuck, noted, err, failed,
                      tok, late, outcome, creation>>
      BY <1>16 DEF SpawnCancelled
    <3> QED
      BY <3>1, <3>2 DEF FlagTypes
  <2>3. CleanType'
    BY <1>16 DEF SpawnCancelled, CleanType
  <2>4. Handshake' /\ Containment'
    BY <1>16 DEF SpawnCancelled, Handshake, Containment
  <2>5. Ownership' /\ Reported' /\ Killed'
    BY <1>16 DEF SpawnCancelled, Ownership, Handshake, Reported, Containment, Killed
  <2> QED
    BY <2>1, <2>2, <2>3, <2>4, <2>5
<1> QED
  BY <1>1, <1>2, <1>3, <1>4, <1>5, <1>6, <1>7, <1>8, <1>9, <1>10, <1>11, <1>12, <1>13, <1>14,
     <1>15, <1>16

\* A step of the recovery or the abort of start_process preserves the invariant.
LEMMA AbortKept ==
  ASSUME IInv,
         Recover \/ RecoverGivesUp \/ Abort \/ AbortCancelled \/ AbortWaited \/
         AbortWaitTimesOut \/ AbortCleaned \/ AbortGroup \/ AbortFinished \/ AbortReaped \/
         AbortEnd
  PROVE  IInv'
<1> TypeOK /\ FlagTypes /\ CleanType /\ Handshake /\ Containment
    /\ Ownership /\ Reported /\ Killed
  BY DEF IInv, Types
<1> GroupType
  BY DEF GroupType, TypeOK
<1> SUFFICES /\ TypeOK' /\ FlagTypes' /\ CleanType' /\ Handshake'
             /\ Containment' /\ Ownership' /\ Reported' /\ Killed'
  BY DEF IInv, Types
<1> USE DEF Spawn, SpawnKeeps, kernel, events, channel, context, CloseControl, NoCleanup,
            WithGuard, Unreleased, WithPidfd, Reaping, Spent, Alive, Stages, Aborting
<1>1. CASE Recover
  <2>1. TypeOK' /\ FlagTypes' /\ CleanType'
    BY <1>1 DEF Recover, TypeOK, FlagTypes, CleanType
  <2>2. Handshake' /\ Containment'
    BY <1>1 DEF Recover, Handshake, Containment
  <2>3. Ownership'
    BY <1>1 DEF Recover, Ownership
  <2>4. Reported'
    BY <1>1 DEF Recover, Reported
  <2>5. Killed'
    BY <1>1 DEF Recover, Killed
  <2> QED
    BY <2>1, <2>2, <2>3, <2>4, <2>5
<1>2. CASE RecoverGivesUp
  <2>1. TypeOK'
    BY <1>2 DEF RecoverGivesUp, TypeOK
  <2>2. FlagTypes'
    <3>1. sc' \in BOOLEAN /\ noted' \in BOOLEAN
      BY <1>2 DEF RecoverGivesUp, FlagTypes
    <3>2. UNCHANGED <<known, marked, term, kill, doomed, rc, stuck, cut, err, failed,
                      tok, late, outcome, creation>>
      BY <1>2 DEF RecoverGivesUp
    <3> QED
      BY <3>1, <3>2 DEF FlagTypes
  <2>3. CleanType'
    BY <1>2 DEF RecoverGivesUp, CleanType
  <2>4. Handshake' /\ Containment'
    BY <1>2 DEF RecoverGivesUp, Handshake, Containment
  <2>5. Ownership' /\ Reported' /\ Killed'
    BY <1>2 DEF RecoverGivesUp, Ownership, Reported, Killed
  <2> QED
    BY <2>1, <2>2, <2>3, <2>4, <2>5
<1>3. CASE Abort
  <2>1. TypeOK'
    BY <1>3 DEF Abort, TypeOK
  <2>2. FlagTypes'
    BY <1>3 DEF Abort, FlagTypes
  <2>3. CleanType'
    BY <1>3 DEF Abort, CleanType
  <2>4. Handshake' /\ Containment'
    BY <1>3 DEF Abort, Handshake, Containment
  <2>5. Ownership' /\ Reported' /\ Killed'
    BY <1>3 DEF Abort, Ownership, Handshake, Reported, Containment, Killed
  <2> QED
    BY <2>1, <2>2, <2>3, <2>4, <2>5
<1>4. CASE AbortCancelled
  <2>1. TypeOK'
    BY <1>4 DEF AbortCancelled, TypeOK
  <2>2. FlagTypes'
    <3>1. sc' \in BOOLEAN /\ noted' \in BOOLEAN
      BY <1>4 DEF AbortCancelled, FlagTypes
    <3>2. UNCHANGED <<known, marked, term, kill, doomed, rc, stuck, cut, err, failed,
                      tok, late, outcome, creation>>
      BY <1>4 DEF AbortCancelled
    <3> QED
      BY <3>1, <3>2 DEF FlagTypes
  <2>3. CleanType'
    BY <1>4 DEF AbortCancelled, CleanType
  <2>4. Handshake' /\ Containment'
    BY <1>4 DEF AbortCancelled, Handshake, Containment
  <2>5. Ownership' /\ Reported' /\ Killed'
    BY <1>4 DEF AbortCancelled, Ownership, Reported, Killed
  <2> QED
    BY <2>1, <2>2, <2>3, <2>4, <2>5
<1>5. CASE AbortWaited
  BY <1>5 DEF AbortWaited, TypeOK, FlagTypes, CleanType, Handshake, Containment, Ownership,
                Reported, Killed
<1>6. CASE AbortWaitTimesOut
  BY <1>6 DEF AbortWaitTimesOut, TypeOK, FlagTypes, CleanType, Handshake, Containment,
                Ownership, Reported, Killed
<1>7. CASE AbortCleaned
  BY <1>7 DEF AbortCleaned, TypeOK, FlagTypes, CleanType, Handshake, Containment,
                Ownership, Reported, Killed
<1>8. CASE AbortGroup
  <2>1. TypeOK'
    BY <1>8 DEF AbortGroup, TypeOK
  <2>2. FlagTypes'
    <3>1. noted' \in BOOLEAN
      BY <1>8 DEF AbortGroup, FlagTypes
    <3>2. UNCHANGED <<sc, known, marked, term, kill, doomed, rc, stuck, cut, err, failed,
                      tok, late, outcome, creation>>
      BY <1>8 DEF AbortGroup
    <3> QED
      BY <3>1, <3>2 DEF FlagTypes
  <2>3. CleanType'
    BY <1>8 DEF AbortGroup, CleanType
  <2>4. Handshake' /\ Containment'
    BY <1>8 DEF AbortGroup, Handshake, Containment
  <2>5. Ownership' /\ Reported'
    BY <1>8 DEF AbortGroup, Ownership, Reported, Handshake
  <2>6. Killed'
    BY <1>8 DEF AbortGroup, Killed
  <2> QED
    BY <2>1, <2>2, <2>3, <2>4, <2>5, <2>6
<1>9. CASE AbortFinished
  <2>1. TypeOK'
    BY <1>9 DEF AbortFinished, TypeOK
  <2>2. FlagTypes'
    <3>1. sc' \in BOOLEAN /\ noted' \in BOOLEAN
      BY <1>9 DEF AbortFinished, FlagTypes
    <3>2. UNCHANGED <<known, marked, term, kill, doomed, rc, stuck, cut, err, failed,
                      tok, late, outcome, creation>>
      BY <1>9 DEF AbortFinished
    <3> QED
      BY <3>1, <3>2 DEF FlagTypes
  <2>3. CleanType'
    BY <1>9 DEF AbortFinished, CleanType
  <2>4. Handshake' /\ Containment'
    BY <1>9 DEF AbortFinished, Handshake, Containment
  <2>5. Ownership' /\ Reported'
    BY <1>9 DEF AbortFinished, Ownership, Reported
  <2>6. Killed'
    BY <1>9 DEF AbortFinished, Killed
  <2> QED
    BY <2>1, <2>2, <2>3, <2>4, <2>5, <2>6
<1>10. CASE AbortReaped
  BY <1>10 DEF AbortReaped, TypeOK, FlagTypes, CleanType, Handshake, Containment, Ownership,
                Reported, Killed
<1>11. CASE AbortEnd
  BY <1>11 DEF AbortEnd, TypeOK, FlagTypes, CleanType, Handshake, Containment, Ownership,
                Reported, Killed
<1> QED
  BY <1>1, <1>2, <1>3, <1>4, <1>5, <1>6, <1>7, <1>8, <1>9, <1>10, <1>11

\* A step of _finish_cgroup preserves the invariant.
LEMMA FinishKept ==
  ASSUME IInv,
         FinishKill \/ FinishEmpty \/ FinishRemove \/ FinishTimesOut \/ FinishFails
  PROVE  IInv'
<1> TypeOK /\ FlagTypes /\ CleanType /\ Handshake /\ Containment
    /\ Ownership /\ Reported /\ Killed
  BY DEF IInv, Types
<1> GroupType
  BY DEF GroupType, TypeOK
<1> SUFFICES /\ TypeOK' /\ FlagTypes' /\ CleanType' /\ Handshake'
             /\ Containment' /\ Ownership' /\ Reported' /\ Killed'
  BY DEF IInv, Types
<1> USE DEF FinKeeps, channel, events, Alive, Populated, WithGuard, Unreleased, WithPidfd,
            Reaping, Spent, Stages, Aborting
<1>1. CASE FinishKill
  <2>1. TypeOK'
    BY <1>1 DEF FinishKill, KillMembers, TypeOK
  <2>2. FlagTypes'
    <3>1. kill' \in BOOLEAN /\ doomed' \in BOOLEAN
      BY <1>1 DEF FinishKill, KillMembers, FlagTypes
    <3>2. UNCHANGED <<sc, known, marked, term, rc, stuck, noted, cut, err, failed,
                      tok, late, outcome, creation>>
      BY <1>1 DEF FinishKill, KillMembers
    <3> QED
      BY <3>1, <3>2 DEF FlagTypes
  <2>3. CleanType'
    BY <1>1 DEF FinishKill, KillMembers, CleanType
  <2>4. Handshake' /\ Containment'
    BY <1>1 DEF FinishKill, KillMembers, Handshake, Containment
  <2>5. Ownership' /\ Reported'
    BY <1>1 DEF FinishKill, KillMembers, Ownership, Reported
  <2>6. Killed'
    <3>1. scope = "tree" /\ grp.has
      BY <1>1 DEF FinishKill, Ownership, Containment
    <3>2. (grp.moved \/ kill' => Spent') /\ (Spent => Spent')
      BY <1>1, <3>1, MembersSpent DEF FinishKill
    <3>3. UNCHANGED <<scope, grp, failed, clean, spawn, ctl, creation>>
      BY <1>1 DEF FinishKill
    <3> HIDE DEF Spent
    <3> QED
      BY <3>1, <3>2, <3>3 DEF Killed
  <2> QED
    BY <2>1, <2>2, <2>3, <2>4, <2>5, <2>6
<1>2. CASE FinishEmpty
  BY <1>2 DEF FinishEmpty, TypeOK, FlagTypes, CleanType, Handshake, Containment, Ownership,
                Reported, GroupType, Killed
<1>3. CASE FinishRemove
  BY <1>3 DEF FinishRemove, TypeOK, FlagTypes, CleanType, Handshake, Containment,
                Ownership, Reported, Killed
<1>4. CASE FinishTimesOut
  BY <1>4 DEF FinishTimesOut, TypeOK, FlagTypes, CleanType, Handshake, Containment,
                Ownership, Reported, Killed
<1>5. CASE FinishFails
  <2>1. TypeOK'
    <3>1. faults' \in 0..MaxFaults
      BY <1>5, RunnerAssumption DEF FinishFails, Fault, TypeOK
    <3> QED
      BY <1>5, <3>1 DEF FinishFails, TypeOK
  <2>2. FlagTypes'
    BY <1>5 DEF FinishFails, FlagTypes
  <2>3. CleanType'
    BY <1>5 DEF FinishFails, CleanType
  <2>4. Handshake' /\ Containment'
    BY <1>5 DEF FinishFails, Handshake, Containment
  <2>5. Ownership' /\ Reported' /\ Killed'
    BY <1>5 DEF FinishFails, Ownership, Reported, Killed
  <2> QED
    BY <2>1, <2>2, <2>3, <2>4, <2>5
<1> QED
  BY <1>1, <1>2, <1>3, <1>4, <1>5

\* A step of _cleanup_process preserves the invariant.
LEMMA CleanKept ==
  ASSUME IInv,
         Terminate \/ TermWaited \/ TermKill \/ TermKillFails \/ TermEmpty \/ TermReaped \/
         FinishBegins \/ FinishEnds \/ StepTimesOut \/ EnsureExit \/ CleanForce \/
         CleanForceFails \/ CleanupTimesOut
  PROVE  IInv'
<1> TypeOK /\ FlagTypes /\ CleanType /\ Handshake /\ Containment
    /\ Ownership /\ Reported /\ Killed
  BY DEF IInv, Types
<1> GroupType
  BY DEF GroupType, TypeOK
<1> SUFFICES /\ TypeOK' /\ FlagTypes' /\ CleanType' /\ Handshake'
             /\ Containment' /\ Ownership' /\ Reported' /\ Killed'
  BY DEF IInv, Types
<1> USE DEF CleanKeeps, channel, events, Signalled, Alive, Populated, WithGuard, Unreleased,
            WithPidfd, Reaping, Spent, Stages, Aborting
<1>1. CASE Terminate
  <2>1. TypeOK'
    BY <1>1 DEF Terminate, StepEnds, StepGoes, TypeOK
  <2>2. FlagTypes'
    <3>1. term' \in BOOLEAN
      BY <1>1 DEF Terminate, FlagTypes
    <3>2. UNCHANGED <<sc, known, marked, kill, doomed, rc, stuck, noted, cut, err, failed,
                      tok, late, outcome, creation>>
      BY <1>1 DEF Terminate
    <3> QED
      BY <3>1, <3>2 DEF FlagTypes
  <2>3. CleanType'
    BY <1>1 DEF Terminate, StepEnds, StepGoes, CleanType
  <2>4. Handshake' /\ Containment'
    BY <1>1 DEF Terminate, StepEnds, StepGoes, Handshake, Containment
  <2>5. Ownership'
    BY <1>1, TerminateEffect DEF Ownership
  <2>6. Reported'
    BY <1>1, TerminateEffect DEF Reported, Ownership
  <2>7. Killed'
    BY <1>1 DEF Terminate, StepEnds, StepGoes, Killed, CleanType
  <2> QED
    BY <2>1, <2>2, <2>3, <2>4, <2>5, <2>6, <2>7
<1>2. CASE TermWaited
  BY <1>2 DEF TermWaited, StepGoes, TypeOK, FlagTypes, CleanType, Handshake, Containment,
                Ownership, Reported, Killed
<1>3. CASE TermKill
  <2>1. TypeOK'
    BY <1>3 DEF TermKill, KillMembers, StepEnds, StepGoes, TypeOK
  <2>2. FlagTypes'
    <3>1. kill' \in BOOLEAN /\ doomed' \in BOOLEAN
      BY <1>3 DEF TermKill, KillMembers, FlagTypes
    <3>2. UNCHANGED <<sc, known, marked, term, rc, stuck, noted, cut, err, failed,
                      tok, late, outcome, creation>>
      BY <1>3 DEF TermKill, KillMembers
    <3> QED
      BY <3>1, <3>2 DEF FlagTypes
  <2>3. CleanType'
    BY <1>3 DEF TermKill, KillMembers, StepEnds, StepGoes, CleanType
  <2>4. Handshake' /\ Containment'
    BY <1>3 DEF TermKill, KillMembers, StepEnds, StepGoes, Handshake, Containment,
                  Ownership
  <2>5. Ownership'
    BY <1>3, TermKillEffect DEF Ownership
  <2>6. Reported'
    <3>1. kid = "none" => kid' = "none"
      BY <1>3, TermKillEffect DEF KillMembers, TypeOK
    <3> QED
      BY <1>3, <3>1, TermKillEffect DEF Reported, Ownership
  <2>7. Killed'
    <3>1. ctl = "release" /\ fin = "none"
      BY <1>3 DEF TermKill, Ownership
    <3>2. CASE scope = "tree"
      <4>1. grp.has /\ grp.moved
        BY <3>1, <3>2 DEF Containment
      <4>2. Spent'
        BY <1>3, <3>2, <4>1, TermKillEffect, MembersSpent
      <4> QED
        BY <1>3, <3>1, <3>2, <4>2, TermKillEffect DEF Killed
    <3>3. CASE scope = "leader"
      BY <1>3, <3>1, <3>3, TermKillEffect DEF Killed
    <3> QED
      BY <3>2, <3>3 DEF TypeOK
  <2> QED
    BY <2>1, <2>2, <2>3, <2>4, <2>5, <2>6, <2>7
<1>4. CASE TermKillFails
  <2>1. TypeOK'
    <3>1. faults' \in 0..MaxFaults
      BY <1>4, RunnerAssumption DEF TermKillFails, Fault, TypeOK
    <3> QED
      BY <1>4, <3>1 DEF TermKillFails, TypeOK
  <2>2. FlagTypes'
    BY <1>4 DEF TermKillFails, StepEnds, FlagTypes
  <2>3. CleanType'
    BY <1>4 DEF TermKillFails, StepEnds, CleanType
  <2>4. Handshake' /\ Containment'
    BY <1>4 DEF TermKillFails, StepEnds, Handshake, Containment
  <2>5. Ownership' /\ Reported' /\ Killed'
    BY <1>4 DEF TermKillFails, StepEnds, Ownership, Reported, Handshake, CleanType, Killed
  <2> QED
    BY <2>1, <2>2, <2>3, <2>4, <2>5
<1>5. CASE TermEmpty
  BY <1>5 DEF TermEmpty, StepGoes, TypeOK, FlagTypes, CleanType, Handshake, Containment,
                Ownership, Reported, Killed
<1>6. CASE TermReaped
  <2>1. TypeOK'
    BY <1>6 DEF TermReaped, StepEnds, TypeOK
  <2>2. FlagTypes'
    BY <1>6 DEF TermReaped, StepEnds, FlagTypes
  <2>3. CleanType'
    BY <1>6 DEF TermReaped, StepEnds, CleanType
  <2>4. Handshake' /\ Containment'
    BY <1>6 DEF TermReaped, StepEnds, Handshake, Containment
  <2>5. Ownership' /\ Reported' /\ Killed'
    BY <1>6 DEF TermReaped, StepEnds, Ownership, Reported, CleanType, Killed
  <2> QED
    BY <2>1, <2>2, <2>3, <2>4, <2>5
<1>7. CASE FinishBegins
  BY <1>7 DEF FinishBegins, TypeOK, FlagTypes, CleanType, Handshake, Containment,
                Ownership, Reported, Killed
<1>8. CASE FinishEnds
  <2>1. TypeOK'
    BY <1>8 DEF FinishEnds, StepEnds, TypeOK
  <2>2. FlagTypes'
    BY <1>8 DEF FinishEnds, StepEnds, FlagTypes
  <2>3. CleanType'
    BY <1>8 DEF FinishEnds, StepEnds, CleanType
  <2>4. Handshake' /\ Containment'
    BY <1>8 DEF FinishEnds, StepEnds, Handshake, Containment
  <2>5. Ownership' /\ Reported' /\ Killed'
    BY <1>8 DEF FinishEnds, StepEnds, Ownership, Reported, Handshake, CleanType, Killed,
                  Containment, GroupType
  <2> QED
    BY <2>1, <2>2, <2>3, <2>4, <2>5
<1>9. CASE StepTimesOut
  <2>1. TypeOK'
    BY <1>9 DEF StepTimesOut, StepEnds, TypeOK
  <2>2. FlagTypes'
    BY <1>9 DEF StepTimesOut, StepEnds, FlagTypes
  <2>3. CleanType'
    BY <1>9 DEF StepTimesOut, StepEnds, CleanType
  <2>4. Handshake' /\ Containment'
    BY <1>9 DEF StepTimesOut, StepEnds, Handshake, Containment
  <2>5. Ownership'
    BY <1>9 DEF StepTimesOut, StepEnds, Ownership
  <2>6. Reported'
    BY <1>9 DEF StepTimesOut, StepEnds, Reported, Handshake, Ownership, CleanType
  <2>7. Killed'
    BY <1>9 DEF StepTimesOut, StepEnds, Killed, Handshake, Containment
  <2> QED
    BY <2>1, <2>2, <2>3, <2>4, <2>5, <2>6, <2>7
<1>10. CASE EnsureExit
  <2>1. TypeOK'
    BY <1>10 DEF EnsureExit, TypeOK
  <2>2. FlagTypes'
    BY <1>10 DEF EnsureExit, FlagTypes
  <2>3. CleanType'
    BY <1>10 DEF EnsureExit, CleanType
  <2>4. Handshake' /\ Containment'
    BY <1>10 DEF EnsureExit, Handshake, Containment
  <2>5. Ownership' /\ Reported' /\ Killed'
    BY <1>10 DEF EnsureExit, Ownership, Reported, Killed
  <2> QED
    BY <2>1, <2>2, <2>3, <2>4, <2>5
<1>11. CASE CleanForce
  <2>1. TypeOK'
    BY <1>11 DEF CleanForce, ForceCleanup, KillMembers, TypeOK
  <2>2. FlagTypes'
    <3>1. kill' \in BOOLEAN /\ doomed' \in BOOLEAN
      BY <1>11 DEF CleanForce, ForceCleanup, KillMembers, FlagTypes
    <3>2. UNCHANGED <<sc, known, marked, term, rc, stuck, noted, cut, err, failed,
                      tok, late, outcome, creation>>
      BY <1>11 DEF CleanForce, ForceCleanup, KillMembers
    <3> QED
      BY <3>1, <3>2 DEF FlagTypes
  <2>3. CleanType'
    BY <1>11 DEF CleanForce, ForceCleanup, KillMembers, CleanType
  <2>4. Handshake' /\ Containment'
    BY <1>11 DEF CleanForce, ForceCleanup, KillMembers, Handshake, Containment, Ownership
  <2>5. Ownership' /\ Reported' /\ Killed'
    BY <1>11 DEF CleanForce, ForceCleanup, KillMembers, Ownership, Reported, Handshake,
                  CleanType, Killed, Containment, GroupType
  <2> QED
    BY <2>1, <2>2, <2>3, <2>4, <2>5
<1>12. CASE CleanForceFails
  <2>1. TypeOK'
    <3>1. faults' \in 0..MaxFaults
      BY <1>12, RunnerAssumption DEF CleanForceFails, Fault, TypeOK
    <3> QED
      BY <1>12, <3>1 DEF CleanForceFails, TypeOK
  <2>2. FlagTypes'
    BY <1>12 DEF CleanForceFails, FlagTypes
  <2>3. CleanType'
    BY <1>12 DEF CleanForceFails, CleanType
  <2>4. Handshake' /\ Containment'
    BY <1>12 DEF CleanForceFails, Handshake, Containment
  <2>5. Ownership' /\ Reported' /\ Killed'
    BY <1>12 DEF CleanForceFails, Ownership, Reported, Killed
  <2> QED
    BY <2>1, <2>2, <2>3, <2>4, <2>5
<1>13. CASE CleanupTimesOut
  <2>1. TypeOK'
    BY <1>13 DEF CleanupTimesOut, ForceCleanup, KillMembers, TypeOK
  <2>2. FlagTypes'
    <3>1. kill' \in BOOLEAN /\ doomed' \in BOOLEAN
      BY <1>13 DEF CleanupTimesOut, ForceCleanup, KillMembers, FlagTypes
    <3>2. UNCHANGED <<sc, known, marked, term, rc, stuck, noted, cut, err, failed,
                      tok, late, outcome, creation>>
      BY <1>13 DEF CleanupTimesOut, ForceCleanup, KillMembers
    <3> QED
      BY <3>1, <3>2 DEF FlagTypes
  <2>3. CleanType'
    BY <1>13 DEF CleanupTimesOut, ForceCleanup, KillMembers, CleanType
  <2>4. Handshake' /\ Containment'
    BY <1>13 DEF CleanupTimesOut, ForceCleanup, KillMembers, Handshake, Containment,
                  Ownership
  <2>5. Ownership' /\ Reported'
    BY <1>13 DEF CleanupTimesOut, ForceCleanup, KillMembers, Ownership, Reported
  <2>6. Killed'
    <3>1. UNCHANGED <<scope, grp, failed, spawn, ctl, creation, child, rc>> /\ fin' = "none"
      BY <1>13 DEF CleanupTimesOut
    <3>2. clean.pc \notin {"none", "done"} /\ clean'.pc = "done"
      BY <1>13 DEF CleanupTimesOut, CleanType, Ownership
    <3>3. ctl = "release" /\ ctx = "open"
      BY <3>2 DEF Ownership
    <3>4. CASE scope = "tree"
      <4>1. grp.has /\ grp.moved
        BY <3>3, <3>4 DEF Containment
      <4>2. ~failed => Spent
        <5> HIDE DEF Spent
        <5> QED
          BY <1>13, <3>4, <4>1 DEF CleanupTimesOut, Killed
      <4>3. (kill' => Spent') /\ (Spent => Spent')
        <5>1. CASE rc
          BY <1>13, <3>1, <3>4, <5>1 DEF CleanupTimesOut, ForceCleanup, Killed
        <5>2. CASE ~rc
          BY <1>13, <3>1, <3>4, <4>1, <5>2, MembersSpent DEF CleanupTimesOut, ForceCleanup
        <5> QED
          BY <5>1, <5>2
      <4> HIDE DEF Spent
      <4> QED
        BY <3>1, <3>2, <3>4, <4>2, <4>3 DEF Killed
    <3>5. CASE scope = "leader"
      <4>1. ~Alive' \/ doomed'
        BY <1>13, <3>1, <3>3, <3>5 DEF CleanupTimesOut, ForceCleanup, Handshake
      <4> QED
        BY <3>1, <3>2, <3>3, <3>5, <4>1 DEF Killed
    <3> QED
      BY <3>4, <3>5 DEF TypeOK
  <2> QED
    BY <2>1, <2>2, <2>3, <2>4, <2>5, <2>6
<1> QED
  BY <1>1, <1>2, <1>3, <1>4, <1>5, <1>6, <1>7, <1>8, <1>9, <1>10, <1>11, <1>12, <1>13

\* A step of _run preserves the invariant.
LEMMA MainKept ==
  ASSUME IInv,
         Spawned \/ Started \/ ExecutableChanged \/ Completed \/ OutputLimit \/ Interrupted
         \/ Finally \/ Drained \/ DrainTimesOut \/ ForceSpawn \/ Settled \/ SettleTimesOut \/
         Cleaned \/ CallerCancelled
  PROVE  IInv'
<1> TypeOK /\ FlagTypes /\ CleanType /\ Handshake /\ Containment
    /\ Ownership /\ Reported /\ Killed
  BY DEF IInv, Types
<1> GroupType
  BY DEF GroupType, TypeOK
<1> SUFFICES /\ TypeOK' /\ FlagTypes' /\ CleanType' /\ Handshake'
             /\ Containment' /\ Ownership' /\ Reported' /\ Killed'
  BY DEF IInv, Types
<1> USE DEF MainOnly, MainKeeps, context, kernel, events, channel, NoCleanup, CloseControl,
            WithGuard, Unreleased, WithPidfd, Reaping, Spent, Alive, Stages, Aborting
<1>1. CASE Spawned
  BY <1>1 DEF Spawned, TypeOK, FlagTypes, CleanType, Handshake, Containment, Ownership,
                Reported, Killed
<1>2. CASE Started
  BY <1>2 DEF Started, TypeOK, FlagTypes, CleanType, Handshake, Containment, Ownership,
                Reported, Killed
<1>3. CASE ExecutableChanged
  <2>1. TypeOK'
    <3>1. faults' \in 0..MaxFaults
      BY <1>3, RunnerAssumption DEF ExecutableChanged, Fault, TypeOK
    <3> QED
      BY <1>3, <3>1 DEF ExecutableChanged, TypeOK
  <2>2. FlagTypes'
    BY <1>3 DEF ExecutableChanged, FlagTypes
  <2>3. CleanType'
    BY <1>3 DEF ExecutableChanged, CleanType
  <2>4. Handshake' /\ Containment'
    BY <1>3 DEF ExecutableChanged, Handshake, Containment
  <2>5. Ownership' /\ Reported' /\ Killed'
    BY <1>3 DEF ExecutableChanged, Ownership, Reported, Killed
  <2> QED
    BY <2>1, <2>2, <2>3, <2>4, <2>5
<1>4. CASE Completed
  BY <1>4 DEF Completed, TypeOK, FlagTypes, CleanType, Handshake, Containment, Ownership,
                Reported, Killed
<1>5. CASE OutputLimit
  <2>1. TypeOK'
    <3>1. faults' \in 0..MaxFaults
      BY <1>5, RunnerAssumption DEF OutputLimit, Fault, TypeOK
    <3> QED
      BY <1>5, <3>1 DEF OutputLimit, TypeOK
  <2>2. FlagTypes'
    BY <1>5 DEF OutputLimit, FlagTypes
  <2>3. CleanType'
    BY <1>5 DEF OutputLimit, CleanType
  <2>4. Handshake' /\ Containment'
    BY <1>5 DEF OutputLimit, Handshake, Containment
  <2>5. Ownership' /\ Reported' /\ Killed'
    BY <1>5 DEF OutputLimit, Ownership, Reported, Killed
  <2> QED
    BY <2>1, <2>2, <2>3, <2>4, <2>5
<1>6. CASE Interrupted
  BY <1>6 DEF Interrupted, TypeOK, FlagTypes, CleanType, Handshake, Containment, Ownership,
                Reported, Killed
<1>7. CASE Finally
  <2>1. TypeOK'
    BY <1>7 DEF Finally, CleanupBegins, TypeOK
  <2>2. FlagTypes'
    <3>1. sc' \in BOOLEAN
      BY <1>7 DEF Finally, FlagTypes
    <3>2. UNCHANGED <<known, marked, term, kill, doomed, rc, stuck, noted, cut, err, failed,
                      tok, late, outcome, creation>>
      BY <1>7 DEF Finally
    <3> QED
      BY <3>1, <3>2 DEF FlagTypes
  <2>3. CleanType'
    BY <1>7 DEF Finally, CleanupBegins, CleanType
  <2>4. Handshake' /\ Containment'
    BY <1>7 DEF Finally, CleanupBegins, Handshake, Containment
  <2>5. Ownership'
    BY <1>7 DEF Finally, CleanupBegins, Ownership, Handshake
  <2>6. Reported'
    BY <1>7 DEF Finally, CleanupBegins, Reported
  <2>7. Killed'
    BY <1>7 DEF Finally, CleanupBegins, Killed
  <2> QED
    BY <2>1, <2>2, <2>3, <2>4, <2>5, <2>6, <2>7
<1>8. CASE Drained
  BY <1>8 DEF Drained, CleanupBegins, TypeOK, FlagTypes, CleanType, Handshake, Containment,
                Ownership, Reported, Killed
<1>9. CASE DrainTimesOut
  BY <1>9 DEF DrainTimesOut, TypeOK, FlagTypes, CleanType, Handshake, Containment,
                Ownership, Reported, Killed
<1>10. CASE ForceSpawn
  <2>1. TypeOK'
    BY <1>10 DEF ForceSpawn, TypeOK
  <2>2. FlagTypes'
    <3>1. sc' \in BOOLEAN
      BY <1>10 DEF ForceSpawn, FlagTypes
    <3>2. UNCHANGED <<known, marked, term, kill, doomed, rc, stuck, noted, cut, err, failed,
                      tok, late, outcome, creation>>
      BY <1>10 DEF ForceSpawn
    <3> QED
      BY <3>1, <3>2 DEF FlagTypes
  <2>3. CleanType'
    BY <1>10 DEF ForceSpawn, CleanType
  <2>4. Handshake' /\ Containment'
    BY <1>10 DEF ForceSpawn, Handshake, Containment
  <2>5. Ownership' /\ Reported' /\ Killed'
    BY <1>10 DEF ForceSpawn, Ownership, Reported, Killed
  <2> QED
    BY <2>1, <2>2, <2>3, <2>4, <2>5
<1>11. CASE Settled
  BY <1>11 DEF Settled, TypeOK, FlagTypes, CleanType, Handshake, Containment, Ownership,
                Reported, Killed
<1>12. CASE SettleTimesOut
  BY <1>12 DEF SettleTimesOut, TypeOK, FlagTypes, CleanType, Handshake, Containment,
                Ownership, Reported, Killed
<1>13. CASE Cleaned
  BY <1>13 DEF Cleaned, TypeOK, FlagTypes, CleanType, Handshake, Containment, Ownership,
                Reported, Killed
<1>14. CASE CallerCancelled
  BY <1>14 DEF CallerCancelled, TypeOK, FlagTypes, CleanType, Handshake, Containment,
                Ownership, Reported, Killed
<1> QED
  BY <1>1, <1>2, <1>3, <1>4, <1>5, <1>6, <1>7, <1>8, <1>9, <1>10, <1>11, <1>12, <1>13, <1>14

\* A step of the guard's creation, the guard, the target or the kernel preserves the invariant.
LEMMA KernelKept ==
  ASSUME IInv,
         Popen \/ PopenFails \/ CreationReturns \/ GuardMarks \/ Exec \/ GuardEof \/
         TargetExits \/ Fork \/ KidExits \/ Dies \/ Reap \/ ReturnCode \/ GuardDies \/ Sticks
         \/ PidReused \/ TokenSet \/ DeadlinePasses
  PROVE  IInv'
<1> TypeOK /\ FlagTypes /\ CleanType /\ Handshake /\ Containment
    /\ Ownership /\ Reported /\ Killed
  BY DEF IInv, Types
<1> GroupType
  BY DEF GroupType, TypeOK
<1> SUFFICES /\ TypeOK' /\ FlagTypes' /\ CleanType' /\ Handshake'
             /\ Containment' /\ Ownership' /\ Reported' /\ Killed'
  BY DEF IInv, Types
<1> USE DEF CreationKeeps, channel, context, events, KernelKeeps, coroutines, Alive, kernel,
            WithGuard, Unreleased, WithPidfd, Reaping, Spent, Stages, Aborting
<1>1. CASE Popen
  BY <1>1 DEF Popen, TypeOK, FlagTypes, CleanType, Handshake, Containment, Ownership,
                Reported, Killed, GroupType
<1>2. CASE PopenFails
  <2>1. TypeOK'
    <3>1. faults' \in 0..MaxFaults
      BY <1>2, RunnerAssumption DEF PopenFails, Fault, TypeOK
    <3> QED
      BY <1>2, <3>1 DEF PopenFails, TypeOK
  <2>2. FlagTypes'
    BY <1>2 DEF PopenFails, FlagTypes
  <2>3. CleanType'
    BY <1>2 DEF PopenFails, CleanType
  <2>4. Handshake' /\ Containment'
    BY <1>2 DEF PopenFails, Handshake, Containment
  <2>5. Ownership' /\ Reported' /\ Killed'
    BY <1>2 DEF PopenFails, Ownership, Reported, Killed
  <2> QED
    BY <2>1, <2>2, <2>3, <2>4, <2>5
<1>3. CASE CreationReturns
  BY <1>3 DEF CreationReturns, TypeOK, FlagTypes, CleanType, Handshake, Containment,
                Ownership, Reported, Killed
<1>4. CASE GuardMarks
  BY <1>4 DEF GuardMarks, TypeOK, FlagTypes, CleanType, Handshake, Containment, Ownership,
                Reported, Killed
<1>5. CASE Exec
  BY <1>5 DEF Exec, TypeOK, FlagTypes, CleanType, Handshake, Containment, Ownership,
                Reported, Killed
<1>6. CASE GuardEof
  BY <1>6 DEF GuardEof, TypeOK, FlagTypes, CleanType, Handshake, Containment, Ownership,
                Reported, Killed
<1>7. CASE TargetExits
  BY <1>7 DEF TargetExits, TypeOK, FlagTypes, CleanType, Handshake, Containment, Ownership,
                Reported, Killed
<1>8. CASE Fork
  BY <1>8 DEF Fork, TypeOK, FlagTypes, CleanType, Handshake, Containment, Ownership,
                Reported, GroupType, Killed
<1>9. CASE KidExits
  BY <1>9 DEF KidExits, TypeOK, FlagTypes, CleanType, Handshake, Containment, Ownership,
                Reported, Killed
<1>10. CASE Dies
  BY <1>10 DEF Dies, TypeOK, FlagTypes, CleanType, Handshake, Containment, Ownership,
                Reported, Killed
<1>11. CASE Reap
  BY <1>11 DEF Reap, TypeOK, FlagTypes, CleanType, Handshake, Containment, Ownership,
                Reported, Killed
<1>12. CASE ReturnCode
  BY <1>12 DEF ReturnCode, TypeOK, FlagTypes, CleanType, Handshake, Containment, Ownership,
                Reported, Killed
<1>13. CASE GuardDies
  <2>1. TypeOK'
    <3>1. faults' \in 0..MaxFaults
      BY <1>13, RunnerAssumption DEF GuardDies, Fault, TypeOK
    <3> QED
      BY <1>13, <3>1 DEF GuardDies, TypeOK
  <2>2. FlagTypes'
    BY <1>13 DEF GuardDies, FlagTypes
  <2>3. CleanType'
    BY <1>13 DEF GuardDies, CleanType
  <2>4. Handshake' /\ Containment'
    BY <1>13 DEF GuardDies, Handshake, Containment
  <2>5. Ownership' /\ Reported' /\ Killed'
    BY <1>13 DEF GuardDies, Ownership, Reported, Killed
  <2> QED
    BY <2>1, <2>2, <2>3, <2>4, <2>5
<1>14. CASE Sticks
  <2>1. TypeOK'
    <3>1. faults' \in 0..MaxFaults
      BY <1>14, RunnerAssumption DEF Sticks, Fault, TypeOK
    <3> QED
      BY <1>14, <3>1 DEF Sticks, TypeOK
  <2>2. FlagTypes'
    BY <1>14 DEF Sticks, FlagTypes
  <2>3. CleanType'
    BY <1>14 DEF Sticks, CleanType
  <2>4. Handshake' /\ Containment'
    BY <1>14 DEF Sticks, Handshake, Containment
  <2>5. Ownership' /\ Reported' /\ Killed'
    BY <1>14 DEF Sticks, Ownership, Reported, Killed
  <2> QED
    BY <2>1, <2>2, <2>3, <2>4, <2>5
<1>15. CASE PidReused
  <2>1. TypeOK'
    <3>1. faults' \in 0..MaxFaults
      BY <1>15, RunnerAssumption DEF PidReused, Fault, TypeOK
    <3> QED
      BY <1>15, <3>1 DEF PidReused, TypeOK
  <2>2. FlagTypes'
    BY <1>15 DEF PidReused, FlagTypes
  <2>3. CleanType'
    BY <1>15 DEF PidReused, CleanType
  <2>4. Handshake' /\ Containment'
    BY <1>15 DEF PidReused, Handshake, Containment
  <2>5. Ownership' /\ Reported' /\ Killed'
    BY <1>15 DEF PidReused, Ownership, Reported, Killed
  <2> QED
    BY <2>1, <2>2, <2>3, <2>4, <2>5
<1>16. CASE TokenSet
  BY <1>16 DEF TokenSet, TypeOK, FlagTypes, CleanType, Handshake, Containment, Ownership,
                Reported, Killed
<1>17. CASE DeadlinePasses
  BY <1>17 DEF DeadlinePasses, TypeOK, FlagTypes, CleanType, Handshake, Containment,
                Ownership, Reported, Killed
<1> QED
  BY <1>1, <1>2, <1>3, <1>4, <1>5, <1>6, <1>7, <1>8, <1>9, <1>10, <1>11, <1>12, <1>13, <1>14,
     <1>15, <1>16, <1>17

-----------------------------------------------------------------------------
(* The theorems                                                            *)

\* Before the spawn task has run nothing exists.
LEMMA InitEstablishes == ProcessInit => IInv
<1> SUFFICES ASSUME ProcessInit PROVE IInv
  OBVIOUS
<1> USE DEF ProcessInit, NoGroup, NoCleanup
<1>1. TypeOK
  BY RunnerAssumption DEF TypeOK, Stages, Aborting
<1>2. FlagTypes /\ CleanType
  BY DEF FlagTypes, CleanType
<1>3. Handshake /\ Containment
  BY DEF Handshake, Containment, WithGuard, Reaping, Unreleased, Alive
<1>4. Ownership
  BY DEF Ownership, WithPidfd, Reaping, Aborting
<1>5. Reported /\ Killed
  BY DEF Reported, Killed, Reaping, Alive, Spent
<1> QED
  BY <1>1, <1>2, <1>3, <1>4, <1>5 DEF IInv, Types

\* A step that changes nothing preserves the invariant.
LEMMA StutterKeeps ==
  ASSUME IInv, UNCHANGED vars
  PROVE  IInv'
<1> USE DEF vars, coroutines, channel, context, kernel, events
<1>1. Types'
  BY DEF IInv, Types, TypeOK, FlagTypes, CleanType
<1>2. Handshake' /\ Containment'
  BY DEF IInv, Handshake, Containment, Alive
<1>3. Ownership'
  BY DEF IInv, Ownership
<1>4. Reported' /\ Killed'
  BY DEF IInv, Reported, Killed, Alive, Spent
<1> QED
  BY <1>1, <1>2, <1>3, <1>4 DEF IInv

\* Every step preserves the invariant.
LEMMA NextPreserves ==
  ASSUME IInv, [Next]_vars
  PROVE  IInv'
BY SpawnKept, AbortKept, FinishKept, CleanKept, MainKept, KernelKept, StutterKeeps
DEF Next, SpawnStep, CleanStep, MainStep, KernelStep, Failures

\* Whatever fails, dies, sticks or is cancelled, and however often, the
\* handshake, the ownership of the cleanup and what it reports stay in step.
THEOREM Invariance == Spec => []IInv
BY InitEstablishes, NextPreserves, PTL DEF Spec

\* A command of scope "tree" executes nothing outside its cgroup: the guard
\* is released only when it is a member, and nothing ever leaves the cgroup.
THEOREM ContainmentTheorem == Spec => []ContainedBeforeExec
<1>1. IInv => ContainedBeforeExec
  BY DEF IInv, Handshake, Containment, ContainedBeforeExec
<1> QED
  BY <1>1, Invariance, PTL

\* When run() is over, the process, its descendants and its cgroup are gone and
\* the pidfd is closed, or an error of the cleanup is raised or noted on what is
\* raised, or it was noted on the CancelledError of a spawn run() cancelled; and
\* unless a system call of the cleanup failed, whatever is left was sent SIGKILL,
\* is a guard that cannot execute, or is still being cleaned up.
THEOREM CleanTheorem == Spec => []CleanAtEnd
<1>1. ASSUME IInv PROVE CleanAtEnd
  <2> TypeOK /\ FlagTypes /\ CleanType /\ Handshake /\ Containment
      /\ Ownership /\ Reported /\ Killed
    BY <1>1 DEF IInv, Types
  <2> GroupType
    BY DEF GroupType, TypeOK
  <2> USE DEF Reaping, Aborting, Alive, Spent
  <2>1. CleanOrReported
    <3> SUFFICES ASSUME main = "done", ~err, ~(cut /\ noted)
                 PROVE  NothingLeft
      BY DEF CleanOrReported
    <3> USE DEF NothingLeft
    <3>1. ~noted /\ (spawn = "failed" \/ (spawn = "returned" /\ ~clean.err))
      BY DEF Reported
    <3>2. CASE spawn = "returned" /\ ~clean.err
      <4>1. clean.pc = "done" /\ ctl = "release"
        BY <3>2 DEF Ownership
      <4>2. rc /\ ctx = "closed" /\ (scope = "tree" => grp.leaf = "removed")
        BY <3>2, <4>1 DEF Ownership, Reported
      <4> QED
        BY <4>2 DEF Handshake, Reported
    <3>3. CASE spawn = "failed"
      <4>1. ctx # "open"
        BY <3>3 DEF TypeOK
      <4>2. ~Alive /\ grp.leaf # "made"
        BY <3>1, <3>3 DEF Reported, Handshake
      <4>3. kid # "none" => ctl = "release"
        BY DEF Handshake
      <4>4. scope = "tree" /\ ctl = "release" => kid = "none"
        BY <3>1, <3>3, <4>2 DEF Containment, Reported, GroupType
      <4> QED
        BY <4>1, <4>2, <4>3, <4>4
    <3> QED
      BY <3>1, <3>2, <3>3
  <2>2. NothingLeftRunning
    <3> SUFFICES ASSUME main = "done", ~failed, spawn \notin Aborting
                 PROVE  /\ ~Alive \/ doomed \/ ctl = "eof"
                        /\ scope = "tree" => kid \in {"none", "doomed"}
      BY DEF NothingLeftRunning
    <3>1. spawn \in {"failed", "returned"}
      BY DEF Ownership
    <3>2. CASE ctl = "release"
      <4>1. clean.pc = "done"
        BY <3>1, <3>2 DEF Ownership
      <4> QED
        BY <4>1 DEF Killed, TypeOK
    <3>3. CASE ctl # "release"
      <4>1. spawn = "failed"
        BY <3>1, <3>3 DEF Handshake
      <4>2. ctl = "eof" \/ creation = "none"
        BY <3>3, <4>1 DEF Killed
      <4> QED
        BY <3>3, <4>2 DEF Handshake
    <3> QED
      BY <3>2, <3>3
  <2> QED
    BY <2>1, <2>2 DEF CleanAtEnd
<1> QED
  BY <1>1, Invariance, PTL
=============================================================================
