--------------------------- MODULE AgentPresence ---------------------------
(***************************************************************************)
(* The running agent's conversation with the backend: AgentRuntime.cycle,   *)
(* ManifestService and HeartbeatService over runtime_state and              *)
(* capability_manifests, and AgentProtocolService.                          *)
(*                                                                         *)
(* A payload is persisted before it is sent and resent verbatim until it is *)
(* confirmed, so a manifest and a heartbeat are named by the number of the  *)
(* call that built them.  A request whose sender crashed or timed out may   *)
(* be lost or processed much later.                                         *)
(***************************************************************************)
EXTENDS Integers, FiniteSets, FiniteSetsExt

CONSTANTS
  Schedulers,      \* the configurations: may cycle() run tasks?
  MaxBoots,        \* bound: starts of the process
  MaxManifests,    \* bound: manifests ever built
  MaxBeats,        \* bound: heartbeats ever built; later cycles skip theirs
  MaxChanges,      \* bound: changes of the platform's capabilities
  MaxFaults,       \* bound: crashes and timeouts
  MaxRecoveries,   \* bound: purges followed by a recovery enrolment
  Ages             \* whether agent_clock_skew_seconds can pass

Boots == 1 .. MaxBoots
ManifestIds == 1 .. MaxManifests
BeatIds == 1 .. MaxBeats
Platforms == [static : 0 .. MaxChanges, live : 0 .. MaxChanges]

ASSUME PresenceAssumption ==
  /\ Schedulers \subseteq BOOLEAN /\ Ages \in BOOLEAN
  /\ MaxBoots \in Nat /\ MaxManifests \in Nat /\ MaxBeats \in Nat
  /\ MaxChanges \in Nat /\ MaxFaults \in Nat /\ MaxRecoveries \in Nat

VARIABLES
  runtime,     \* runtime_state: boot, acknowledged sequences, pending heartbeat
  manifests,   \* capability_manifests: the agent's durable manifests
  pc,          \* where cycle() is
  refresh,     \* cycle's refresh_after_tasks
  reply,       \* the answer the process is about to handle
  platform,    \* static: agent and platform version; live: probed capabilities
  stored,      \* the backend's capability_manifests, per sequence
  presence,    \* the backend's agent_presence row
  requests,    \* requests sent and not yet answered
  aged,        \* heartbeats whose agent_reported_at is out of the skew window
  built,       \* how many manifests and heartbeats were built
  faults, recoveries,
  scheduler    \* AgentRuntime.scheduler is not None: tasks run, starts are fast

disk == <<runtime, manifests>>
process == <<pc, refresh, reply>>
backend == <<stored, presence>>
world == <<platform, aged, faults, recoveries, scheduler>>
vars == <<disk, process, backend, requests, built, world>>

None == 0
NoBeat == [id |-> None, boot |-> None, sequence |-> -1, manifest |-> None]
Beats == [id : BeatIds, boot : Boots, sequence : 0 .. MaxBeats - 1,
          manifest : ManifestIds]
Manifests == [id : ManifestIds, sequence : 0 .. MaxManifests - 1,
              content : Platforms, state : {"pending", "confirmed"}]
Waiting == {"wait_resend", "wait_manifest", "wait_beat", "wait_refresh"}
Labels == Waiting \union {"down", "start", "examine", "beat", "work", "refresh"}
Manifest == [kind : {"manifest"}, id : ManifestIds,
             sequence : 0 .. MaxManifests - 1, awaited : BOOLEAN]
Heartbeat == [kind : {"beat"}, beat : Beats, awaited : BOOLEAN]

TypeOK ==
  /\ runtime \in [boot : 0 .. MaxBoots, beatAcked : -1 .. MaxBeats - 1,
                  beatPending : Beats \union {NoBeat},
                  manifestAcked : -1 .. MaxManifests - 1]
  /\ manifests \subseteq Manifests
  /\ pc \in Labels
  /\ refresh \in BOOLEAN
  /\ reply \in {"none", "ok", "conflict", "error"}
  /\ platform \in Platforms
  /\ stored \in [0 .. MaxManifests - 1 -> ManifestIds \union {None}]
  /\ presence \in Beats \union {NoBeat}
  /\ requests \subseteq Manifest \union Heartbeat
  /\ aged \subseteq BeatIds
  /\ built \in [manifests : 0 .. MaxManifests, beats : 0 .. MaxBeats]
  /\ faults \in 0 .. MaxFaults
  /\ recoveries \in 0 .. MaxRecoveries
  /\ scheduler \in Schedulers

NewRuntime == [boot |-> None, beatAcked |-> -1, beatPending |-> NoBeat,
               manifestAcked |-> -1]

Init ==
  /\ runtime = NewRuntime
  /\ manifests = {}
  /\ pc = "down"
  /\ refresh = FALSE
  /\ reply = "none"
  /\ platform = [static |-> 0, live |-> 0]
  /\ stored = [s \in 0 .. MaxManifests - 1 |-> None]
  /\ presence = NoBeat
  /\ requests = {}
  /\ aged = {}
  /\ built = [manifests |-> 0, beats |-> 0]
  /\ faults = 0
  /\ recoveries = 0
  /\ scheduler \in Schedulers

-----------------------------------------------------------------------------
(* The agent *)

Goto(label) == pc' = label /\ reply' = "none"
Step(label) == Goto(label) /\ UNCHANGED refresh

\* start_runtime: a new boot_id; acknowledged and pending columns stay.
Start ==
  /\ pc = "down" /\ runtime.boot < MaxBoots
  /\ runtime' = [runtime EXCEPT !.boot = @ + 1]
  /\ Step("start")
  /\ UNCHANGED <<manifests, backend, requests, built, world>>

Pending == {m \in manifests : m.state = "pending"}
Confirmed == {m \in manifests : m.state = "confirmed"}

\* confirmed_manifest: the highest sequence.
Latest == CHOOSE m \in Confirmed : \A n \in Confirmed : n.sequence <= m.sequence

\* The confirmed manifest counts while it is the acknowledged one and was built
\* by this version of the agent on this version of the platform.
Compatible ==
  /\ Confirmed # {}
  /\ Latest.sequence = runtime.manifestAcked
  /\ Latest.content.static = platform.static
Current == Compatible /\ Latest.content.live = platform.live

Send(request) == requests' = requests \union {request}
SendManifest(m) ==
  Send([kind |-> "manifest", id |-> m.id, sequence |-> m.sequence, awaited |-> TRUE])

\* One awaited request and one its sender has given up.
Room == Cardinality(requests) < 2

Resend ==
  /\ Room
  /\ \E m \in Pending : /\ \A n \in Pending : m.sequence <= n.sequence
                        /\ SendManifest(m)

\* ensure_published: the pending manifest again, or a new one when the confirmed
\* one is not current; then the next step of the cycle.
EnsurePublished(wait, next) ==
  \/ /\ Pending # {} /\ Resend
     /\ Goto(wait)
     /\ UNCHANGED <<manifests, built>>
  \/ /\ Pending = {} /\ Current
     /\ Goto(next)
     /\ UNCHANGED <<manifests, built, requests>>
  \/ /\ Pending = {} /\ ~ Current /\ Room
     /\ built.manifests < MaxManifests
     /\ built' = [built EXCEPT !.manifests = @ + 1]
     /\ LET m == [id |-> built.manifests + 1, sequence |-> runtime.manifestAcked + 1,
                  content |-> platform, state |-> "pending"]
        IN manifests' = manifests \union {m} /\ SendManifest(m)
     /\ Goto(wait)

\* cycle without a scheduler publishes what is current; with one, what is
\* pending is resent first (ensure_fast_start_published).
StartCycle ==
  /\ pc = "start"
  /\ \/ ~ scheduler /\ EnsurePublished("wait_manifest", "beat")
     \/ /\ scheduler
        /\ IF Pending # {} THEN Resend /\ Goto("wait_resend")
                           ELSE Goto("examine") /\ UNCHANGED requests
        /\ UNCHANGED <<manifests, built>>
  /\ refresh' = FALSE
  /\ UNCHANGED <<runtime, backend, world>>

\* Variant: the refresh after the tasks is forgotten.
Examine_NoRefresh ==
  /\ pc = "examine"
  /\ IF Compatible
     THEN Goto("beat") /\ UNCHANGED <<manifests, built, requests>>
     ELSE EnsurePublished("wait_manifest", "beat")
  /\ refresh' = FALSE
  /\ UNCHANGED <<runtime, backend, world>>

\* ... then a compatible confirmed manifest is good enough, and the live probes
\* wait until after the tasks.
Examine ==
  /\ pc = "examine"
  /\ IF Compatible
     THEN Goto("beat") /\ UNCHANGED <<manifests, built, requests>>
     ELSE EnsurePublished("wait_manifest", "beat")
  /\ refresh' = Compatible
  /\ UNCHANGED <<runtime, backend, world>>

\* Variant: the row only.
ConfirmManifest_RowOnly ==
  /\ manifests' = {[m EXCEPT !.state = "confirmed"] : m \in manifests}
  /\ UNCHANGED runtime

\* confirm_manifest: the row and the acknowledged sequence in one transaction.
ConfirmManifest ==
  /\ manifests' = {[m EXCEPT !.state = "confirmed"] : m \in manifests}
  /\ runtime' = [runtime EXCEPT !.manifestAcked = Max({m.sequence : m \in Pending})]

AfterManifest ==
  CASE pc = "wait_resend" -> "examine"
    [] pc = "wait_manifest" -> "beat"
    [] pc = "wait_refresh" -> "start"

\* A failure is a TransportError: run() waits and starts the next cycle.
ManifestReply ==
  /\ pc \in {"wait_resend", "wait_manifest", "wait_refresh"} /\ reply # "none"
  /\ IF reply = "ok"
     THEN ConfirmManifest /\ Step(AfterManifest)
     ELSE Step("start") /\ UNCHANGED disk
  /\ UNCHANGED <<backend, requests, built, world>>

SendBeat(b) == Send([kind |-> "beat", beat |-> b, awaited |-> TRUE])

NewBeat == [id |-> built.beats + 1, boot |-> runtime.boot,
            sequence |-> runtime.beatAcked + 1, manifest |-> Latest.id]

\* HeartbeatService.send: the pending payload, or a new one persisted first.
Beat ==
  /\ pc = "beat" /\ Room
  /\ \/ /\ runtime.beatPending # NoBeat
        /\ SendBeat(runtime.beatPending)
        /\ UNCHANGED <<runtime, built>>
     \/ /\ runtime.beatPending = NoBeat
        /\ built.beats < MaxBeats
        /\ runtime' = [runtime EXCEPT !.beatPending = NewBeat]
        /\ built' = [built EXCEPT !.beats = @ + 1]
        /\ SendBeat(NewBeat)
  /\ Step("wait_beat")
  /\ UNCHANGED <<manifests, backend, world>>

\* Past the bound on heartbeats a cycle goes on without one.
SkipBeat ==
  /\ pc = "beat"
  /\ runtime.beatPending = NoBeat /\ built.beats = MaxBeats
  /\ Step("work")
  /\ UNCHANGED <<disk, backend, requests, built, world>>

\* confirm_heartbeat
BeatReply ==
  /\ pc = "wait_beat" /\ reply # "none"
  /\ IF reply = "ok"
     THEN /\ runtime' = [runtime EXCEPT !.beatAcked = runtime.beatPending.sequence,
                                        !.beatPending = NoBeat]
          /\ Step("work")
     ELSE Step("start") /\ UNCHANGED runtime
  /\ UNCHANGED <<manifests, backend, requests, built, world>>

\* scheduler.run_once (TaskExecution), then the refresh a fast start owes.
Work ==
  /\ pc = "work"
  /\ Step(IF refresh THEN "refresh" ELSE "start")
  /\ UNCHANGED <<disk, backend, requests, built, world>>

Refresh ==
  /\ pc = "refresh"
  /\ EnsurePublished("wait_refresh", "start")
  /\ UNCHANGED <<runtime, refresh, backend, world>>

-----------------------------------------------------------------------------
(* Faults, the platform, the clock and the operator *)

Forgotten == {[r EXCEPT !.awaited = FALSE] : r \in requests}

Crash ==
  /\ pc # "down" /\ faults < MaxFaults
  /\ faults' = faults + 1
  /\ Step("down")
  /\ requests' = Forgotten
  /\ UNCHANGED <<disk, backend, built, platform, aged, recoveries, scheduler>>

TimesOut ==
  /\ pc \in Waiting /\ reply = "none" /\ faults < MaxFaults
  /\ faults' = faults + 1
  /\ reply' = "error" /\ UNCHANGED <<pc, refresh>>
  /\ requests' = Forgotten
  /\ UNCHANGED <<disk, backend, built, platform, aged, recoveries, scheduler>>

\* An upgrade needs a stopped agent, a probe may change at any time.
PlatformChanges ==
  /\ platform.static + platform.live < MaxChanges
  /\ \/ pc = "down" /\ platform' = [platform EXCEPT !.static = @ + 1]
     \/ platform' = [platform EXCEPT !.live = @ + 1]
  /\ UNCHANGED <<disk, process, backend, requests, built, aged,
                 faults, recoveries, scheduler>>

InFlight == {r.beat : r \in {q \in requests : q.kind = "beat"}}

\* agent_clock_skew_seconds pass for a heartbeat that is not yet confirmed.
Age ==
  /\ Ages
  /\ \E b \in InFlight \union ({runtime.beatPending} \ {NoBeat}) :
       b.id \notin aged /\ aged' = aged \union {b.id}
  /\ UNCHANGED <<disk, process, backend, requests, built, platform,
                 faults, recoveries, scheduler>>

\* purge_local_identity and an enrolment with a recovery token: the agent keeps
\* its agent_id and loses its tables.  What it sent before may still be processed.
Recover ==
  /\ pc = "down" /\ runtime.boot # None
  /\ recoveries < MaxRecoveries
  /\ recoveries' = recoveries + 1
  /\ runtime' = [NewRuntime EXCEPT !.boot = runtime.boot]
  /\ manifests' = {}
  /\ UNCHANGED <<process, backend, requests, built, platform, aged, faults, scheduler>>

-----------------------------------------------------------------------------
(* AgentProtocolService: one action per transaction *)

Respond(r, answer) ==
  /\ requests' = requests \ {r}
  /\ reply' = IF r.awaited THEN answer ELSE reply
  /\ UNCHANGED <<disk, pc, refresh, built, world>>

LoseRequest(r) ==
  /\ ~ r.awaited
  /\ requests' = requests \ {r}
  /\ UNCHANGED <<disk, process, backend, built, world>>

\* publish_manifest: a known sequence must come with the same document.
PublishManifest(r) ==
  /\ r.kind = "manifest"
  /\ IF stored[r.sequence] = None
     THEN stored' = [stored EXCEPT ![r.sequence] = r.id] /\ Respond(r, "ok")
     ELSE /\ Respond(r, IF stored[r.sequence] = r.id THEN "ok" ELSE "conflict")
          /\ UNCHANGED stored
  /\ UNCHANGED presence

KnownManifest(id) == \E s \in DOMAIN stored : stored[s] = id

\* Variant: a repeated sequence is refused even with the same payload.
AcceptBeat_NoReplay(r) ==
  /\ r.kind = "beat"
  /\ IF presence.boot = r.beat.boot /\ r.beat.sequence <= presence.sequence
     THEN Respond(r, "conflict") /\ UNCHANGED presence
     ELSE /\ Respond(r, "ok")
          /\ presence' = r.beat
  /\ UNCHANGED stored

\* _presence, in the order of its checks.
AcceptBeat(r) ==
  /\ r.kind = "beat"
  /\ LET b == r.beat
         same == presence.boot = b.boot
     IN CASE b.id \in aged ->
               Respond(r, "error") /\ UNCHANGED presence
          [] b.id \notin aged /\ \/ ~ KnownManifest(b.manifest)
                                 \/ same /\ b.sequence < presence.sequence
                                 \/ same /\ b.sequence = presence.sequence
                                         /\ b # presence ->
               Respond(r, "conflict") /\ UNCHANGED presence
          [] OTHER ->
               /\ Respond(r, "ok")
               /\ presence' = b
  /\ UNCHANGED stored

-----------------------------------------------------------------------------
AgentStep ==
  \/ StartCycle \/ Examine \/ ManifestReply
  \/ Beat \/ SkipBeat \/ BeatReply \/ Work \/ Refresh

Backend ==
  \E r \in requests : LoseRequest(r) \/ PublishManifest(r) \/ AcceptBeat(r)

Next ==
  \/ Start \/ AgentStep \/ Backend
  \/ Crash \/ TimesOut \/ PlatformChanges \/ Age \/ Recover

Spec == Init /\ [][Next]_vars

\* run() loops, the service manager restarts a crashed agent and the backend
\* works off its requests; nothing is assumed of faults, clock or operator.
FairSpec == Spec /\ WF_vars(AgentStep) /\ WF_vars(Backend) /\ WF_vars(Start)

-----------------------------------------------------------------------------
(* Properties *)

\* An agent that never lost its tables is never told it broke the protocol:
\* whatever it resends after crashes and timeouts, and whatever arrives late,
\* a request it waits for names a manifest the backend has and reuses no
\* sequence for another payload (heartbeat.py:20, capabilities.py:234,
\* agent_protocol.py:55-62 and 150-160).
AwaitedNeverConflicts == recoveries = 0 => reply # "conflict"

\* What the agent holds as confirmed is what the backend stored under that
\* sequence, even after a recovery (capabilities.py:272, store.py:833).
ConfirmedIsStored == \A m \in Confirmed : stored[m.sequence] = m.id

\* persist_manifest never meets its own UNIQUE(sequence): the rows are numbered
\* without a gap, at most the last is pending, and the acknowledged sequence
\* is the last confirmed one (store.py:820-848).
SequencesDense ==
  /\ {m.sequence : m \in Confirmed} = 0 .. runtime.manifestAcked
  /\ {m.sequence : m \in Pending} \subseteq {runtime.manifestAcked + 1}
  /\ \A m, n \in manifests : m.sequence = n.sequence => m = n

\* Agent and backend agree on sequences: none is refused, reused or skipped.
SequencesAgree == TypeOK /\ AwaitedNeverConflicts /\ ConfirmedIsStored /\ SequencesDense

\* A persisted heartbeat is eventually confirmed, whatever crashes and timeouts
\* come between, or its agent_reported_at leaves the skew window first: it is
\* resent verbatim and refused from then on (heartbeat.py:20-51).
PendingBeatResolves ==
  runtime.beatPending # NoBeat
    ~> runtime.beatPending = NoBeat \/ runtime.beatPending.id \in aged

\* Once the platform no longer changes, the confirmed manifest describes it
\* (capabilities.py:210-277), unless a heartbeat that can no longer be sent stands
\* in the way or a purge reset the sequence the backend knows (store.py:689-695).
ManifestConverges ==
  <>[]((Current /\ Pending = {}) \/ runtime.beatPending.id \in aged \/ recoveries > 0)
=============================================================================
