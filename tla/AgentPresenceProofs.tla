------------------------ MODULE AgentPresenceProofs ------------------------
(***************************************************************************)
(* Proof that agent and backend agree on sequences (SequencesAgree), for    *)
(* every number of boots, manifests, heartbeats, faults and recoveries.     *)
(*                                                                         *)
(* SequencesAgree is not inductive: whether a late request conflicts is     *)
(* decided when it was sent.  IInv adds what every request in flight, every *)
(* row of the backend and every position of cycle() owe to the agent's      *)
(* durable tables.                                                          *)
(***************************************************************************)
EXTENDS AgentPresence, TLAPS

ManifestWaits == {"wait_resend", "wait_manifest", "wait_refresh"}

\* Sequences run behind the numbers of what was built: there is always room
\* for the next one.
NumbersOK ==
  /\ \A m \in manifests : m.sequence < m.id /\ m.id <= built.manifests
  /\ runtime.manifestAcked < built.manifests
  /\ runtime.beatAcked < built.beats
  /\ runtime.beatPending # NoBeat =>
       /\ runtime.beatPending.sequence = runtime.beatAcked + 1
       /\ runtime.beatPending.sequence < built.beats

\* What a position of cycle() has behind it.
PositionOK ==
  /\ pc # "down" => runtime.boot \in Boots
  /\ pc = "beat" => Confirmed # {}
  /\ pc \in ManifestWaits => Pending # {}
  /\ pc = "wait_beat" => runtime.beatPending # NoBeat
  /\ pc \in ManifestWaits /\ reply = "ok" =>
       \A m \in Pending : stored[m.sequence] = m.id

\* The one request the process waits for carries what is pending.
RequestsOK ==
  /\ \A r \in requests : r.awaited => reply = "none"
  /\ \A r \in requests : r.awaited /\ r.kind = "manifest" =>
       /\ pc \in ManifestWaits
       /\ \A m \in Pending : m.id = r.id /\ m.sequence = r.sequence
  /\ \A r \in requests : r.awaited /\ r.kind = "beat" =>
       pc = "wait_beat" /\ r.beat = runtime.beatPending
  /\ \A q, r \in requests : q.awaited /\ r.awaited => q = r

\* Until the first recovery, what the backend stored or is about to read is a
\* manifest the agent still holds.
StoredOK ==
  recoveries = 0 =>
    /\ \A s \in DOMAIN stored : stored[s] # None =>
         \E m \in manifests : m.sequence = s /\ m.id = stored[s]
    /\ \A r \in requests : r.kind = "manifest" =>
         \E m \in manifests : m.sequence = r.sequence /\ m.id = r.id

\* A heartbeat names a manifest the backend has; until the first recovery it is
\* the pending one or its sequence was acknowledged.
BeatsOK ==
  /\ runtime.beatPending # NoBeat => KnownManifest(runtime.beatPending.manifest)
  /\ \A r \in requests : r.kind = "beat" => KnownManifest(r.beat.manifest)
  /\ recoveries = 0 =>
       /\ \A r \in requests : r.kind = "beat" =>
            r.beat = runtime.beatPending \/ r.beat.sequence <= runtime.beatAcked
       /\ presence = runtime.beatPending \/ presence.sequence <= runtime.beatAcked

Tables == NumbersOK /\ ConfirmedIsStored /\ SequencesDense
Traffic == PositionOK /\ RequestsOK /\ StoredOK /\ BeatsOK

IInv == TypeOK /\ AwaitedNeverConflicts /\ Tables /\ Traffic

-----------------------------------------------------------------------------
(* Facts about the operators *)

\* The confirmed manifest of the highest sequence exists and is the
\* acknowledged one (confirmed_manifest, store.py:850).
LEMMA LatestConfirmed ==
  ASSUME TypeOK, SequencesDense, Confirmed # {}
  PROVE  Latest \in Confirmed /\ Latest.sequence = runtime.manifestAcked
<1>1. \A m \in Confirmed : m.sequence \in 0 .. runtime.manifestAcked
  BY DEF SequencesDense
<1>2. PICK n \in Confirmed : TRUE
  OBVIOUS
<1>3. runtime.manifestAcked \in Int
  BY PresenceAssumption DEF TypeOK
<1>4. runtime.manifestAcked \in 0 .. runtime.manifestAcked
  BY <1>1, <1>2, <1>3
<1>5. PICK m \in Confirmed : m.sequence = runtime.manifestAcked
  BY <1>4 DEF SequencesDense
<1>6. \A k \in Confirmed : k.sequence <= m.sequence
  BY <1>1, <1>3, <1>5
<1>7. Latest \in Confirmed /\ \A k \in Confirmed : k.sequence <= Latest.sequence
  BY <1>5, <1>6 DEF Latest
<1>8. Latest.sequence \in 0 .. runtime.manifestAcked /\ m.sequence <= Latest.sequence
  BY <1>1, <1>5, <1>7
<1> QED
  BY <1>3, <1>5, <1>7, <1>8

\* The agent waits only where cycle() waits, and no longer once it has an answer.
LEMMA NothingAwaited ==
  ASSUME IInv, pc \notin Waiting \/ reply # "none"
  PROVE  \A r \in requests : ~ r.awaited
<1>1. \A r \in requests : r.kind \in {"manifest", "beat"}
  BY DEF IInv, TypeOK, Manifest, Heartbeat
<1> QED
  BY <1>1 DEF IInv, Traffic, RequestsOK, ManifestWaits, Waiting

\* There is one pending manifest at most.
LEMMA OnePending ==
  ASSUME SequencesDense, NEW m \in Pending, NEW n \in Pending
  PROVE  m = n
<1>1. m.sequence = runtime.manifestAcked + 1 /\ n.sequence = runtime.manifestAcked + 1
  BY DEF SequencesDense
<1>2. m \in manifests /\ n \in manifests
  BY DEF Pending
<1> QED
  BY <1>1, <1>2 DEF SequencesDense

\* A step that touches neither table, request nor row and ends where cycle()
\* waits for nothing.
LEMMA MoveStep ==
  ASSUME IInv, TypeOK',
         UNCHANGED <<disk, backend, requests, built, recoveries>>,
         \A r \in requests : ~ r.awaited,
         reply' = "none", pc' \notin Waiting,
         pc' = "beat" => Confirmed # {},
         pc' # "down" => runtime.boot \in Boots
  PROVE  IInv'
<1>1. /\ runtime' = runtime /\ manifests' = manifests /\ stored' = stored
      /\ presence' = presence /\ requests' = requests /\ built' = built
      /\ recoveries' = recoveries /\ Pending' = Pending /\ Confirmed' = Confirmed
  BY DEF disk, backend, Pending, Confirmed
<1>2. Tables'
  BY <1>1 DEF IInv, Tables, NumbersOK, ConfirmedIsStored, SequencesDense
<1>3. AwaitedNeverConflicts'
  BY DEF AwaitedNeverConflicts
<1>4. PositionOK'
  BY <1>1 DEF PositionOK, ManifestWaits, Waiting
<1>5. RequestsOK'
  BY <1>1 DEF RequestsOK
<1>6. StoredOK'
  BY <1>1 DEF IInv, Traffic, StoredOK
<1>7. BeatsOK'
  BY <1>1 DEF IInv, Traffic, BeatsOK, KnownManifest
<1> QED
  BY <1>2, <1>3, <1>4, <1>5, <1>6, <1>7 DEF IInv, Traffic

\* Nothing but the platform or the clock changes.
LEMMA WorldStep ==
  ASSUME IInv, TypeOK',
         UNCHANGED <<disk, pc, reply, backend, requests, built, recoveries>>
  PROVE  IInv'
<1>1. /\ runtime' = runtime /\ manifests' = manifests /\ stored' = stored
      /\ presence' = presence /\ requests' = requests /\ built' = built
      /\ recoveries' = recoveries /\ Pending' = Pending /\ Confirmed' = Confirmed
      /\ pc' = pc /\ reply' = reply
  BY DEF disk, backend, Pending, Confirmed
<1>2. Tables'
  BY <1>1 DEF IInv, Tables, NumbersOK, ConfirmedIsStored, SequencesDense
<1>3. AwaitedNeverConflicts'
  BY <1>1 DEF IInv, AwaitedNeverConflicts
<1>4. PositionOK' /\ RequestsOK' /\ StoredOK'
  BY <1>1 DEF IInv, Traffic, PositionOK, RequestsOK, StoredOK
<1>5. BeatsOK'
  BY <1>1 DEF IInv, Traffic, BeatsOK, KnownManifest
<1> QED
  BY <1>2, <1>3, <1>4, <1>5 DEF IInv, Traffic

-----------------------------------------------------------------------------
(* Sending *)

\* The request a manifest is sent in.
ManifestRequest(m) ==
  [kind |-> "manifest", id |-> m.id, sequence |-> m.sequence, awaited |-> TRUE]
BeatRequest(b) == [kind |-> "beat", beat |-> b, awaited |-> TRUE]

\* The pending manifest is sent again (_publish_pending, capabilities.py).
LEMMA ResendStep ==
  ASSUME IInv, \A r \in requests : ~ r.awaited,
         Resend, pc # "down",
         reply' = "none", pc' \in ManifestWaits,
         refresh' \in BOOLEAN,
         UNCHANGED <<disk, backend, built, world>>
  PROVE  IInv'
<1>1. PICK m \in Pending : SendManifest(m)
  BY DEF Resend
<1> DEFINE q == ManifestRequest(m)
<1>2. /\ runtime' = runtime /\ manifests' = manifests /\ stored' = stored
      /\ presence' = presence /\ built' = built
      /\ recoveries' = recoveries /\ Pending' = Pending /\ Confirmed' = Confirmed
      /\ platform' = platform /\ aged' = aged /\ faults' = faults
      /\ scheduler' = scheduler
      /\ requests' = requests \union {q}
  BY <1>1 DEF disk, backend, world, Pending, Confirmed, SendManifest, Send,
              ManifestRequest
<1>3. m \in Manifests /\ m \in manifests
  BY DEF IInv, TypeOK, Pending
<1>4. q \in Manifest /\ q.kind = "manifest" /\ q.id = m.id /\ q.sequence = m.sequence
  BY <1>3 DEF Manifests, Manifest, ManifestRequest
<1> HIDE DEF q
<1>5. TypeOK'
  <2>1. pc' \in Labels /\ reply' \in {"none", "ok", "conflict", "error"}
    BY DEF ManifestWaits, Labels, Waiting
  <2>2. requests' \subseteq Manifest \union Heartbeat
    BY <1>2, <1>4 DEF IInv, TypeOK
  <2> QED
    BY <1>2, <2>1, <2>2 DEF IInv, TypeOK
<1>6. Tables'
  BY <1>2 DEF IInv, Tables, NumbersOK, ConfirmedIsStored, SequencesDense
<1>7. PositionOK'
  BY <1>2, <1>1 DEF IInv, Traffic, PositionOK, ManifestWaits
<1>8. RequestsOK'
  <2>1. \A n \in Pending : n = m
    BY OnePending DEF IInv, Tables
  <2> QED
    BY <1>2, <1>4, <2>1 DEF RequestsOK
<1>9. StoredOK'
  BY <1>2, <1>3, <1>4 DEF IInv, Traffic, StoredOK
<1>10. BeatsOK'
  BY <1>2, <1>4 DEF IInv, Traffic, BeatsOK, KnownManifest
<1> QED
  BY <1>5, <1>6, <1>7, <1>8, <1>9, <1>10 DEF IInv, Traffic, AwaitedNeverConflicts

\* The manifest of a call that builds one.
NewManifest == [id |-> built.manifests + 1, sequence |-> runtime.manifestAcked + 1,
                content |-> platform, state |-> "pending"]

\* A new manifest is persisted and sent (persist_manifest).
LEMMA NewManifestStep ==
  ASSUME IInv, \A r \in requests : ~ r.awaited,
         Pending = {}, built.manifests < MaxManifests, pc # "down",
         built' = [built EXCEPT !.manifests = @ + 1],
         manifests' = manifests \union {NewManifest}, SendManifest(NewManifest),
         reply' = "none", pc' \in ManifestWaits,
         refresh' \in BOOLEAN,
         UNCHANGED <<runtime, backend, world>>
  PROVE  IInv'
<1> DEFINE m == NewManifest
           q == ManifestRequest(m)
<1>1. /\ runtime' = runtime /\ stored' = stored /\ presence' = presence
      /\ recoveries' = recoveries
      /\ platform' = platform /\ aged' = aged /\ faults' = faults
      /\ scheduler' = scheduler
      /\ manifests' = manifests \union {m}
      /\ requests' = requests \union {q}
  BY DEF backend, world, SendManifest, Send, ManifestRequest
<1>2. /\ built \in [manifests : 0 .. MaxManifests, beats : 0 .. MaxBeats]
      /\ runtime.manifestAcked \in -1 .. MaxManifests - 1
      /\ runtime.manifestAcked < built.manifests
      /\ runtime.beatAcked < built.beats
      /\ manifests \subseteq Manifests
  BY DEF IInv, TypeOK, Tables, NumbersOK
<1>3. /\ m \in Manifests
      /\ m.id = built.manifests + 1 /\ m.sequence = runtime.manifestAcked + 1
      /\ m.state = "pending"
  <2>1. platform \in Platforms /\ MaxManifests \in Nat
    BY PresenceAssumption DEF IInv, TypeOK
  <2>2. /\ built.manifests + 1 \in ManifestIds
        /\ runtime.manifestAcked + 1 \in 0 .. MaxManifests - 1
    BY <1>2, <2>1 DEF ManifestIds
  <2> QED
    BY <2>1, <2>2 DEF Manifests, NewManifest
<1>4. q \in Manifest /\ q.kind = "manifest" /\ q.id = m.id /\ q.sequence = m.sequence
  BY <1>3 DEF Manifests, Manifest, ManifestRequest
<1>5. built'.manifests = built.manifests + 1 /\ built'.beats = built.beats
      /\ built' \in [manifests : 0 .. MaxManifests, beats : 0 .. MaxBeats]
  BY <1>2, PresenceAssumption
<1> HIDE DEF m, q
<1>6. Pending' = {m} /\ Confirmed' = Confirmed
  BY <1>1, <1>3 DEF Pending, Confirmed
<1>7. TypeOK'
  <2>1. pc' \in Labels /\ reply' \in {"none", "ok", "conflict", "error"}
    BY DEF ManifestWaits, Labels, Waiting
  <2>2. requests' \subseteq Manifest \union Heartbeat
    BY <1>1, <1>4 DEF IInv, TypeOK
  <2>3. manifests' \subseteq Manifests
    BY <1>1, <1>2, <1>3
  <2> QED
    BY <1>1, <1>5, <2>1, <2>2, <2>3 DEF IInv, TypeOK
<1>8. NumbersOK'
  <2>1. \A n \in manifests : n.id \in Nat /\ n.sequence < n.id /\ n.id <= built.manifests
    BY <1>2 DEF IInv, Tables, NumbersOK, Manifests, ManifestIds
  <2>2. \A n \in manifests' : n.sequence < n.id /\ n.id <= built'.manifests
    BY <1>1, <1>2, <1>3, <1>5, <2>1
  <2>3. built.beats \in Nat /\ built.manifests \in Nat
    BY <1>2
  <2> QED
    BY <1>1, <1>2, <1>5, <2>2, <2>3 DEF IInv, Tables, NumbersOK
<1>9. ConfirmedIsStored'
  BY <1>1, <1>6 DEF IInv, Tables, ConfirmedIsStored
<1>10. SequencesDense'
  <2>1. \A n \in manifests : n.sequence \in 0 .. runtime.manifestAcked
    <3>1. \A n \in manifests : n \in Confirmed
      BY <1>2 DEF Pending, Confirmed, Manifests
    <3> QED
      BY <3>1 DEF IInv, Tables, SequencesDense
  <2>2. \A n \in manifests : n.sequence # m.sequence
    BY <1>2, <1>3, <2>1
  <2>3. {n.sequence : n \in Pending'} \subseteq {runtime.manifestAcked + 1}
    BY <1>3, <1>6
  <2> QED
    BY <1>1, <1>6, <2>2, <2>3 DEF IInv, Tables, SequencesDense
<1>11. PositionOK'
  BY <1>1, <1>6 DEF IInv, Traffic, PositionOK, ManifestWaits
<1>12. RequestsOK'
  BY <1>1, <1>4, <1>6 DEF RequestsOK
<1>13. StoredOK'
  BY <1>1, <1>4 DEF IInv, Traffic, StoredOK
<1>14. BeatsOK'
  BY <1>1, <1>4 DEF IInv, Traffic, BeatsOK, KnownManifest
<1> QED
  BY <1>7, <1>8, <1>9, <1>10, <1>11, <1>12, <1>13, <1>14
  DEF IInv, Tables, Traffic, AwaitedNeverConflicts

\* ensure_published in a call that waits for nothing.
LEMMA EnsureStep ==
  ASSUME IInv, NEW wait \in ManifestWaits, NEW next \in {"beat", "start"},
         \A r \in requests : ~ r.awaited, pc # "down",
         EnsurePublished(wait, next),
         refresh' \in BOOLEAN,
         UNCHANGED <<runtime, backend, world>>
  PROVE  IInv'
<1>1. CASE Pending # {} /\ Resend /\ Goto(wait) /\ UNCHANGED <<manifests, built>>
  <2>1. reply' = "none" /\ pc' \in ManifestWaits /\ UNCHANGED <<disk, backend, built, world>>
    BY <1>1 DEF Goto, disk
  <2> QED
    BY <1>1, <2>1, ResendStep
<1>2. CASE Pending = {} /\ Current /\ Goto(next) /\ UNCHANGED <<manifests, built, requests>>
  <2>1. /\ reply' = "none" /\ pc' = next /\ Confirmed # {}
        /\ UNCHANGED <<disk, backend, built, world, requests, recoveries>>
    BY <1>2 DEF Goto, disk, Current, Compatible, world
  <2>2. TypeOK'
    BY <2>1 DEF IInv, TypeOK, disk, backend, world, Labels
  <2>3. runtime.boot \in Boots
    BY DEF IInv, Traffic, PositionOK
  <2>4. pc' \notin Waiting
    BY <2>1 DEF Waiting
  <2>5. UNCHANGED <<disk, backend, requests, built, recoveries>>
    BY <2>1
  <2> QED
    BY <2>1, <2>2, <2>3, <2>4, <2>5, MoveStep
<1>3. CASE /\ Pending = {} /\ ~ Current /\ Room
           /\ built.manifests < MaxManifests
           /\ built' = [built EXCEPT !.manifests = @ + 1]
           /\ manifests' = manifests \union {NewManifest} /\ SendManifest(NewManifest)
           /\ Goto(wait)
  <2>1. reply' = "none" /\ pc' \in ManifestWaits
    BY <1>3 DEF Goto
  <2> QED
    BY <1>3, <2>1, NewManifestStep
<1> QED
  BY <1>1, <1>2, <1>3 DEF EnsurePublished, NewManifest

-----------------------------------------------------------------------------
(* The agent *)

LEMMA StartPreserves ==
  ASSUME IInv, Start
  PROVE  IInv'
<1>1. /\ pc = "down" /\ pc' = "start" /\ reply' = "none" /\ refresh' = refresh
      /\ manifests' = manifests /\ stored' = stored /\ presence' = presence
      /\ requests' = requests /\ built' = built /\ platform' = platform
      /\ aged' = aged /\ faults' = faults /\ recoveries' = recoveries
      /\ scheduler' = scheduler /\ Pending' = Pending /\ Confirmed' = Confirmed
  BY DEF Start, Step, Goto, backend, world, Pending, Confirmed
<1>2. /\ runtime'.boot \in Boots
      /\ runtime'.manifestAcked = runtime.manifestAcked
      /\ runtime'.beatAcked = runtime.beatAcked
      /\ runtime'.beatPending = runtime.beatPending
      /\ runtime' \in [boot : 0 .. MaxBoots, beatAcked : -1 .. MaxBeats - 1,
                       beatPending : Beats \union {NoBeat},
                       manifestAcked : -1 .. MaxManifests - 1]
  <2>1. runtime' = [runtime EXCEPT !.boot = runtime.boot + 1] /\ runtime.boot < MaxBoots
    BY DEF Start
  <2>2. runtime \in [boot : 0 .. MaxBoots, beatAcked : -1 .. MaxBeats - 1,
                     beatPending : Beats \union {NoBeat},
                     manifestAcked : -1 .. MaxManifests - 1]
    BY DEF IInv, TypeOK
  <2>3. runtime.boot + 1 \in Boots /\ runtime.boot + 1 \in 0 .. MaxBoots
    BY <2>1, <2>2, PresenceAssumption DEF Boots
  <2> QED
    BY <2>1, <2>2, <2>3
<1>3. \A r \in requests : ~ r.awaited
  BY <1>1, NothingAwaited DEF Waiting
<1>4. TypeOK'
  BY <1>1, <1>2 DEF IInv, TypeOK, Labels
<1>5. Tables'
  BY <1>1, <1>2 DEF IInv, Tables, NumbersOK, ConfirmedIsStored, SequencesDense
<1>6. PositionOK' /\ RequestsOK'
  BY <1>1, <1>2, <1>3 DEF PositionOK, RequestsOK, ManifestWaits
<1>7. StoredOK'
  BY <1>1 DEF IInv, Traffic, StoredOK
<1>8. BeatsOK'
  BY <1>1, <1>2 DEF IInv, Traffic, BeatsOK, KnownManifest
<1> QED
  BY <1>1, <1>4, <1>5, <1>6, <1>7, <1>8 DEF IInv, Traffic, AwaitedNeverConflicts

LEMMA StartCyclePreserves ==
  ASSUME IInv, StartCycle
  PROVE  IInv'
<1>1. pc = "start" /\ refresh' \in BOOLEAN /\ UNCHANGED <<runtime, backend, world>>
  BY DEF StartCycle
<1>2. \A r \in requests : ~ r.awaited
  BY <1>1, NothingAwaited DEF Waiting
<1>3. CASE EnsurePublished("wait_manifest", "beat")
  BY <1>1, <1>2, <1>3, EnsureStep DEF ManifestWaits
<1>4. CASE Resend /\ Goto("wait_resend") /\ UNCHANGED <<manifests, built>>
  <2>1. reply' = "none" /\ pc' \in ManifestWaits /\ UNCHANGED <<disk, backend, built, world>>
    BY <1>1, <1>4 DEF Goto, disk, ManifestWaits
  <2> QED
    BY <1>1, <1>2, <1>4, <2>1, ResendStep
<1>5. CASE Goto("examine") /\ UNCHANGED requests /\ UNCHANGED <<manifests, built>>
  <2>1. /\ reply' = "none" /\ pc' = "examine"
        /\ UNCHANGED <<disk, backend, requests, built, recoveries>>
    BY <1>1, <1>5 DEF Goto, disk, world
  <2>2. TypeOK'
    BY <1>1, <2>1 DEF IInv, TypeOK, disk, backend, world, Labels
  <2>3. runtime.boot \in Boots
    BY <1>1 DEF IInv, Traffic, PositionOK
  <2> QED
    BY <1>2, <2>1, <2>2, <2>3, MoveStep DEF Waiting
<1> QED
  BY <1>3, <1>4, <1>5 DEF StartCycle

LEMMA ExaminePreserves ==
  ASSUME IInv, Examine
  PROVE  IInv'
<1>1. /\ pc = "examine" /\ refresh' = Compatible
      /\ UNCHANGED <<runtime, backend, world>>
  BY DEF Examine
<1>2. refresh' \in BOOLEAN
  BY <1>1 DEF Compatible
<1>3. \A r \in requests : ~ r.awaited
  BY <1>1, NothingAwaited DEF Waiting
<1>4. CASE Compatible
  <2>1. Goto("beat") /\ UNCHANGED <<manifests, built, requests>>
    BY <1>4 DEF Examine
  <2>2. /\ reply' = "none" /\ pc' = "beat" /\ Confirmed # {}
        /\ UNCHANGED <<disk, backend, requests, built, recoveries>>
    BY <1>1, <1>4, <2>1 DEF Goto, disk, world, Compatible
  <2>3. TypeOK'
    BY <1>1, <1>2, <2>2 DEF IInv, TypeOK, disk, backend, world, Labels
  <2>4. runtime.boot \in Boots
    BY <1>1 DEF IInv, Traffic, PositionOK
  <2> QED
    BY <1>3, <2>2, <2>3, <2>4, MoveStep DEF Waiting
<1>5. CASE ~ Compatible
  <2>1. EnsurePublished("wait_manifest", "beat")
    BY <1>5 DEF Examine
  <2> QED
    BY <1>1, <1>2, <1>3, <2>1, EnsureStep DEF ManifestWaits
<1> QED
  BY <1>4, <1>5

LEMMA RefreshPreserves ==
  ASSUME IInv, Refresh
  PROVE  IInv'
<1>1. /\ pc = "refresh" /\ refresh' = refresh
      /\ UNCHANGED <<runtime, backend, world>>
      /\ EnsurePublished("wait_refresh", "start")
  BY DEF Refresh
<1>2. refresh' \in BOOLEAN
  BY <1>1 DEF IInv, TypeOK
<1>3. \A r \in requests : ~ r.awaited
  BY <1>1, NothingAwaited DEF Waiting
<1> QED
  BY <1>1, <1>2, <1>3, EnsureStep DEF ManifestWaits

\* A step of cycle() between two of its calls.
LEMMA StepPreserves ==
  ASSUME IInv, NEW label \in {"start", "work", "refresh"}, Step(label),
         pc # "down", pc \notin Waiting \/ reply # "none",
         UNCHANGED <<disk, backend, requests, built, world>>
  PROVE  IInv'
<1>1. /\ reply' = "none" /\ pc' = label /\ refresh' = refresh
      /\ UNCHANGED <<disk, backend, requests, built, recoveries>>
  BY DEF Step, Goto, world
<1>2. TypeOK'
  BY <1>1 DEF IInv, TypeOK, disk, backend, world, Labels
<1>3. runtime.boot \in Boots
  BY DEF IInv, Traffic, PositionOK
<1>4. pc' \notin Waiting /\ pc' # "beat"
  BY <1>1 DEF Waiting
<1>5. \A r \in requests : ~ r.awaited
  BY NothingAwaited
<1> QED
  BY <1>1, <1>2, <1>3, <1>4, <1>5, MoveStep

LEMMA SkipBeatPreserves ==
  ASSUME IInv, SkipBeat
  PROVE  IInv'
BY StepPreserves DEF SkipBeat, Waiting

LEMMA WorkPreserves ==
  ASSUME IInv, Work
  PROVE  IInv'
<1>1. Step("refresh") \/ Step("start")
  BY DEF Work
<1> QED
  BY <1>1, StepPreserves DEF Work, Waiting

\* The pending manifest is confirmed: the rows stay numbered without a gap and
\* the acknowledged sequence is the last (confirm_manifest).
LEMMA ConfirmPreserves ==
  ASSUME IInv, pc \in ManifestWaits, reply = "ok",
         ConfirmManifest, Step(AfterManifest),
         UNCHANGED <<backend, requests, built, world>>
  PROVE  IInv'
<1> DEFINE C(m) == [m EXCEPT !.state = "confirmed"]
<1>1. /\ pc' \in {"examine", "beat", "start"} /\ reply' = "none" /\ refresh' = refresh
      /\ stored' = stored /\ presence' = presence
      /\ requests' = requests /\ built' = built /\ platform' = platform
      /\ aged' = aged /\ faults' = faults /\ recoveries' = recoveries
      /\ scheduler' = scheduler /\ manifests' = {C(m) : m \in manifests}
  BY DEF Step, Goto, AfterManifest, ManifestWaits, backend, world, ConfirmManifest
<1>2. PICK p \in Pending : TRUE
  BY DEF IInv, Traffic, PositionOK
<1>3. /\ p \in manifests /\ p \in Manifests /\ p.sequence \in Nat
      /\ p.sequence = runtime.manifestAcked + 1
      /\ \A m \in Pending : m = p
  <2>1. p \in manifests /\ p \in Manifests
    BY DEF IInv, TypeOK, Pending
  <2>2. p.sequence \in Nat
    BY <2>1, PresenceAssumption DEF Manifests
  <2>3. p.sequence = runtime.manifestAcked + 1
    BY DEF IInv, Tables, SequencesDense
  <2> QED
    BY <2>1, <2>2, <2>3, OnePending DEF IInv, Tables
<1>4. Max({m.sequence : m \in Pending}) = p.sequence
  <2>1. {m.sequence : m \in Pending} = {p.sequence}
    BY <1>2, <1>3
  <2>2. Max({p.sequence}) = p.sequence
    BY <1>3 DEF Max
  <2> QED
    BY <2>1, <2>2
<1>5. /\ runtime' = [runtime EXCEPT !.manifestAcked = p.sequence]
      /\ runtime \in [boot : 0 .. MaxBoots, beatAcked : -1 .. MaxBeats - 1,
                      beatPending : Beats \union {NoBeat},
                      manifestAcked : -1 .. MaxManifests - 1]
      /\ p.sequence \in -1 .. MaxManifests - 1
  <2>1. runtime' = [runtime EXCEPT !.manifestAcked = p.sequence]
    BY <1>4 DEF ConfirmManifest
  <2>2. p.sequence \in -1 .. MaxManifests - 1
    BY <1>3, PresenceAssumption DEF Manifests
  <2> QED
    BY <2>1, <2>2 DEF IInv, TypeOK
<1>6. /\ runtime'.manifestAcked = p.sequence
      /\ runtime'.boot = runtime.boot
      /\ runtime'.beatAcked = runtime.beatAcked
      /\ runtime'.beatPending = runtime.beatPending
      /\ runtime' \in [boot : 0 .. MaxBoots, beatAcked : -1 .. MaxBeats - 1,
                       beatPending : Beats \union {NoBeat},
                       manifestAcked : -1 .. MaxManifests - 1]
  BY <1>5
<1>7. \A m \in manifests : /\ C(m) \in Manifests /\ C(m) \in manifests'
                           /\ C(m).id = m.id /\ C(m).sequence = m.sequence
                           /\ C(m).state = "confirmed"
  BY <1>1 DEF IInv, TypeOK, Manifests
<1>8. \A n \in manifests' : \E m \in manifests : n = C(m)
  BY <1>1
<1> HIDE DEF C
<1>9. Pending' = {} /\ Confirmed' = manifests'
  BY <1>7, <1>8 DEF Pending, Confirmed
<1>10. \A m \in manifests : m \in Confirmed \/ m = p
  <2>1. \A m \in manifests : m \in Confirmed \/ m \in Pending
    BY DEF IInv, TypeOK, Manifests, Confirmed, Pending
  <2> QED
    BY <1>3, <2>1
<1>11. \A r \in requests : ~ r.awaited
  BY NothingAwaited
<1>12. TypeOK'
  <2>1. manifests' \subseteq Manifests
    BY <1>7, <1>8
  <2> QED
    BY <1>1, <1>6, <2>1 DEF IInv, TypeOK, Labels
<1>13. NumbersOK'
  <2>1. \A m \in manifests : m.sequence < m.id /\ m.id <= built.manifests
    BY DEF IInv, Tables, NumbersOK
  <2>2. \A m \in manifests' : m.sequence < m.id /\ m.id <= built'.manifests
    BY <1>1, <1>7, <1>8, <2>1
  <2>3. p.sequence < built.manifests
    <3>1. p.id \in Int /\ built.manifests \in Int
      BY <1>3 DEF IInv, TypeOK, Manifests, ManifestIds
    <3> QED
      BY <1>3, <2>1, <3>1
  <2> QED
    BY <1>1, <1>6, <2>2, <2>3 DEF IInv, Tables, NumbersOK
<1>14. ConfirmedIsStored'
  <2>1. \A m \in manifests : stored[m.sequence] = m.id
    BY <1>2, <1>10 DEF IInv, Tables, ConfirmedIsStored, Traffic, PositionOK
  <2> QED
    BY <1>1, <1>7, <1>8, <1>9, <2>1 DEF ConfirmedIsStored
<1>15. SequencesDense'
  <2>1. {m.sequence : m \in Confirmed} = 0 .. runtime.manifestAcked
    BY DEF IInv, Tables, SequencesDense
  <2>2. \A s \in 0 .. p.sequence : \E m \in manifests : m.sequence = s
    <3> TAKE s \in 0 .. p.sequence
    <3>1. CASE s = p.sequence
      BY <1>3, <3>1
    <3>2. CASE s # p.sequence
      <4>1. s \in 0 .. runtime.manifestAcked
        BY <1>3, <1>5, <3>2
      <4> QED
        BY <2>1, <4>1 DEF Confirmed
    <3> QED
      BY <3>1, <3>2
  <2>3. \A m \in manifests : m.sequence \in 0 .. p.sequence
    <3> TAKE m \in manifests
    <3>1. CASE m \in Confirmed
      <4>1. m.sequence \in 0 .. runtime.manifestAcked
        BY <2>1, <3>1
      <4> QED
        BY <1>3, <1>5, <4>1
    <3>2. CASE m = p
      BY <1>3, <3>2
    <3> QED
      BY <1>10, <3>1, <3>2
  <2>4. {m.sequence : m \in manifests'} = 0 .. p.sequence
    BY <1>7, <1>8, <2>2, <2>3
  <2>5. \A m, n \in manifests' : m.sequence = n.sequence => m = n
    <3>1. \A m, n \in manifests : m.sequence = n.sequence => m = n
      BY DEF IInv, Tables, SequencesDense
    <3> QED
      BY <1>7, <1>8, <3>1
  <2> QED
    BY <1>6, <1>9, <2>4, <2>5 DEF SequencesDense
<1>16. PositionOK'
  <2>1. manifests' # {}
    BY <1>3, <1>7
  <2>2. runtime.boot \in Boots
    BY DEF IInv, Traffic, PositionOK, ManifestWaits
  <2> QED
    BY <1>1, <1>6, <1>9, <2>1, <2>2 DEF PositionOK, ManifestWaits
<1>17. RequestsOK'
  BY <1>1, <1>11 DEF RequestsOK
<1>18. StoredOK'
  BY <1>1, <1>7 DEF IInv, Traffic, StoredOK
<1>19. BeatsOK'
  BY <1>1, <1>6 DEF IInv, Traffic, BeatsOK, KnownManifest
<1> QED
  BY <1>1, <1>12, <1>13, <1>14, <1>15, <1>16, <1>17, <1>18, <1>19
  DEF IInv, Tables, Traffic, AwaitedNeverConflicts

LEMMA ManifestReplyPreserves ==
  ASSUME IInv, ManifestReply
  PROVE  IInv'
<1>1. /\ pc \in ManifestWaits /\ reply # "none"
      /\ UNCHANGED <<backend, requests, built, world>>
  BY DEF ManifestReply, ManifestWaits
<1>2. CASE reply = "ok"
  BY <1>1, <1>2, ConfirmPreserves DEF ManifestReply
<1>3. CASE reply # "ok"
  <2>1. Step("start") /\ UNCHANGED <<disk, backend, requests, built, world>>
    BY <1>1, <1>3 DEF ManifestReply
  <2> QED
    BY <1>1, <2>1, StepPreserves DEF ManifestWaits
<1> QED
  BY <1>2, <1>3

\* The heartbeat of a call that builds one is of the types it is stored in and
\* names a manifest the backend has.
LEMMA NewBeatFacts ==
  ASSUME IInv, pc = "beat", built.beats < MaxBeats
  PROVE  /\ NewBeat \in Beats
         /\ NewBeat.sequence = runtime.beatAcked + 1
         /\ KnownManifest(NewBeat.manifest)
<1>1. Latest \in Confirmed
  BY LatestConfirmed DEF IInv, Tables, Traffic, PositionOK
<1>2. Latest \in Manifests /\ stored[Latest.sequence] = Latest.id
  BY <1>1 DEF IInv, TypeOK, Tables, ConfirmedIsStored, Confirmed
<1>3. Latest.id \in ManifestIds /\ Latest.sequence \in DOMAIN stored
  BY <1>2 DEF IInv, TypeOK, Manifests
<1>4. built.beats + 1 \in BeatIds /\ runtime.beatAcked + 1 \in 0 .. MaxBeats - 1
  <2>1. /\ built.beats \in 0 .. MaxBeats /\ runtime.beatAcked \in -1 .. MaxBeats - 1
        /\ runtime.beatAcked < built.beats
    BY DEF IInv, TypeOK, Tables, NumbersOK
  <2> QED
    BY <2>1, PresenceAssumption DEF BeatIds
<1>5. runtime.boot \in Boots
  BY DEF IInv, Traffic, PositionOK
<1>6. NewBeat \in Beats
  BY <1>3, <1>4, <1>5 DEF NewBeat, Beats
<1>7. KnownManifest(Latest.id)
  BY <1>2, <1>3 DEF KnownManifest
<1> QED
  BY <1>6, <1>7 DEF NewBeat

\* A heartbeat that is pending from now on is sent.
LEMMA BeatStep ==
  ASSUME IInv, \A r \in requests : ~ r.awaited, pc # "down",
         NEW b \in Beats,
         runtime' = [runtime EXCEPT !.beatPending = b],
         built' \in [manifests : 0 .. MaxManifests, beats : 0 .. MaxBeats],
         built'.manifests = built.manifests, built.beats <= built'.beats,
         b.sequence = runtime.beatAcked + 1, b.sequence < built'.beats,
         KnownManifest(b.manifest),
         runtime.beatPending \in {b, NoBeat},
         requests' = requests \union {BeatRequest(b)},
         pc' = "wait_beat", reply' = "none", refresh' = refresh,
         UNCHANGED <<manifests, backend, world>>
  PROVE  IInv'
<1> DEFINE q == BeatRequest(b)
<1>1. /\ manifests' = manifests /\ stored' = stored /\ presence' = presence
      /\ platform' = platform /\ aged' = aged /\ faults' = faults
      /\ recoveries' = recoveries /\ scheduler' = scheduler
      /\ Pending' = Pending /\ Confirmed' = Confirmed
      /\ requests' = requests \union {q}
  BY DEF backend, world, Pending, Confirmed
<1>2. q \in Heartbeat /\ q.kind = "beat" /\ q.beat = b
  BY DEF BeatRequest, Heartbeat
<1> HIDE DEF q
<1>3. b # NoBeat
  BY DEF Beats, NoBeat, BeatIds, None
<1>4. runtime \in [boot : 0 .. MaxBoots, beatAcked : -1 .. MaxBeats - 1,
                   beatPending : Beats \union {NoBeat},
                   manifestAcked : -1 .. MaxManifests - 1]
  BY DEF IInv, TypeOK
<1>5. /\ runtime'.beatPending = b
      /\ runtime'.boot = runtime.boot
      /\ runtime'.beatAcked = runtime.beatAcked
      /\ runtime'.manifestAcked = runtime.manifestAcked
      /\ runtime' \in [boot : 0 .. MaxBoots, beatAcked : -1 .. MaxBeats - 1,
                       beatPending : Beats \union {NoBeat},
                       manifestAcked : -1 .. MaxManifests - 1]
  BY <1>4
<1>6. TypeOK'
  <2>1. requests' \subseteq Manifest \union Heartbeat
    BY <1>1, <1>2 DEF IInv, TypeOK
  <2> QED
    BY <1>1, <1>5, <2>1 DEF IInv, TypeOK, Labels, Waiting
<1>7. Tables'
  <2>1. runtime.beatAcked < built'.beats
    BY <1>4
  <2> QED
    BY <1>1, <1>5, <2>1 DEF IInv, Tables, NumbersOK, ConfirmedIsStored, SequencesDense
<1>8. PositionOK'
  BY <1>1, <1>3, <1>5 DEF IInv, Traffic, PositionOK, ManifestWaits
<1>9. RequestsOK'
  BY <1>1, <1>2, <1>5 DEF RequestsOK
<1>10. StoredOK'
  BY <1>1, <1>2 DEF IInv, Traffic, StoredOK
<1>11. BeatsOK'
  <2>1. KnownManifest(b.manifest)' /\ \A r \in requests : r.kind = "beat" => KnownManifest(r.beat.manifest)'
    BY <1>1 DEF IInv, Traffic, BeatsOK, KnownManifest
  <2>2. NoBeat.sequence <= runtime.beatAcked
    BY <1>4 DEF NoBeat
  <2>3. ASSUME recoveries = 0
        PROVE  /\ \A r \in requests : r.kind = "beat" =>
                    r.beat = b \/ r.beat.sequence <= runtime.beatAcked
               /\ presence = b \/ presence.sequence <= runtime.beatAcked
    BY <2>2, <2>3 DEF IInv, Traffic, BeatsOK
  <2> QED
    BY <1>1, <1>2, <1>5, <2>1, <2>3 DEF BeatsOK
<1> QED
  BY <1>6, <1>7, <1>8, <1>9, <1>10, <1>11 DEF IInv, Traffic, AwaitedNeverConflicts

LEMMA BeatPreserves ==
  ASSUME IInv, Beat
  PROVE  IInv'
<1>1. /\ pc = "beat" /\ pc' = "wait_beat" /\ reply' = "none" /\ refresh' = refresh
      /\ UNCHANGED <<manifests, backend, world>>
  BY DEF Beat, Step, Goto
<1>2. \A r \in requests : ~ r.awaited
  BY <1>1, NothingAwaited DEF Waiting
<1>3. /\ built \in [manifests : 0 .. MaxManifests, beats : 0 .. MaxBeats]
      /\ runtime \in [boot : 0 .. MaxBoots, beatAcked : -1 .. MaxBeats - 1,
                      beatPending : Beats \union {NoBeat},
                      manifestAcked : -1 .. MaxManifests - 1]
      /\ runtime.beatAcked < built.beats
  BY DEF IInv, TypeOK, Tables, NumbersOK
<1>4. CASE /\ runtime.beatPending # NoBeat
           /\ SendBeat(runtime.beatPending)
           /\ UNCHANGED <<runtime, built>>
  <2>1. PICK b : b = runtime.beatPending
    OBVIOUS
  <2>2. /\ b \in Beats /\ runtime' = [runtime EXCEPT !.beatPending = b]
        /\ built' = built /\ requests' = requests \union {BeatRequest(b)}
    BY <1>3, <1>4, <2>1 DEF SendBeat, Send, BeatRequest
  <2>3. b.sequence = runtime.beatAcked + 1 /\ b.sequence < built.beats
    BY <1>4, <2>1 DEF IInv, Tables, NumbersOK
  <2>4. KnownManifest(b.manifest)
    BY <1>4, <2>1 DEF IInv, Traffic, BeatsOK
  <2> QED
    BY <1>1, <1>2, <1>3, <2>1, <2>2, <2>3, <2>4, BeatStep
<1>5. CASE /\ runtime.beatPending = NoBeat
           /\ built.beats < MaxBeats
           /\ runtime' = [runtime EXCEPT !.beatPending = NewBeat]
           /\ built' = [built EXCEPT !.beats = @ + 1]
           /\ SendBeat(NewBeat)
  <2>1. PICK b : b = NewBeat
    OBVIOUS
  <2>2. b \in Beats /\ b.sequence = runtime.beatAcked + 1 /\ KnownManifest(b.manifest)
    BY <1>1, <1>5, <2>1, NewBeatFacts
  <2>3. /\ built' \in [manifests : 0 .. MaxManifests, beats : 0 .. MaxBeats]
        /\ built'.manifests = built.manifests /\ built'.beats = built.beats + 1
        /\ built.beats <= built'.beats
    BY <1>3, <1>5, PresenceAssumption
  <2>4. b.sequence < built'.beats
    BY <1>3, <2>2, <2>3
  <2>5. /\ runtime' = [runtime EXCEPT !.beatPending = b]
        /\ requests' = requests \union {BeatRequest(b)}
    BY <1>5, <2>1 DEF SendBeat, Send, BeatRequest
  <2>6. runtime.beatPending \in {b, NoBeat}
    BY <1>5
  <2> QED
    BY <1>1, <1>2, <2>2, <2>3, <2>4, <2>5, <2>6, BeatStep
<1> QED
  BY <1>4, <1>5 DEF Beat

LEMMA BeatReplyPreserves ==
  ASSUME IInv, BeatReply
  PROVE  IInv'
<1>1. /\ pc = "wait_beat" /\ reply # "none"
      /\ manifests' = manifests /\ stored' = stored /\ presence' = presence
      /\ requests' = requests /\ built' = built /\ platform' = platform
      /\ aged' = aged /\ faults' = faults /\ recoveries' = recoveries
      /\ scheduler' = scheduler /\ Pending' = Pending /\ Confirmed' = Confirmed
  BY DEF BeatReply, backend, world, Pending, Confirmed
<1>2. CASE reply # "ok"
  <2>1. Step("start") /\ UNCHANGED <<disk, backend, requests, built, world>>
    BY <1>2 DEF BeatReply, disk
  <2> QED
    BY <1>1, <2>1, StepPreserves
<1>3. CASE reply = "ok"
  <2>1. PICK b : b = runtime.beatPending
    OBVIOUS
  <2>2. /\ b \in Beats /\ b.sequence = runtime.beatAcked + 1
        /\ b.sequence < built.beats
        /\ runtime.boot \in Boots
    BY <1>1, <2>1 DEF IInv, TypeOK, Tables, NumbersOK, Traffic, PositionOK
  <2>3. /\ runtime \in [boot : 0 .. MaxBoots, beatAcked : -1 .. MaxBeats - 1,
                        beatPending : Beats \union {NoBeat},
                        manifestAcked : -1 .. MaxManifests - 1]
        /\ runtime' = [runtime EXCEPT !.beatAcked = b.sequence, !.beatPending = NoBeat]
        /\ b.sequence \in -1 .. MaxBeats - 1
    BY SMTT(30), <1>3, <2>1, <2>2, PresenceAssumption DEF BeatReply, IInv, TypeOK, Beats
  <2>4. /\ runtime'.beatPending = NoBeat
        /\ runtime'.boot = runtime.boot
        /\ runtime'.beatAcked = b.sequence
        /\ runtime'.manifestAcked = runtime.manifestAcked
        /\ runtime' \in [boot : 0 .. MaxBoots, beatAcked : -1 .. MaxBeats - 1,
                         beatPending : Beats \union {NoBeat},
                         manifestAcked : -1 .. MaxManifests - 1]
    BY <2>3
  <2>5. pc' = "work" /\ reply' = "none" /\ refresh' = refresh
    BY <1>3 DEF BeatReply, Step, Goto
  <2>6. \A r \in requests : ~ r.awaited
    BY <1>1, NothingAwaited
  <2>7. TypeOK'
    BY <1>1, <2>4, <2>5 DEF IInv, TypeOK, Labels
  <2>8. Tables'
    BY <1>1, <2>2, <2>4 DEF IInv, Tables, NumbersOK, ConfirmedIsStored, SequencesDense
  <2>9. PositionOK' /\ RequestsOK'
    BY <1>1, <2>2, <2>4, <2>5, <2>6 DEF PositionOK, RequestsOK, ManifestWaits
  <2>10. StoredOK'
    BY <1>1 DEF IInv, Traffic, StoredOK
  <2>11. BeatsOK'
    <3>1. \A r \in requests : r.kind = "beat" => r.beat.sequence \in Int
      BY DEF IInv, TypeOK, Manifest, Heartbeat, Beats
    <3>2. presence.sequence \in Int /\ runtime.beatAcked \in Int /\ b.sequence \in Int
      BY <2>2, <2>3 DEF IInv, TypeOK, Beats, NoBeat
    <3>3. ASSUME recoveries = 0
          PROVE  /\ \A r \in requests : r.kind = "beat" => r.beat.sequence <= b.sequence
                 /\ presence.sequence <= b.sequence
      BY <2>1, <2>2, <3>1, <3>2, <3>3 DEF IInv, Traffic, BeatsOK
    <3>4. \A r \in requests : r.kind = "beat" => KnownManifest(r.beat.manifest)
      BY DEF IInv, Traffic, BeatsOK
    <3> QED
      BY <1>1, <2>4, <3>3, <3>4 DEF BeatsOK, KnownManifest
  <2> QED
    BY <2>5, <2>7, <2>8, <2>9, <2>10, <2>11 DEF IInv, Traffic, AwaitedNeverConflicts
<1> QED
  BY <1>2, <1>3

-----------------------------------------------------------------------------
(* Faults and the operator *)

\* The process forgets what it waited for; the requests stay on their way.
LEMMA ForgetStep ==
  ASSUME IInv, requests' = Forgotten, TypeOK',
         UNCHANGED <<disk, backend, built, recoveries>>,
         pc' \in {pc, "down"}, reply' \in {"none", "error"}
  PROVE  IInv'
<1> DEFINE F(r) == [r EXCEPT !.awaited = FALSE]
<1>1. /\ runtime' = runtime /\ manifests' = manifests /\ stored' = stored
      /\ presence' = presence /\ built' = built
      /\ recoveries' = recoveries /\ Pending' = Pending /\ Confirmed' = Confirmed
  BY DEF disk, backend, Pending, Confirmed
<1>2. \A r \in requests : /\ ~ F(r).awaited /\ F(r).kind = r.kind
                          /\ r.kind = "manifest" =>
                               F(r).id = r.id /\ F(r).sequence = r.sequence
                          /\ r.kind = "beat" => F(r).beat = r.beat
  BY DEF IInv, TypeOK, Manifest, Heartbeat
<1>3. \A q \in requests' : \E r \in requests : q = F(r)
  BY DEF Forgotten
<1> HIDE DEF F
<1>4. Tables'
  BY <1>1 DEF IInv, Tables, NumbersOK, ConfirmedIsStored, SequencesDense
<1>5. PositionOK'
  BY <1>1 DEF IInv, Traffic, PositionOK, ManifestWaits
<1>6. RequestsOK'
  BY <1>2, <1>3 DEF RequestsOK
<1>7. StoredOK'
  BY <1>1, <1>2, <1>3 DEF IInv, Traffic, StoredOK
<1>8. BeatsOK'
  BY <1>1, <1>2, <1>3 DEF IInv, Traffic, BeatsOK, KnownManifest
<1> QED
  BY <1>4, <1>5, <1>6, <1>7, <1>8 DEF IInv, Traffic, AwaitedNeverConflicts

LEMMA ForgottenType ==
  ASSUME TypeOK
  PROVE  Forgotten \subseteq Manifest \union Heartbeat
<1> SUFFICES ASSUME NEW r \in requests
             PROVE  [r EXCEPT !.awaited = FALSE] \in Manifest \union Heartbeat
  BY DEF Forgotten
<1>1. CASE r \in Manifest
  <2>1. [r EXCEPT !.awaited = FALSE] \in Manifest
    BY <1>1 DEF Manifest
  <2> QED
    BY <2>1
<1>2. CASE r \in Heartbeat
  <2>1. [r EXCEPT !.awaited = FALSE] \in Heartbeat
    BY <1>2 DEF Heartbeat
  <2> QED
    BY <2>1
<1> QED
  BY <1>1, <1>2 DEF TypeOK

LEMMA CrashPreserves ==
  ASSUME IInv, Crash
  PROVE  IInv'
<1>1. /\ pc' = "down" /\ reply' = "none" /\ refresh' = refresh
      /\ requests' = Forgotten /\ faults < MaxFaults /\ faults' = faults + 1
      /\ UNCHANGED <<disk, backend, built, recoveries>>
      /\ UNCHANGED <<platform, aged, scheduler>>
  BY DEF Crash, Step, Goto
<1>2. faults' \in 0 .. MaxFaults
  BY <1>1, PresenceAssumption DEF IInv, TypeOK
<1>3. TypeOK'
  BY <1>1, <1>2, ForgottenType DEF IInv, TypeOK, disk, backend, Labels
<1> QED
  BY <1>1, <1>3, ForgetStep

LEMMA TimesOutPreserves ==
  ASSUME IInv, TimesOut
  PROVE  IInv'
<1>1. /\ pc' = pc /\ reply' = "error" /\ refresh' = refresh
      /\ requests' = Forgotten /\ faults < MaxFaults /\ faults' = faults + 1
      /\ UNCHANGED <<disk, backend, built, recoveries>>
      /\ UNCHANGED <<platform, aged, scheduler>>
  BY DEF TimesOut
<1>2. faults' \in 0 .. MaxFaults
  BY <1>1, PresenceAssumption DEF IInv, TypeOK
<1>3. TypeOK'
  BY <1>1, <1>2, ForgottenType DEF IInv, TypeOK, disk, backend
<1> QED
  BY <1>1, <1>3, ForgetStep

LEMMA PlatformChangesPreserves ==
  ASSUME IInv, PlatformChanges
  PROVE  IInv'
<1>1. /\ UNCHANGED <<disk, process, backend, requests, built, aged,
                     faults, recoveries, scheduler>>
      /\ platform.static + platform.live < MaxChanges
      /\ \/ platform' = [platform EXCEPT !.static = platform.static + 1]
         \/ platform' = [platform EXCEPT !.live = platform.live + 1]
  BY DEF PlatformChanges
<1>2. platform \in [static : 0 .. MaxChanges, live : 0 .. MaxChanges]
  BY DEF IInv, TypeOK, Platforms
<1>3. platform.static + 1 \in 0 .. MaxChanges /\ platform.live + 1 \in 0 .. MaxChanges
  BY <1>1, <1>2, PresenceAssumption
<1>4. platform' \in Platforms
  BY <1>1, <1>2, <1>3 DEF Platforms
<1>5. TypeOK'
  BY <1>1, <1>4 DEF IInv, TypeOK, disk, process, backend
<1>6. UNCHANGED <<disk, pc, reply, backend, requests, built, recoveries>>
  BY <1>1 DEF process
<1> QED
  BY <1>5, <1>6, WorldStep

LEMMA AgePreserves ==
  ASSUME IInv, Age
  PROVE  IInv'
<1>1. UNCHANGED <<disk, process, backend, requests, built, platform,
                  faults, recoveries, scheduler>>
  BY DEF Age
<1>2. PICK b \in InFlight \union ({runtime.beatPending} \ {NoBeat}) :
        aged' = aged \union {b.id}
  BY DEF Age
<1>3. InFlight \subseteq Beats
  BY DEF InFlight, IInv, TypeOK, Manifest, Heartbeat
<1>4. runtime.beatPending \in Beats \union {NoBeat}
  BY DEF IInv, TypeOK
<1>5. b \in Beats
  BY <1>2, <1>3, <1>4
<1>6. b.id \in BeatIds
  BY <1>5 DEF Beats
<1>7. TypeOK'
  BY <1>1, <1>2, <1>6 DEF IInv, TypeOK, disk, process, backend
<1>8. UNCHANGED <<disk, pc, reply, backend, requests, built, recoveries>>
  BY <1>1 DEF process
<1> QED
  BY <1>7, <1>8, WorldStep

LEMMA RecoverPreserves ==
  ASSUME IInv, Recover
  PROVE  IInv'
<1>1. /\ pc = "down" /\ pc' = pc /\ reply' = reply /\ refresh' = refresh
      /\ stored' = stored /\ presence' = presence /\ built' = built
      /\ platform' = platform /\ aged' = aged /\ faults' = faults
      /\ scheduler' = scheduler
      /\ recoveries < MaxRecoveries /\ recoveries' = recoveries + 1
      /\ manifests' = {} /\ requests' = requests
      /\ runtime' = [NewRuntime EXCEPT !.boot = runtime.boot]
  BY DEF Recover, process, backend
<1>2. recoveries' \in 0 .. MaxRecoveries /\ recoveries' # 0
  BY SMTT(30), <1>1, PresenceAssumption DEF IInv, TypeOK
<1>3. /\ runtime'.boot = runtime.boot /\ runtime'.beatAcked = -1
      /\ runtime'.beatPending = NoBeat /\ runtime'.manifestAcked = -1
      /\ runtime' \in [boot : 0 .. MaxBoots, beatAcked : -1 .. MaxBeats - 1,
                       beatPending : Beats \union {NoBeat},
                       manifestAcked : -1 .. MaxManifests - 1]
  <2>1. /\ runtime.boot \in 0 .. MaxBoots
        /\ -1 \in -1 .. MaxBeats - 1 /\ -1 \in -1 .. MaxManifests - 1
    BY PresenceAssumption DEF IInv, TypeOK
  <2> QED
    BY <1>1, <2>1 DEF NewRuntime
<1>4. Pending' = {} /\ Confirmed' = {}
  BY <1>1 DEF Pending, Confirmed
<1>5. TypeOK'
  BY <1>1, <1>2, <1>3 DEF IInv, TypeOK
<1>6. NumbersOK'
  <2>1. built.manifests \in Nat /\ built.beats \in Nat
    BY DEF IInv, TypeOK
  <2> QED
    BY <1>1, <1>3, <2>1 DEF NumbersOK
<1>7. ConfirmedIsStored' /\ SequencesDense'
  <2>1. {m.sequence : m \in {}} = {} /\ 0 .. -1 = {}
    OBVIOUS
  <2> QED
    BY <1>1, <1>3, <1>4, <2>1 DEF ConfirmedIsStored, SequencesDense
<1>8. PositionOK' /\ StoredOK'
  BY <1>1, <1>2 DEF PositionOK, StoredOK, ManifestWaits
<1>9. RequestsOK'
  <2>1. \A r \in requests : ~ r.awaited
    BY <1>1, NothingAwaited DEF Waiting
  <2> QED
    BY <1>1, <2>1 DEF RequestsOK
<1>10. BeatsOK'
  BY <1>1, <1>2, <1>3 DEF IInv, Traffic, BeatsOK, KnownManifest
<1> QED
  BY <1>2, <1>5, <1>6, <1>7, <1>8, <1>9, <1>10
  DEF IInv, Tables, Traffic, AwaitedNeverConflicts

-----------------------------------------------------------------------------
(* The backend *)

\* A request leaves and, if the process waits for it, its answer arrives.
LEMMA AnswerTraffic ==
  ASSUME IInv, NEW r \in requests, NEW answer \in {"ok", "conflict", "error"},
         requests' = requests \ {r},
         reply' = IF r.awaited THEN answer ELSE reply,
         UNCHANGED <<disk, pc>>
  PROVE  RequestsOK' /\ reply' \in {"none", "ok", "conflict", "error"}
<1>1. runtime' = runtime /\ pc' = pc /\ Pending' = Pending
  BY DEF disk, Pending
<1>2. CASE r.awaited
  <2>1. \A q \in requests' : ~ q.awaited
    BY <1>2 DEF IInv, Traffic, RequestsOK
  <2> QED
    BY <1>2, <2>1 DEF RequestsOK
<1>3. CASE ~ r.awaited
  <2>1. reply' = reply
    BY <1>3
  <2> QED
    BY <1>1, <2>1 DEF IInv, TypeOK, Traffic, RequestsOK
<1> QED
  BY <1>2, <1>3

LEMMA LoseRequestPreserves ==
  ASSUME IInv, NEW r \in requests, LoseRequest(r)
  PROVE  IInv'
<1>1. /\ runtime' = runtime /\ manifests' = manifests /\ stored' = stored
      /\ presence' = presence /\ built' = built /\ pc' = pc /\ reply' = reply
      /\ refresh' = refresh
      /\ recoveries' = recoveries /\ Pending' = Pending /\ Confirmed' = Confirmed
      /\ platform' = platform /\ aged' = aged /\ faults' = faults
      /\ scheduler' = scheduler
      /\ requests' = requests \ {r} /\ ~ r.awaited
  BY DEF LoseRequest, disk, process, backend, world, Pending, Confirmed
<1>2. TypeOK'
  BY <1>1 DEF IInv, TypeOK
<1>3. Tables'
  BY <1>1 DEF IInv, Tables, NumbersOK, ConfirmedIsStored, SequencesDense
<1>4. PositionOK' /\ RequestsOK' /\ StoredOK'
  BY <1>1 DEF IInv, Traffic, PositionOK, RequestsOK, StoredOK
<1>5. BeatsOK'
  BY <1>1 DEF IInv, Traffic, BeatsOK, KnownManifest
<1> QED
  BY <1>1, <1>2, <1>3, <1>4, <1>5 DEF IInv, Traffic, AwaitedNeverConflicts

\* publish_manifest: a sequence that is known is known with the same document,
\* as long as the agent kept its tables.
LEMMA PublishPreserves ==
  ASSUME IInv, NEW r \in requests, PublishManifest(r)
  PROVE  IInv'
<1>1. PICK answer \in {"ok", "conflict"} :
        /\ requests' = requests \ {r}
        /\ reply' = IF r.awaited THEN answer ELSE reply
        /\ UNCHANGED <<disk, pc, refresh, built, world>>
        /\ presence' = presence
        /\ \/ /\ stored[r.sequence] = None /\ answer = "ok"
              /\ stored' = [stored EXCEPT ![r.sequence] = r.id]
           \/ /\ stored[r.sequence] = r.id /\ answer = "ok" /\ stored' = stored
           \/ /\ stored[r.sequence] # None /\ stored[r.sequence] # r.id
              /\ answer = "conflict" /\ stored' = stored
  BY DEF PublishManifest, Respond
<1>2. /\ runtime' = runtime /\ manifests' = manifests
      /\ built' = built /\ pc' = pc /\ refresh' = refresh
      /\ recoveries' = recoveries /\ Pending' = Pending /\ Confirmed' = Confirmed
      /\ platform' = platform /\ aged' = aged /\ faults' = faults
      /\ scheduler' = scheduler
  BY <1>1 DEF disk, world, Pending, Confirmed
<1>3. /\ r.kind = "manifest" /\ r.id \in ManifestIds
      /\ r.sequence \in 0 .. MaxManifests - 1
  BY DEF PublishManifest, IInv, TypeOK, Manifest, Heartbeat
<1>4. /\ stored \in [0 .. MaxManifests - 1 -> ManifestIds \union {None}]
      /\ None \notin ManifestIds
  BY DEF IInv, TypeOK, ManifestIds, None
<1>5. /\ stored' \in [0 .. MaxManifests - 1 -> ManifestIds \union {None}]
      /\ \A s \in 0 .. MaxManifests - 1 :
           stored'[s] # stored[s] => /\ stored[s] = None /\ s = r.sequence
                                     /\ stored'[s] = r.id
      /\ answer = "ok" => stored'[r.sequence] = r.id
      /\ stored[r.sequence] # None => stored' = stored
  <2>1. CASE stored' = stored /\ (answer = "ok" => stored[r.sequence] = r.id)
    BY <1>4, <2>1
  <2>2. CASE /\ stored[r.sequence] = None /\ answer = "ok"
             /\ stored' = [stored EXCEPT ![r.sequence] = r.id]
    BY <1>3, <1>4, <2>2
  <2> QED
    BY <1>1, <2>1, <2>2
<1>6. RequestsOK' /\ reply' \in {"none", "ok", "conflict", "error"}
  BY <1>1, <1>2, AnswerTraffic
<1>7. TypeOK'
  BY <1>1, <1>2, <1>5, <1>6 DEF IInv, TypeOK
<1>8. ASSUME NEW m \in manifests, stored[m.sequence] = m.id
      PROVE  stored'[m.sequence] = m.id
  <2>1. m.sequence \in 0 .. MaxManifests - 1 /\ m.id \in ManifestIds
    BY DEF IInv, TypeOK, Manifests
  <2> QED
    BY <1>4, <1>5, <1>8, <2>1
<1>9. Tables'
  <2>1. ConfirmedIsStored'
    BY <1>2, <1>8 DEF IInv, Tables, ConfirmedIsStored, Confirmed
  <2> QED
    BY <1>2, <2>1 DEF IInv, Tables, NumbersOK, SequencesDense
<1>10. PositionOK'
  <2>1. ASSUME pc \in ManifestWaits, reply' = "ok", NEW m \in Pending
        PROVE  stored'[m.sequence] = m.id
    <3>1. CASE r.awaited
      <4>1. m.id = r.id /\ m.sequence = r.sequence
        BY <1>3, <3>1 DEF IInv, Traffic, RequestsOK
      <4>2. answer = "ok"
        BY <1>1, <2>1, <3>1
      <4> QED
        BY <1>5, <4>1, <4>2
    <3>2. CASE ~ r.awaited
      <4>1. stored[m.sequence] = m.id
        BY <1>1, <2>1, <3>2 DEF IInv, Traffic, PositionOK
      <4> QED
        BY <1>8, <4>1 DEF Pending
    <3> QED
      BY <3>1, <3>2
  <2> QED
    BY <1>2, <2>1 DEF IInv, Traffic, PositionOK
<1>11. StoredOK'
  <2>1. ASSUME recoveries = 0, NEW s \in DOMAIN stored', stored'[s] # None
        PROVE  \E m \in manifests : m.sequence = s /\ m.id = stored'[s]
    <3>1. s \in 0 .. MaxManifests - 1 /\ s \in DOMAIN stored
      BY <1>4, <1>5
    <3>2. CASE stored'[s] = stored[s]
      BY <2>1, <3>1, <3>2 DEF IInv, Traffic, StoredOK
    <3>3. CASE stored'[s] # stored[s]
      BY <1>3, <1>5, <2>1, <3>1, <3>3 DEF IInv, Traffic, StoredOK
    <3> QED
      BY <3>2, <3>3
  <2>2. recoveries = 0 => \A q \in requests' : q.kind = "manifest" =>
          \E m \in manifests : m.sequence = q.sequence /\ m.id = q.id
    BY <1>1 DEF IInv, Traffic, StoredOK
  <2> QED
    BY <1>2, <2>1, <2>2 DEF StoredOK
<1>12. BeatsOK'
  <2>1. ASSUME NEW b \in Beats, KnownManifest(b.manifest)
        PROVE  KnownManifest(b.manifest)'
    <3>1. PICK k \in DOMAIN stored : stored[k] = b.manifest
      BY <2>1 DEF KnownManifest
    <3>2. b.manifest \in ManifestIds
      BY DEF Beats
    <3>3. k \in DOMAIN stored' /\ stored'[k] = b.manifest
      BY <1>4, <1>5, <3>1, <3>2
    <3> QED
      BY <3>3 DEF KnownManifest
  <2>2. \A q \in requests : q.kind = "beat" => q.beat \in Beats
    BY DEF IInv, TypeOK, Manifest, Heartbeat
  <2>3. PICK p : p = runtime.beatPending
    OBVIOUS
  <2>4. \A q \in requests : q.kind = "beat" => KnownManifest(q.beat.manifest)'
    BY <2>1, <2>2 DEF IInv, Traffic, BeatsOK
  <2>5. p # NoBeat => KnownManifest(p.manifest)'
    BY <2>1, <2>3 DEF IInv, TypeOK, Traffic, BeatsOK
  <2>6. recoveries = 0 =>
          /\ \A q \in requests : q.kind = "beat" =>
               q.beat = runtime.beatPending \/ q.beat.sequence <= runtime.beatAcked
          /\ presence = runtime.beatPending \/ presence.sequence <= runtime.beatAcked
    BY DEF IInv, Traffic, BeatsOK
  <2>7. requests' \subseteq requests /\ presence' = presence
    BY <1>1
  <2>8. \A q \in requests' : q.kind = "beat" => KnownManifest(q.beat.manifest)'
    BY <2>4, <2>7
  <2> QED
    BY <1>2, <2>3, <2>5, <2>6, <2>7, <2>8 DEF BeatsOK, KnownManifest
<1>13. AwaitedNeverConflicts'
  <2>1. ASSUME recoveries = 0
        PROVE  stored[r.sequence] \in {None, r.id}
    <3>1. PICK m \in manifests : m.sequence = r.sequence /\ m.id = r.id
      BY <1>3, <2>1 DEF IInv, Traffic, StoredOK
    <3>2. CASE stored[r.sequence] # None
      <4>1. r.sequence \in DOMAIN stored
        BY <1>3, <1>4
      <4>2. PICK n \in manifests : n.sequence = r.sequence /\ n.id = stored[r.sequence]
        BY <2>1, <3>2, <4>1 DEF IInv, Traffic, StoredOK
      <4>3. m = n
        BY <3>1, <4>2 DEF IInv, Tables, SequencesDense
      <4> QED
        BY <3>1, <4>2, <4>3
    <3> QED
      BY <3>2
  <2> QED
    BY <1>1, <1>2, <2>1 DEF IInv, AwaitedNeverConflicts
<1> QED
  BY <1>6, <1>7, <1>9, <1>10, <1>11, <1>12, <1>13 DEF IInv, Traffic

\* _presence: what the agent waits for is refused only for its age.
LEMMA AcceptBeatPreserves ==
  ASSUME IInv, NEW r \in requests, AcceptBeat(r)
  PROVE  IInv'
<1>1. PICK b : b = r.beat
  OBVIOUS
<1>2. PICK answer \in {"ok", "conflict", "error"} :
        /\ Respond(r, answer) /\ stored' = stored
        /\ presence' = presence \/ presence' = b
        /\ answer = "conflict" =>
             \/ ~ KnownManifest(b.manifest)
             \/ b.sequence < presence.sequence
             \/ b.sequence = presence.sequence /\ b # presence
  BY <1>1 DEF AcceptBeat
<1>3. /\ runtime' = runtime /\ manifests' = manifests
      /\ built' = built /\ pc' = pc /\ refresh' = refresh
      /\ recoveries' = recoveries /\ Pending' = Pending /\ Confirmed' = Confirmed
      /\ platform' = platform /\ aged' = aged /\ faults' = faults
      /\ scheduler' = scheduler /\ stored' = stored
      /\ requests' = requests \ {r}
      /\ reply' = IF r.awaited THEN answer ELSE reply
      /\ UNCHANGED <<disk, pc>>
  BY <1>2 DEF Respond, disk, world, Pending, Confirmed
<1>4. r.kind = "beat" /\ b \in Beats
  BY <1>1 DEF AcceptBeat, IInv, TypeOK, Manifest, Heartbeat
<1>5. RequestsOK' /\ reply' \in {"none", "ok", "conflict", "error"}
  BY <1>3, AnswerTraffic
<1>6. presence' \in Beats \union {NoBeat}
  BY <1>2, <1>4 DEF IInv, TypeOK
<1>7. TypeOK'
  BY <1>3, <1>5, <1>6 DEF IInv, TypeOK
<1>8. Tables'
  BY <1>3 DEF IInv, Tables, NumbersOK, ConfirmedIsStored, SequencesDense
<1>9. PositionOK'
  <2>1. CASE r.awaited
    BY <1>3, <1>4, <2>1 DEF IInv, Traffic, PositionOK, RequestsOK, ManifestWaits
  <2>2. CASE ~ r.awaited
    BY <1>3, <2>2 DEF IInv, Traffic, PositionOK
  <2> QED
    BY <2>1, <2>2
<1>10. StoredOK'
  BY <1>3 DEF IInv, Traffic, StoredOK
<1>11. BeatsOK'
  BY <1>1, <1>2, <1>3, <1>4 DEF IInv, Traffic, BeatsOK, KnownManifest
<1>12. AwaitedNeverConflicts'
  <2>1. ASSUME recoveries = 0, r.awaited
        PROVE  answer # "conflict"
    <3>1. b = runtime.beatPending /\ pc = "wait_beat"
      BY <1>1, <1>4, <2>1 DEF IInv, Traffic, RequestsOK
    <3>2. b.sequence = runtime.beatAcked + 1
      BY <3>1 DEF IInv, Tables, NumbersOK, Traffic, PositionOK
    <3>3. KnownManifest(b.manifest)
      BY <1>1, <1>4 DEF IInv, Traffic, BeatsOK
    <3>4. presence = b \/ presence.sequence <= runtime.beatAcked
      BY <2>1, <3>1 DEF IInv, Traffic, BeatsOK
    <3>5. /\ runtime.beatAcked \in Int /\ presence.sequence \in Int
          /\ b.sequence \in Int
      BY <1>4 DEF IInv, TypeOK, Beats, NoBeat
    <3> QED
      BY <1>2, <3>2, <3>3, <3>4, <3>5
  <2> QED
    BY <1>3, <2>1 DEF IInv, AwaitedNeverConflicts
<1> QED
  BY <1>5, <1>7, <1>8, <1>9, <1>10, <1>11, <1>12 DEF IInv, Traffic

-----------------------------------------------------------------------------
(* The theorem *)

LEMMA InitEstablishes == Init => IInv
<1> SUFFICES ASSUME Init PROVE IInv
  OBVIOUS
<1>1. /\ runtime.boot = 0 /\ runtime.beatAcked = -1
      /\ runtime.beatPending = NoBeat /\ runtime.manifestAcked = -1
      /\ Pending = {} /\ Confirmed = {}
  BY DEF Init, NewRuntime, None, Pending, Confirmed
<1>2. TypeOK
  <2>1. /\ 0 \in 0 .. MaxBoots /\ -1 \in -1 .. MaxBeats - 1
        /\ -1 \in -1 .. MaxManifests - 1
    BY PresenceAssumption
  <2>2. runtime \in [boot : 0 .. MaxBoots, beatAcked : -1 .. MaxBeats - 1,
                     beatPending : Beats \union {NoBeat},
                     manifestAcked : -1 .. MaxManifests - 1]
    BY <2>1 DEF Init, NewRuntime, None
  <2>3. platform \in Platforms
    BY PresenceAssumption DEF Init, Platforms
  <2>4. /\ built \in [manifests : 0 .. MaxManifests, beats : 0 .. MaxBeats]
        /\ faults \in 0 .. MaxFaults /\ recoveries \in 0 .. MaxRecoveries
    BY PresenceAssumption DEF Init
  <2> QED
    BY <2>2, <2>3, <2>4 DEF Init, TypeOK, Labels
<1>3. NumbersOK
  BY <1>1 DEF Init, NumbersOK
<1>4. ConfirmedIsStored /\ SequencesDense
  <2>1. {m.sequence : m \in {}} = {} /\ 0 .. -1 = {}
    OBVIOUS
  <2> QED
    BY <1>1, <2>1 DEF Init, ConfirmedIsStored, SequencesDense
<1>5. PositionOK /\ RequestsOK /\ StoredOK
  BY DEF Init, PositionOK, RequestsOK, StoredOK, ManifestWaits
<1>6. BeatsOK
  BY <1>1 DEF Init, BeatsOK
<1> QED
  BY <1>2, <1>3, <1>4, <1>5, <1>6 DEF Init, IInv, Tables, Traffic, AwaitedNeverConflicts

\* Every action of the agent, the backend and the world preserves IInv.
THEOREM Invariance == Spec => []IInv
<1>1. IInv /\ [Next]_vars => IInv'
  <2> SUFFICES ASSUME IInv, [Next]_vars PROVE IInv'
    OBVIOUS
  <2>1. CASE Start
    BY <2>1, StartPreserves
  <2>2. CASE AgentStep
    BY <2>2, StartCyclePreserves, ExaminePreserves, ManifestReplyPreserves,
       BeatPreserves, SkipBeatPreserves, BeatReplyPreserves, WorkPreserves,
       RefreshPreserves DEF AgentStep
  <2>3. CASE Backend
    <3>1. PICK r \in requests : LoseRequest(r) \/ PublishManifest(r) \/ AcceptBeat(r)
      BY <2>3 DEF Backend
    <3> QED
      BY <3>1, LoseRequestPreserves, PublishPreserves, AcceptBeatPreserves
  <2>4. CASE Crash
    BY <2>4, CrashPreserves
  <2>5. CASE TimesOut
    BY <2>5, TimesOutPreserves
  <2>6. CASE PlatformChanges
    BY <2>6, PlatformChangesPreserves
  <2>7. CASE Age
    BY <2>7, AgePreserves
  <2>8. CASE Recover
    BY <2>8, RecoverPreserves
  <2>9. CASE UNCHANGED vars
    <3>1. UNCHANGED <<disk, process, backend, requests, built, world>>
      BY <2>9 DEF vars
    <3>2. TypeOK'
      BY <3>1 DEF IInv, TypeOK, disk, process, backend, world
    <3> QED
      BY <3>1, <3>2, WorldStep DEF process, world
  <2> QED
    BY <2>1, <2>2, <2>3, <2>4, <2>5, <2>6, <2>7, <2>8, <2>9 DEF Next
<1> QED
  BY <1>1, InitEstablishes, PTL DEF Spec

\* Whatever crashes, timeouts, upgrades and recoveries come between, the agent's
\* rows are numbered without a gap and confirmed as stored, and an agent that
\* kept its tables is never told it broke the protocol (capabilities.py:210-277,
\* heartbeat.py:20-51, agent_protocol.py:55-62 and 150-160).
THEOREM AgreementTheorem == Spec => []SequencesAgree
<1>1. IInv => SequencesAgree
  BY DEF IInv, Tables, SequencesAgree
<1> QED
  BY <1>1, Invariance, PTL
=============================================================================
