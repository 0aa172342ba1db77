------------------------ MODULE CredentialRotationProofs ------------------------
(***************************************************************************)
(* Proofs about CredentialRotation for any number of rotations, recovery    *)
(* tokens, installations, faults and revocations.                           *)
(***************************************************************************)
EXTENDS CredentialRotation, FiniteSetTheorems, TLAPS

-----------------------------------------------------------------------------
(* The inductive invariant *)

\* A credential in one of these states never becomes active again.
Settled(c) == credentials[c] \notin {"absent", "pending"}

\* The backend's tables agree with each other.
ActiveOK == \A c, d \in Creds : credentials[c] = "active" /\ credentials[d] = "active" => c = d
PendingOK ==
  /\ \A c \in Creds : credentials[c] = "pending" => rotations[c].state = "pending"
  /\ \A c, d \in Creds : rotations[c].state = "pending" /\ rotations[d].state = "pending" => c = d
  /\ \A c \in Creds : rotations[c].state = "pending" => rotations[c].previous \in Issued
VersionsOK == Issued = 1 .. Cardinality(Issued)
RegisteredOK ==
  \A t \in Tokens :
    IF registered[t].cred = None
      THEN registered[t].install = None
      ELSE /\ registered[t].install \in 1 .. drawn.install
           /\ Settled(registered[t].cred) /\ tokens[t] = "consumed"
CreatedOK ==
  \A k \in Keys : created[k] # None =>
    /\ k <= drawn.key
    /\ k = identity.key \/ <<created[k], k>> \in activated
ActivatedOK == \A c \in Creds, k \in Keys : <<c, k>> \in activated => created[k] = c /\ Settled(c)
TablesOK ==
  /\ ActiveOK /\ PendingOK /\ RevokedHasNoActive
  /\ VersionsOK /\ OneCredentialPerRequest
  /\ RegisteredOK /\ CreatedOK /\ ActivatedOK
  /\ agent.install <= drawn.install

\* A request names what its identity had recorded; the agent waits for one at most.
RegisterOK(r) ==
  r.op = "register" =>
    r.token \in Tokens /\ r.install \in Installs /\ r.install <= drawn.install /\ ~ r.admitted
CreateOK(r) ==
  r.op = "create" =>
    /\ r.key \in Keys /\ r.key <= drawn.key
    /\ r.key # identity.key => created[r.key] # None
ActivateOK(r) ==
  r.op = "activate" =>
    /\ r.key \in Keys /\ created[r.key] = r.cred
    /\ IF r.key = identity.key THEN identity.rotation \in {"activation_uncertain", "activated"}
                               ELSE <<r.cred, r.key>> \in activated
    /\ r.admitted /\ ~ agent.active => credentials[r.cred] # "pending"
AwaitedOK(r) ==
  r.awaited =>
    /\ pc = r.op /\ reply = NoAnswer
    /\ r.op = "register" => r.install = identity.install
    /\ r.op = "create" => r.key = identity.key
    /\ r.op = "activate" => r.key = identity.key
    /\ r.op = "beat" => r.cred = identity.active.cred
RequestOK(r) ==
  /\ r.op # "register" => r.cred \in Issued
  /\ RegisterOK(r) /\ CreateOK(r) /\ ActivateOK(r) /\ AwaitedOK(r)
RequestsOK ==
  /\ \A r \in requests : RequestOK(r)
  /\ \A r1, r2 \in requests : r1.awaited /\ r2.awaited => r1 = r2

\* The agent_identity row.
Rotating == identity.rotation \notin {"none", "revoked"}
RegisteredHere(t) == registered[t].install = identity.install
IdentityOK ==
  /\ ~ identity.exists => identity = NoIdentity
  /\ identity.exists => identity.install \in 1 .. drawn.install
  /\ ~ identity.enrolled => identity.active = NoRef /\ identity.rotation = "none"
  /\ identity.enrolled => identity.exists /\ \E t \in Tokens : RegisteredHere(t)
  /\ identity.revoked <=> identity.rotation = "revoked"
  /\ identity.active # NoRef => Settled(identity.active.cred)
RotationOK ==
  /\ Rotating => identity.key \in Keys /\ identity.key <= drawn.key
  /\ ~ Rotating => identity.key = None
  /\ IF identity.rotation \in {"pending_stored", "activation_uncertain", "activated"}
       THEN created[identity.key] # None /\ identity.pending = Ref("pending", created[identity.key])
       ELSE identity.pending = NoRef
  /\ identity.rotation # "activated" => identity.previous = NoRef
  /\ identity.rotation \in {"requested", "pending_stored"} => \A c \in Creds : <<c, identity.key>> \notin activated
  /\ identity.rotation = "activated" =>
       identity.active = identity.pending /\ <<created[identity.key], identity.key>> \in activated

\* Where the process is.
Enrolling == {"register", "keep_active", "record_active"}
Creating == {"create", "keep_pending", "record_pending"}
EnrollingOK ==
  pc \in Enrolling =>
    /\ identity.exists /\ ~ identity.enrolled
    /\ pc # "register" => reply.kind = "ok"
    /\ reply.kind = "ok" => /\ reply.cred # None
                            /\ \E t \in Tokens : RegisteredHere(t) /\ registered[t].cred = reply.cred
    /\ pc = "record_active" => Ref("active", reply.cred) \in secrets
CreatingOK ==
  pc \in Creating =>
    /\ identity.rotation = "requested"
    /\ pc # "create" => reply.kind = "ok"
    /\ reply.kind = "ok" => reply.cred # None /\ reply.cred = created[identity.key]
    /\ pc = "record_pending" => Ref("pending", reply.cred) \in secrets
ActivatingOK ==
  pc \in {"activate", "cutover"} =>
    /\ identity.rotation = "activation_uncertain"
    /\ pc = "cutover" \/ reply.kind = "ok" => <<created[identity.key], identity.key>> \in activated
FinishingOK ==
  /\ pc = "rotate" => Rotating
  /\ pc \in {"drop_previous", "clear"} => identity.rotation = "activated"
  /\ pc = "clear" => identity.previous \in {NoRef, identity.active} \/ identity.previous \notin secrets
  /\ pc \in {"ready", "beat", "purge"} => ~ Rotating
BeatingOK ==
  pc = "beat" =>
    /\ identity.rotation = "none" /\ identity.active # NoRef
    /\ reply.kind = "rejected" =>
         \/ ~ agent.active \/ credentials[identity.active.cred] # "active"
         \/ identity.active.cred \in lapsed
ErasingOK ==
  /\ pc \in {"erase", "forget"} => identity.revoked
  /\ pc = "forget" => \A ref \in {identity.active, identity.pending, identity.previous} : ref \notin secrets
  /\ pc = "purge" => purge = "begun"
  /\ purge = "begun" => identity.exists
ProcessOK ==
  EnrollingOK /\ CreatingOK /\ ActivatingOK /\ FinishingOK /\ BeatingOK /\ ErasingOK

\* What the secret store holds, and that it is what the backend accepts.
AtMostOneToken == \A t1, t2 \in Tokens : RegisteredHere(t1) /\ RegisteredHere(t2) => t1 = t2
HeldOK ==
  purge # "begun" =>
    /\ identity.enrolled /\ ~ identity.revoked => identity.active \in secrets
    /\ identity.rotation \in {"pending_stored", "activation_uncertain"} => identity.pending \in secrets
Accounted(ref) ==
  \/ ref \in {identity.active, identity.pending, identity.previous}
  \/ ~ identity.enrolled /\ \E t \in Tokens : RegisteredHere(t) /\ ref = Ref("active", registered[t].cred)
  \/ identity.rotation = "requested" /\ ref = Ref("pending", created[identity.key])
SecretsOK ==
  purge = "never" /\ (identity.exists => AtMostOneToken) => \A ref \in secrets : Accounted(ref)
Current(c) ==
  IF ~ identity.enrolled THEN \E t \in Tokens : RegisteredHere(t) /\ registered[t].cred = c
  ELSE IF /\ identity.rotation = "activation_uncertain"
          /\ <<created[identity.key], identity.key>> \in activated
    THEN c = created[identity.key] ELSE c = identity.active.cred
AcceptedOK ==
  identity.exists /\ ~ identity.revoked /\ agent.install = identity.install /\ AtMostOneToken =>
    \A c \in Active : Current(c)

IInv ==
  /\ TypeOK /\ TablesOK /\ RequestsOK /\ IdentityOK /\ RotationOK /\ ProcessOK
  /\ HeldOK /\ SecretsOK /\ AcceptedOK

-----------------------------------------------------------------------------
(* Values *)

LEMMA Bounds ==
  /\ IsFiniteSet(Tokens) /\ Cardinality(Tokens) \in Nat
  /\ MaxKeys \in Nat /\ MaxInstalls \in Nat /\ MaxKeys + Cardinality(Tokens) \in Nat
  /\ None \notin Creds /\ None \notin Keys /\ None \notin Installs
  /\ Creds \subseteq Nat /\ Keys \subseteq Nat /\ Installs \subseteq Nat
<1>1. IsFiniteSet(Tokens)
  BY CredentialAssumption, FS_Singleton, FS_Union DEF Tokens
<1>2. Cardinality(Tokens) \in Nat
  BY <1>1, FS_CardinalityType
<1>3. MaxKeys \in Nat /\ MaxInstalls \in Nat /\ MaxKeys + Cardinality(Tokens) \in Nat
  BY <1>2, CredentialAssumption
<1> QED
  BY <1>1, <1>2, <1>3 DEF Creds, Keys, Installs, None

LEMMA Numbers ==
  /\ \A c \in Creds : c \in Nat /\ c # None
  /\ \A k \in Keys : k \in Nat /\ k # None
  /\ \A i \in Installs : i \in Nat /\ i # None
  /\ None \in Nat
  BY Bounds DEF Creds, Keys, Installs, None

LEMMA References ==
  /\ NoRef \notin Refs
  /\ \A ref \in Refs : ref.cred \in Creds /\ ref.kind \in {"active", "pending"} /\ ref # NoRef
  /\ \A kind, c : Ref(kind, c).cred = c /\ Ref(kind, c).kind = kind
  /\ \A kind \in {"active", "pending"}, c \in Creds : Ref(kind, c) \in Refs
  /\ \A kind, c : Ref(kind, c) \in Refs => c \in Creds
<1>1. NoRef \notin Refs
  BY DEF NoRef, Refs
<1>2. \A kind, c : Ref(kind, c).cred = c /\ Ref(kind, c).kind = kind
  BY DEF Ref
<1>3. \A ref \in Refs : ref.cred \in Creds /\ ref.kind \in {"active", "pending"}
  BY DEF Refs
<1>4. \A kind \in {"active", "pending"}, c \in Creds : Ref(kind, c) \in Refs
  BY DEF Ref, Refs
<1> QED
  BY <1>1, <1>2, <1>3, <1>4

LEMMA Replies ==
  /\ NoAnswer \in Answers /\ NoAnswer.kind = "none"
  /\ \A kind, c : Answer(kind, c).kind = kind /\ Answer(kind, c).cred = c
  /\ \A kind \in {"ok", "rejected", "error"}, c \in Creds \union {None} :
       Answer(kind, c) \in Answers /\ Answer(kind, c) # NoAnswer
  BY DEF NoAnswer, Answer, Answers

LEMMA IdentityType ==
  ASSUME TypeOK
  PROVE  /\ identity.exists \in BOOLEAN /\ identity.enrolled \in BOOLEAN /\ identity.revoked \in BOOLEAN
         /\ identity.install \in Installs \union {None} /\ identity.key \in Keys \union {None}
         /\ identity.active \in Refs \union {NoRef} /\ identity.pending \in Refs \union {NoRef}
         /\ identity.previous \in Refs \union {NoRef} /\ identity.rotation \in RotationStates
  BY DEF TypeOK, Identity

-----------------------------------------------------------------------------
(* Steps of the agent: the backend's tables stay *)

\* A step that leaves a key behind has had it activated, and a key it takes up is new.
KeysCarry ==
  /\ drawn'.key \in Nat /\ drawn.key <= drawn'.key
  /\ drawn'.install \in Nat /\ drawn.install <= drawn'.install
  /\ \A k \in Keys : k <= drawn.key /\ k = identity.key /\ k # identity'.key =>
       created[k] # None /\ <<created[k], k>> \in activated
  /\ \A k \in Keys : k <= drawn.key /\ k = identity'.key =>
       /\ k = identity.key
       /\ identity.rotation \in {"activation_uncertain", "activated"} =>
            identity'.rotation \in {"activation_uncertain", "activated"}

LEMMA TablesCarry ==
  ASSUME IInv, UNCHANGED database, KeysCarry
  PROVE  TablesOK'
<1>1. /\ agent' = agent /\ credentials' = credentials /\ rotations' = rotations /\ created' = created
      /\ activated' = activated /\ registered' = registered /\ tokens' = tokens
  BY DEF database, idempotency
<1>2. TablesOK /\ TypeOK
  BY DEF IInv
<1>3. drawn.key \in Nat /\ drawn.install \in Nat
  BY <1>2, Bounds DEF TypeOK
<1>4. ActiveOK' /\ PendingOK' /\ RevokedHasNoActive' /\ VersionsOK' /\ OneCredentialPerRequest' /\ ActivatedOK'
  BY <1>1, <1>2 DEF TablesOK, ActiveOK, PendingOK, RevokedHasNoActive, Active, VersionsOK, Issued,
       OneCredentialPerRequest, ActivatedOK, Settled
<1>5. RegisteredOK'
  BY <1>1, <1>2, <1>3 DEF TablesOK, RegisteredOK, Settled, KeysCarry
<1>6. CreatedOK'
  BY <1>1, <1>2, <1>3, Bounds DEF TablesOK, CreatedOK, KeysCarry
<1>7. agent'.install <= drawn'.install
  <2>1. agent.install \in Nat
    <3>1. agent.install \in Installs \union {None}
      BY <1>2 DEF TypeOK
    <3> QED
      BY <3>1, Numbers
  <2> QED
    BY <1>1, <1>2, <1>3, <2>1 DEF TablesOK, KeysCarry
<1> QED
  BY <1>4, <1>5, <1>6, <1>7 DEF TablesOK

\* A request the agent does not wait for does not depend on where the agent is.
LEMMA RequestCarry ==
  ASSUME IInv, UNCHANGED database, KeysCarry, NEW r \in requests, NEW q \in Requests,
         q.op = r.op, q.cred = r.cred, q.key = r.key, q.token = r.token, q.install = r.install,
         q.admitted = r.admitted, ~ q.awaited
  PROVE  RequestOK(q)'
<1>1. /\ agent' = agent /\ credentials' = credentials /\ created' = created /\ activated' = activated
  BY DEF database, idempotency
<1>2. RequestOK(r) /\ TypeOK /\ CreatedOK
  BY DEF IInv, RequestsOK, TablesOK
<1>3. drawn.key \in Nat /\ drawn.install \in Nat
  BY <1>2, Bounds DEF TypeOK
<1>4. (q.op # "register" => q.cred \in Issued') /\ RegisterOK(q)' /\ AwaitedOK(q)'
  <2>1. q.op # "register" => q.cred \in Issued'
    BY <1>1, <1>2 DEF RequestOK, Issued
  <2>2. r.install \in Installs => r.install \in Nat
    BY Bounds
  <2>3. RegisterOK(q)'
    BY <1>2, <1>3, <2>2 DEF RequestOK, RegisterOK, KeysCarry
  <2> QED
    BY <2>1, <2>3 DEF AwaitedOK
<1>5. CreateOK(q)'
  <2> SUFFICES ASSUME q.op = "create" PROVE CreateOK(q)'
    BY DEF CreateOK
  <2>1. r.key \in Keys /\ r.key \in Nat /\ r.key <= drawn.key /\ (r.key # identity.key => created[r.key] # None)
    BY <1>2, Numbers DEF RequestOK, CreateOK
  <2>2. r.key <= drawn'.key
    BY <1>3, <2>1 DEF KeysCarry
  <2> QED
    BY <1>1, <2>1, <2>2 DEF CreateOK, KeysCarry
<1>6. ActivateOK(q)'
  <2> SUFFICES ASSUME q.op = "activate" PROVE ActivateOK(q)'
    BY DEF ActivateOK
  <2>1. r.key \in Keys /\ created[r.key] = r.cred /\ r.cred \in Creds
    BY <1>2 DEF RequestOK, ActivateOK, Issued
  <2>2. r.key <= drawn.key
    BY <1>2, <2>1, Bounds DEF CreatedOK
  <2> QED
    BY <1>1, <1>2, <2>1, <2>2 DEF RequestOK, ActivateOK, KeysCarry
<1> QED
  BY <1>4, <1>5, <1>6 DEF RequestOK

\* The agent waits for nothing, and goes on.
Unawaited == pc \notin Waiting \/ reply # NoAnswer
LEMMA NoneAwaited ==
  ASSUME IInv, Unawaited
  PROVE  \A r \in requests : ~ r.awaited
  BY DEF IInv, RequestsOK, RequestOK, AwaitedOK, Unawaited, TypeOK, Requests

LEMMA RequestsCarry ==
  ASSUME IInv, UNCHANGED database, KeysCarry, Unawaited, requests' = requests
  PROVE  RequestsOK'
<1>1. \A r \in requests : ~ r.awaited /\ r \in Requests
  BY NoneAwaited DEF IInv, TypeOK
<1>2. \A r \in requests : RequestOK(r)'
  BY <1>1, RequestCarry
<1> QED
  BY <1>1, <1>2 DEF RequestsOK

LEMMA RequestsForgotten ==
  ASSUME IInv, UNCHANGED database, KeysCarry, requests' = Forgotten
  PROVE  RequestsOK' /\ requests' \subseteq Requests
<1>1. ASSUME NEW q \in requests' PROVE q \in Requests /\ RequestOK(q)' /\ ~ q.awaited
  <2>1. PICK r \in requests : q = [r EXCEPT !.awaited = FALSE]
    BY <1>1 DEF Forgotten
  <2>2. r \in Requests
    BY DEF IInv, TypeOK
  <2>3. /\ q \in Requests /\ q.op = r.op /\ q.cred = r.cred /\ q.key = r.key /\ q.token = r.token
        /\ q.install = r.install /\ q.admitted = r.admitted /\ ~ q.awaited
    BY <2>1, <2>2 DEF Requests
  <2> QED
    BY <2>3, RequestCarry
<1> QED
  BY <1>1 DEF RequestsOK

LEMMA RequestsSent ==
  ASSUME IInv, UNCHANGED database, KeysCarry, Unawaited, NEW q \in Requests,
         requests' = requests \union {q}, RequestOK(q)'
  PROVE  RequestsOK' /\ requests' \subseteq Requests
<1>1. \A r \in requests : ~ r.awaited /\ r \in Requests
  BY NoneAwaited DEF IInv, TypeOK
<1>2. \A r \in requests : RequestOK(r)'
  BY <1>1, RequestCarry
<1> QED
  BY <1>1, <1>2 DEF RequestsOK

LEMMA RowStays ==
  ASSUME IInv, identity' = identity, drawn' = drawn, UNCHANGED database
  PROVE  KeysCarry /\ TablesOK' /\ IdentityOK' /\ RotationOK' /\ AcceptedOK'
<1>1. /\ agent' = agent /\ credentials' = credentials /\ created' = created /\ activated' = activated
      /\ registered' = registered
  BY DEF database, idempotency
<1>2. KeysCarry
  <2>1. drawn.key \in Nat /\ drawn.install \in Nat
    BY Bounds DEF IInv, TypeOK
  <2> QED
    BY <2>1 DEF KeysCarry
<1>3. TablesOK'
  BY <1>2, TablesCarry
<1>4. IdentityOK' /\ RotationOK'
  BY <1>1 DEF IInv, IdentityOK, RotationOK, Rotating, RegisteredHere, Settled
<1>5. AcceptedOK'
  BY <1>1 DEF IInv, AcceptedOK, AtMostOneToken, RegisteredHere, Active, Current
<1> QED
  BY <1>2, <1>3, <1>4, <1>5

\* The secrets are the same, or one more.
LEMMA SecretsStay ==
  ASSUME IInv, identity' = identity, UNCHANGED database, UNCHANGED purge, secrets' = secrets
  PROVE  HeldOK' /\ SecretsOK'
<1>1. created' = created /\ registered' = registered
  BY DEF database, idempotency
<1> QED
  BY <1>1 DEF IInv, HeldOK, SecretsOK, AtMostOneToken, RegisteredHere, Accounted

LEMMA SecretKept ==
  ASSUME IInv, identity' = identity, UNCHANGED database, UNCHANGED purge, NEW ref,
         secrets' \in {secrets, secrets \union {ref}},
         (purge = "never" /\ (identity.exists => AtMostOneToken)) => Accounted(ref)
  PROVE  HeldOK' /\ SecretsOK'
<1>1. created' = created /\ registered' = registered
  BY DEF database, idempotency
<1>2. secrets \subseteq secrets' /\ \A s \in secrets' : s \in secrets \/ s = ref
  OBVIOUS
<1>3. HeldOK'
  BY <1>2 DEF IInv, HeldOK
<1>4. (AtMostOneToken' <=> AtMostOneToken) /\ \A s : Accounted(s)' <=> Accounted(s)
  BY <1>1 DEF AtMostOneToken, RegisteredHere, Accounted
<1>5. SecretsOK'
  BY <1>2, <1>4 DEF IInv, SecretsOK
<1> QED
  BY <1>3, <1>5

\* The process goes on without touching its disk.
LEMMA MoveStep ==
  ASSUME IInv, UNCHANGED <<disk, database, requests, drawn, purge>>, Unawaited, TypeOK', ProcessOK'
  PROVE  IInv'
<1>1. identity' = identity /\ secrets' = secrets
  BY DEF disk
<1>2. KeysCarry /\ TablesOK' /\ IdentityOK' /\ RotationOK' /\ AcceptedOK'
  BY <1>1, RowStays
<1>3. HeldOK' /\ SecretsOK'
  BY <1>1, SecretsStay
<1>4. RequestsOK'
  BY <1>2, RequestsCarry
<1> QED
  BY <1>2, <1>3, <1>4 DEF IInv

LEMMA ForgetStep ==
  ASSUME IInv, UNCHANGED <<disk, database, drawn, purge>>, requests' = Forgotten,
         (requests' \subseteq Requests) => TypeOK', ProcessOK'
  PROVE  IInv'
<1>1. identity' = identity /\ secrets' = secrets
  BY DEF disk
<1>2. KeysCarry /\ TablesOK' /\ IdentityOK' /\ RotationOK' /\ AcceptedOK'
  BY <1>1, RowStays
<1>3. HeldOK' /\ SecretsOK'
  BY <1>1, SecretsStay
<1>4. RequestsOK' /\ requests' \subseteq Requests
  BY <1>2, RequestsForgotten
<1> QED
  BY <1>2, <1>3, <1>4 DEF IInv

\* The process is down, or at a step that knows nothing of the answer.
LEMMA DownOK ==
  ASSUME IInv, identity' = identity, purge' = purge, pc' = "down"
  PROVE  ProcessOK'
  BY DEF IInv, ProcessOK, EnrollingOK, CreatingOK, ActivatingOK, FinishingOK, BeatingOK, ErasingOK,
         Enrolling, Creating

LEMMA CrashStep ==
  ASSUME IInv, Crash
  PROVE  IInv'
<1>1. /\ UNCHANGED <<disk, database, clock, drawn, admin, purge>> /\ requests' = Forgotten
      /\ pc' = "down" /\ reply' = NoAnswer /\ faults < MaxFaults /\ faults' = faults + 1
  BY DEF Crash
<1>2. faults' \in 0 .. MaxFaults
  BY <1>1, CredentialAssumption DEF IInv, TypeOK
<1>3. (requests' \subseteq Requests) => TypeOK'
  BY <1>1, <1>2, Replies DEF IInv, TypeOK, disk, database, idempotency, clock, Labels
<1>4. ProcessOK'
  BY <1>1, DownOK DEF disk
<1> QED
  BY <1>1, <1>3, <1>4, ForgetStep

LEMMA TimesOutStep ==
  ASSUME IInv, TimesOut
  PROVE  IInv'
<1>1. /\ UNCHANGED <<disk, pc, database, clock, drawn, admin, purge>> /\ requests' = Forgotten
      /\ pc \in Waiting /\ reply' = Answer("error", None) /\ faults < MaxFaults /\ faults' = faults + 1
  BY DEF TimesOut
<1>2. faults' \in 0 .. MaxFaults
  BY <1>1, CredentialAssumption DEF IInv, TypeOK
<1>3. reply' \in Answers /\ reply'.kind = "error"
  BY <1>1, Replies
<1>4. (requests' \subseteq Requests) => TypeOK'
  BY <1>1, <1>2, <1>3 DEF IInv, TypeOK, disk, database, idempotency, clock
<1>5. ProcessOK'
  BY <1>1, <1>3 DEF IInv, ProcessOK, EnrollingOK, CreatingOK, ActivatingOK, FinishingOK, BeatingOK, ErasingOK,
         Enrolling, Creating, Waiting, disk, Rotating
<1> QED
  BY <1>1, <1>4, <1>5, ForgetStep

LEMMA StartRunStep ==
  ASSUME IInv, StartRun
  PROVE  IInv'
<1>1. /\ UNCHANGED <<disk, reply, database, requests, clock, ghost, purge>> /\ pc = "down"
      /\ \/ identity.rotation = "revoked" /\ pc' = "erase"
         \/ ~ Rotating /\ pc' = "ready"
         \/ Rotating /\ pc' = "rotate"
  BY DEF StartRun, Rotating
<1>2. TypeOK'
  BY <1>1 DEF IInv, TypeOK, disk, database, idempotency, clock, ghost, Labels
<1>3. ProcessOK'
  BY <1>1 DEF IInv, IdentityOK, ProcessOK, EnrollingOK, CreatingOK, ActivatingOK, FinishingOK, BeatingOK, ErasingOK,
         Enrolling, Creating, disk, Rotating
<1>4. Unawaited
  BY <1>1 DEF Unawaited, Waiting
<1> QED
  BY <1>1, <1>2, <1>3, <1>4, MoveStep DEF ghost

LEMMA RegisterReplyStep ==
  ASSUME IInv, RegisterReply
  PROVE  IInv'
<1>1. /\ UNCHANGED <<disk, database, requests, clock, ghost, purge>> /\ pc = "register" /\ reply # NoAnswer
      /\ \/ reply.kind = "ok" /\ pc' = "keep_active" /\ reply' = reply
         \/ pc' = "down" /\ reply' = NoAnswer
  BY DEF RegisterReply
<1>2. TypeOK'
  BY <1>1, Replies DEF IInv, TypeOK, disk, database, idempotency, clock, ghost, Labels
<1>3. CASE pc' = "down"
  <2>1. ProcessOK'
    BY <1>1, <1>3, DownOK DEF disk
  <2> QED
    BY <1>1, <1>2, <2>1, MoveStep DEF ghost, Unawaited
<1>4. CASE pc' = "keep_active"
  <2>1. ProcessOK'
    BY <1>1, <1>4 DEF IInv, ProcessOK, EnrollingOK, CreatingOK, ActivatingOK, FinishingOK, BeatingOK, ErasingOK,
         Enrolling, Creating, RegisteredHere, disk, database, idempotency
  <2> QED
    BY <1>1, <1>2, <2>1, MoveStep DEF ghost, Unawaited
<1> QED
  BY <1>1, <1>3, <1>4

LEMMA RotationRaisesStep ==
  ASSUME IInv, RotationRaises
  PROVE  IInv'
<1>1. /\ UNCHANGED <<disk, database, requests, clock, ghost, purge>> /\ reply # NoAnswer
      /\ pc' = "down" /\ reply' = NoAnswer
  BY Replies DEF RotationRaises
<1>2. TypeOK'
  BY <1>1, Replies DEF IInv, TypeOK, disk, database, idempotency, clock, ghost, Labels
<1>3. ProcessOK'
  BY <1>1, DownOK DEF disk
<1> QED
  BY <1>1, <1>2, <1>3, MoveStep DEF ghost, Unawaited

LEMMA CreateReplyStep ==
  ASSUME IInv, CreateReply
  PROVE  IInv'
<1>1. /\ UNCHANGED <<disk, reply, database, requests, clock, ghost, purge>> /\ pc = "create"
      /\ reply.kind = "ok" /\ pc' = "keep_pending" /\ reply # NoAnswer
  BY Replies DEF CreateReply
<1>2. TypeOK'
  BY <1>1 DEF IInv, TypeOK, disk, database, idempotency, clock, ghost, Labels
<1>3. ProcessOK'
  BY <1>1 DEF IInv, ProcessOK, EnrollingOK, CreatingOK, ActivatingOK, FinishingOK, BeatingOK, ErasingOK,
       Enrolling, Creating, disk, database, idempotency
<1> QED
  BY <1>1, <1>2, <1>3, MoveStep DEF ghost, Unawaited

LEMMA ActivateReplyStep ==
  ASSUME IInv, ActivateReply
  PROVE  IInv'
<1>1. /\ UNCHANGED <<disk, database, requests, clock, ghost, purge>> /\ pc = "activate"
      /\ reply.kind = "ok" /\ pc' = "cutover" /\ reply' = NoAnswer /\ reply # NoAnswer
  BY Replies DEF ActivateReply, Goto
<1>2. TypeOK'
  BY <1>1, Replies DEF IInv, TypeOK, disk, database, idempotency, clock, ghost, Labels
<1>3. ProcessOK'
  BY <1>1 DEF IInv, ProcessOK, EnrollingOK, CreatingOK, ActivatingOK, FinishingOK, BeatingOK, ErasingOK,
       Enrolling, Creating, disk, database, idempotency
<1> QED
  BY <1>1, <1>2, <1>3, MoveStep DEF ghost, Unawaited

LEMMA ResumeActivatedStep ==
  ASSUME IInv, ResumeActivated
  PROVE  IInv'
<1>1. /\ UNCHANGED <<disk, database, requests, clock, ghost, purge>> /\ pc = "rotate"
      /\ identity.rotation = "activated" /\ pc' = "drop_previous" /\ reply' = NoAnswer
  BY DEF ResumeActivated, Goto
<1>2. TypeOK'
  BY <1>1, Replies DEF IInv, TypeOK, disk, database, idempotency, clock, ghost, Labels
<1>3. ProcessOK'
  BY <1>1 DEF IInv, ProcessOK, EnrollingOK, CreatingOK, ActivatingOK, FinishingOK, BeatingOK, ErasingOK,
       Enrolling, Creating, disk
<1> QED
  BY <1>1, <1>2, <1>3, MoveStep DEF ghost, Unawaited, Waiting

\* A request of an agent whose row stays.
LEMMA SendStep ==
  ASSUME IInv, UNCHANGED <<disk, database, drawn, purge>>, Unawaited, NEW q \in Requests,
         requests' = requests \union {q}, RequestOK(q)', (requests' \subseteq Requests) => TypeOK', ProcessOK'
  PROVE  IInv'
<1>1. identity' = identity /\ secrets' = secrets
  BY DEF disk
<1>2. KeysCarry /\ TablesOK' /\ IdentityOK' /\ RotationOK' /\ AcceptedOK'
  BY <1>1, RowStays
<1>3. HeldOK' /\ SecretsOK'
  BY <1>1, SecretsStay
<1>4. RequestsOK' /\ requests' \subseteq Requests
  BY <1>2, RequestsSent
<1> QED
  BY <1>2, <1>3, <1>4 DEF IInv

\* The process is waiting for an answer.
LEMMA WaitingOK ==
  ASSUME IInv, identity' = identity, purge' = purge, reply' = NoAnswer, UNCHANGED database,
         \/ pc' = "create" /\ identity.rotation = "requested"
         \/ pc' = "beat" /\ identity.rotation = "none" /\ identity.active # NoRef
  PROVE  ProcessOK'
<1>1. reply'.kind = "none" /\ created' = created
  BY Replies DEF database, idempotency
<1> QED
  BY <1>1 DEF IInv, ProcessOK, EnrollingOK, CreatingOK, ActivatingOK, FinishingOK, BeatingOK, ErasingOK,
         Enrolling, Creating, Rotating

\* The credential in use has been issued.
LEMMA ActiveIssued ==
  ASSUME IInv, ActiveUsable
  PROVE  identity.active.cred \in Issued /\ identity.active.cred \in Creds /\ identity.active # NoRef
<1>1. identity.active \in Refs /\ identity.active # NoRef
  BY DEF ActiveUsable, IInv, TypeOK
<1>2. identity.active.cred \in Creds /\ Settled(identity.active.cred)
  BY <1>1, References DEF IInv, IdentityOK
<1> QED
  BY <1>1, <1>2 DEF Issued, Settled

LEMMA RequestRotationStep ==
  ASSUME IInv, RequestRotation
  PROVE  IInv'
<1>1. /\ UNCHANGED <<disk, database, clock, ghost, purge>> /\ pc = "rotate" /\ identity.rotation = "requested"
  BY DEF RequestRotation
<1>2. CASE ~ ActiveUsable
  <2>1. pc' = "down" /\ reply' = NoAnswer /\ requests' = requests
    BY <1>2 DEF RequestRotation, Raises, Goto
  <2>2. TypeOK'
    BY <1>1, <2>1, Replies DEF IInv, TypeOK, disk, database, idempotency, clock, ghost, Labels
  <2>3. ProcessOK'
    BY <1>1, <2>1, DownOK DEF disk
  <2> QED
    BY <1>1, <2>1, <2>2, <2>3, MoveStep DEF ghost, Unawaited, Waiting
<1>3. CASE ActiveUsable
  <2>1. pc' = "create" /\ reply' = NoAnswer
    BY <1>3 DEF RequestRotation, Goto
  <2>2. identity.active.cred \in Issued /\ identity.active.cred \in Creds
    BY <1>3, ActiveIssued
  <2>3. identity.key \in Keys /\ identity.key <= drawn.key
    BY <1>1 DEF IInv, RotationOK, Rotating
  <2>4. PICK q \in Requests : q = [op |-> "create", cred |-> identity.active.cred, key |-> identity.key, token |-> None,
                                 install |-> None, admitted |-> FALSE, awaited |-> TRUE]
    BY <2>2, <2>3 DEF Requests, Waiting
  <2>8. requests' = requests \union {q}
    BY <1>3, <2>4 DEF RequestRotation, Send
  <2>5. RequestOK(q)'
    <3>1. credentials' = credentials /\ identity' = identity /\ drawn' = drawn
      BY <1>1 DEF disk, database, ghost
    <3> QED
      BY <2>1, <2>4, <2>2, <2>3, <3>1 DEF RequestOK, RegisterOK, CreateOK, ActivateOK, AwaitedOK, Issued
  <2>6. (requests' \subseteq Requests) => TypeOK'
    BY <1>1, <2>1, Replies DEF IInv, TypeOK, disk, database, idempotency, clock, ghost, Labels, Waiting
  <2>7. ProcessOK'
    BY <1>1, <2>1, WaitingOK DEF disk
  <2> QED
    BY <1>1, <2>1, <2>5, <2>6, <2>7, <2>8, SendStep DEF ghost, Unawaited, Waiting
<1> QED
  BY <1>2, <1>3

LEMMA BeatStep ==
  ASSUME IInv, Beat
  PROVE  IInv'
<1>1. /\ UNCHANGED <<disk, database, clock, ghost, purge>> /\ pc = "ready"
  BY DEF Beat
<1>2. CASE ~ ActiveUsable
  <2>1. pc' = "down" /\ reply' = NoAnswer /\ requests' = requests
    BY <1>2 DEF Beat, Raises, Goto
  <2>2. TypeOK'
    BY <1>1, <2>1, Replies DEF IInv, TypeOK, disk, database, idempotency, clock, ghost, Labels
  <2>3. ProcessOK'
    BY <1>1, <2>1, DownOK DEF disk
  <2> QED
    BY <1>1, <2>1, <2>2, <2>3, MoveStep DEF ghost, Unawaited, Waiting
<1>3. CASE ActiveUsable
  <2>1. pc' = "beat" /\ reply' = NoAnswer
    BY <1>3 DEF Beat, Goto
  <2>2. identity.active.cred \in Issued /\ identity.active.cred \in Creds /\ identity.active # NoRef
    BY <1>3, ActiveIssued
  <2>3. identity.rotation = "none"
    BY <1>1, <1>3 DEF IInv, ProcessOK, FinishingOK, Rotating, IdentityOK, ActiveUsable
  <2>4. PICK q \in Requests : q = [op |-> "beat", cred |-> identity.active.cred, key |-> None, token |-> None,
                                 install |-> None, admitted |-> FALSE, awaited |-> TRUE]
    BY <2>2 DEF Requests, Waiting
  <2>8. requests' = requests \union {q}
    BY <1>3, <2>4 DEF Beat, Send
  <2>5. RequestOK(q)'
    <3>1. credentials' = credentials /\ identity' = identity /\ drawn' = drawn
      BY <1>1 DEF disk, database, ghost
    <3> QED
      BY <2>1, <2>4, <2>2, <3>1 DEF RequestOK, RegisterOK, CreateOK, ActivateOK, AwaitedOK, Issued
  <2>6. (requests' \subseteq Requests) => TypeOK'
    BY <1>1, <2>1, Replies DEF IInv, TypeOK, disk, database, idempotency, clock, ghost, Labels, Waiting
  <2>7. ProcessOK'
    BY <1>1, <2>1, <2>2, <2>3, WaitingOK DEF disk
  <2> QED
    BY <1>1, <2>1, <2>5, <2>6, <2>7, <2>8, SendStep DEF ghost, Unawaited, Waiting
<1> QED
  BY <1>2, <1>3

\* A secret is stored: the answer it came with is still there unless storing it failed.
LEMMA KeepStep ==
  ASSUME IInv, NEW ref \in Refs, NEW next \in {"record_active", "record_pending"}, Keep(ref, next),
         UNCHANGED <<identity, database, requests, clock, drawn, admin, purge>>,
         pc \in {"keep_active", "keep_pending"},
         (purge = "never" /\ (identity.exists => AtMostOneToken)) => Accounted(ref),
         (pc' = next /\ reply' = reply /\ ref \in secrets') => ProcessOK'
  PROVE  IInv'
<1>1. \/ secrets' = secrets \union {ref} /\ pc' = next /\ reply' = reply /\ faults' = faults
      \/ /\ secrets' \in {secrets, secrets \union {ref}} /\ pc' = "down" /\ reply' = NoAnswer
         /\ faults < MaxFaults /\ faults' = faults + 1
  BY DEF Keep, Raises, Goto
<1>2. faults' \in 0 .. MaxFaults
  BY <1>1, CredentialAssumption DEF IInv, TypeOK
<1>3. secrets' \subseteq Refs /\ pc' \in Labels /\ reply' \in Answers
  BY <1>1, Replies DEF IInv, TypeOK, Labels
<1>4. TypeOK'
  BY <1>2, <1>3 DEF IInv, TypeOK, database, idempotency, clock
<1>5. ProcessOK'
  BY <1>1, DownOK
<1>6. HeldOK' /\ SecretsOK'
  <2>1. secrets' \in {secrets, secrets \union {ref}}
    BY <1>1
  <2> QED
    BY <2>1, SecretKept
<1>7. KeysCarry /\ TablesOK' /\ IdentityOK' /\ RotationOK' /\ AcceptedOK'
  BY RowStays
<1>8. RequestsOK'
  BY <1>7, RequestsCarry DEF Unawaited, Waiting
<1> QED
  BY <1>4, <1>5, <1>6, <1>7, <1>8 DEF IInv

LEMMA KeepActiveStep ==
  ASSUME IInv, KeepActive
  PROVE  IInv'
<1>1. /\ pc = "keep_active" /\ Keep(Ref("active", reply.cred), "record_active")
      /\ UNCHANGED <<identity, database, requests, clock, drawn, admin, purge>>
  BY DEF KeepActive
<1>2. EnrollingOK /\ TypeOK
  BY DEF IInv, ProcessOK
<1>3. /\ identity.exists /\ ~ identity.enrolled /\ reply.kind = "ok" /\ reply.cred # None
      /\ \E t \in Tokens : RegisteredHere(t) /\ registered[t].cred = reply.cred
  BY <1>1, <1>2 DEF EnrollingOK, Enrolling
<1>4. Ref("active", reply.cred) \in Refs
  BY <1>2, <1>3, References DEF TypeOK, Answers
<1>5. Accounted(Ref("active", reply.cred))
  BY <1>3 DEF Accounted
<1>6. ASSUME pc' = "record_active", reply' = reply, Ref("active", reply.cred) \in secrets' PROVE ProcessOK'
  BY <1>1, <1>3, <1>6 DEF IInv, ProcessOK, EnrollingOK, CreatingOK, ActivatingOK, FinishingOK, BeatingOK, ErasingOK,
       Enrolling, Creating, RegisteredHere, database, idempotency
<1>7. PICK ref \in Refs : ref = Ref("active", reply.cred)
  BY <1>4
<1> QED
  BY <1>1, <1>5, <1>6, <1>7, KeepStep

LEMMA KeepPendingStep ==
  ASSUME IInv, KeepPending
  PROVE  IInv'
<1>1. /\ pc = "keep_pending" /\ Keep(Ref("pending", reply.cred), "record_pending")
      /\ UNCHANGED <<identity, database, requests, clock, drawn, admin, purge>>
  BY DEF KeepPending
<1>2. CreatingOK /\ TypeOK
  BY DEF IInv, ProcessOK
<1>3. /\ identity.rotation = "requested" /\ reply.kind = "ok" /\ reply.cred # None
      /\ reply.cred = created[identity.key]
  BY <1>1, <1>2 DEF CreatingOK, Creating
<1>4. Ref("pending", reply.cred) \in Refs
  BY <1>2, <1>3, References DEF TypeOK, Answers
<1>5. Accounted(Ref("pending", reply.cred))
  BY <1>3 DEF Accounted
<1>6. ASSUME pc' = "record_pending", reply' = reply, Ref("pending", reply.cred) \in secrets' PROVE ProcessOK'
  BY <1>1, <1>3, <1>6 DEF IInv, ProcessOK, EnrollingOK, CreatingOK, ActivatingOK, FinishingOK, BeatingOK, ErasingOK,
       Enrolling, Creating, database, idempotency
<1>7. PICK ref \in Refs : ref = Ref("pending", reply.cred)
  BY <1>4
<1> QED
  BY <1>1, <1>5, <1>6, <1>7, KeepStep

-----------------------------------------------------------------------------
(* Steps of the agent that change its row *)

LEMMA Database ==
  ASSUME UNCHANGED database
  PROVE  /\ agent' = agent /\ credentials' = credentials /\ rotations' = rotations /\ created' = created
         /\ activated' = activated /\ registered' = registered /\ tokens' = tokens
  BY DEF database, idempotency

\* What a step of the agent has to show; the tables follow.
LEMMA RowStep ==
  ASSUME IInv, UNCHANGED database, KeysCarry, TypeOK', RequestsOK', IdentityOK', RotationOK', ProcessOK',
         HeldOK', SecretsOK', AcceptedOK'
  PROVE  IInv'
  BY TablesCarry DEF IInv

\* The row's references and columns after a step that leaves its key.
LEMMA SameKey ==
  ASSUME IInv, identity'.key = identity.key, drawn' = drawn,
         identity.rotation \in {"activation_uncertain", "activated"} =>
            identity'.rotation \in {"activation_uncertain", "activated"}
  PROVE  KeysCarry
<1>1. drawn.key \in Nat /\ drawn.install \in Nat
  BY Bounds DEF IInv, TypeOK
<1> QED
  BY <1>1 DEF KeysCarry

\* What a request for a rotation's key names has been issued.
LEMMA CreatedIssued ==
  ASSUME IInv, NEW k \in Keys, created[k] # None
  PROVE  created[k] \in Issued /\ created[k] \in Creds
<1>1. created[k] \in ({created[j] : j \in Keys} \union {registered[t].cred : t \in Tokens}) \ {None}
  OBVIOUS
<1>2. created[k] \in Issued
  BY <1>1 DEF IInv, TablesOK, OneCredentialPerRequest
<1> QED
  BY <1>2 DEF Issued

LEMMA RequestActivationStep ==
  ASSUME IInv, RequestActivation
  PROVE  IInv'
<1>1. /\ UNCHANGED <<secrets, database, clock, ghost, purge>> /\ pc = "rotate"
      /\ identity.rotation \in {"pending_stored", "activation_uncertain"}
  BY DEF RequestActivation
<1>2. Unawaited
  BY <1>1 DEF Unawaited, Waiting
<1>3. CASE identity.pending \notin secrets
  <2>1. pc' = "down" /\ reply' = NoAnswer /\ requests' = requests /\ identity' = identity
    BY <1>3 DEF RequestActivation, Raises, Goto
  <2>2. TypeOK'
    BY <1>1, <2>1, Replies DEF IInv, TypeOK, database, idempotency, clock, ghost, Labels
  <2>3. ProcessOK'
    BY <1>1, <2>1, DownOK
  <2> QED
    BY <1>1, <1>2, <2>1, <2>2, <2>3, MoveStep DEF ghost, disk
<1>4. CASE identity.pending \in secrets
  <2>1. /\ pc' = "activate" /\ reply' = NoAnswer /\ identity' = [identity EXCEPT !.rotation = "activation_uncertain"]
    BY <1>4 DEF RequestActivation, Goto
  <2>2. TypeOK /\ IdentityOK /\ RotationOK /\ ProcessOK /\ HeldOK /\ SecretsOK /\ AcceptedOK
    BY DEF IInv
  <2>3. /\ identity' \in Identity /\ identity'.rotation = "activation_uncertain"
        /\ identity'.exists = identity.exists /\ identity'.install = identity.install
        /\ identity'.enrolled = identity.enrolled /\ identity'.revoked = identity.revoked
        /\ identity'.active = identity.active /\ identity'.pending = identity.pending
        /\ identity'.previous = identity.previous /\ identity'.key = identity.key
    BY <2>1, <2>2 DEF TypeOK, Identity, RotationStates
  <2>4. /\ agent' = agent /\ credentials' = credentials /\ created' = created /\ activated' = activated
        /\ registered' = registered /\ drawn' = drawn
    BY <1>1, Database DEF ghost
  <2>5. /\ identity.key \in Keys /\ created[identity.key] # None
        /\ identity.pending = Ref("pending", created[identity.key])
    BY <1>1, <2>2 DEF RotationOK, Rotating
  <2>6. identity.pending.cred = created[identity.key] /\ created[identity.key] \in Issued /\ created[identity.key] \in Creds
    BY <2>5, References, CreatedIssued
  <2>7. PICK q \in Requests : q = [op |-> "activate", cred |-> identity.pending.cred, key |-> identity.key,
                                   token |-> None, install |-> None, admitted |-> FALSE, awaited |-> TRUE]
    BY <2>5, <2>6 DEF Requests, Waiting
  <2>8. requests' = requests \union {q}
    BY <1>4, <2>7 DEF RequestActivation, Send
  <2>9. RequestOK(q)'
    BY <2>1, <2>3, <2>4, <2>5, <2>6, <2>7 DEF RequestOK, RegisterOK, CreateOK, ActivateOK, AwaitedOK, Issued
  <2>10. KeysCarry
    BY <2>3, <2>4, SameKey
  <2>11. RequestsOK' /\ requests' \subseteq Requests
    BY <1>1, <1>2, <2>8, <2>9, <2>10, RequestsSent
  <2>12. TypeOK'
    BY <1>1, <2>1, <2>2, <2>3, <2>11, Replies DEF TypeOK, database, idempotency, clock, ghost, Labels, Waiting
  <2>13. ProcessOK'
    BY <1>1, <2>1, <2>2, <2>3, Replies DEF ProcessOK, EnrollingOK, CreatingOK, ActivatingOK, FinishingOK, BeatingOK,
         ErasingOK, Enrolling, Creating
  <2>14. IdentityOK' /\ RotationOK'
    BY <1>1, <2>2, <2>3, <2>4 DEF IdentityOK, RotationOK, Rotating, RegisteredHere, Settled
  <2>15. HeldOK'
    BY <1>1, <1>4, <2>2, <2>3 DEF HeldOK
  <2>16. AtMostOneToken' <=> AtMostOneToken
    BY <2>3, <2>4 DEF AtMostOneToken, RegisteredHere
  <2>17. SecretsOK'
    BY <1>1, <2>2, <2>3, <2>4, <2>16 DEF SecretsOK, Accounted, RegisteredHere
  <2>18. AcceptedOK'
    <3>1. \A c : Current(c) => Current(c)'
      BY <1>1, <2>2, <2>3, <2>4, <2>6 DEF Current, RegisteredHere, RotationOK
    <3> QED
      BY <2>2, <2>3, <2>4, <2>16, <3>1 DEF AcceptedOK, Active
  <2> QED
    BY <1>1, <2>10, <2>11, <2>12, <2>13, <2>14, <2>15, <2>17, <2>18, RowStep
<1> QED
  BY <1>3, <1>4

\* The process is down after a change of the row.
LEMMA DownRowOK ==
  ASSUME pc' = "down", purge' = "begun" => identity'.exists
  PROVE  ProcessOK'
  BY DEF ProcessOK, EnrollingOK, CreatingOK, ActivatingOK, FinishingOK, BeatingOK, ErasingOK, Enrolling, Creating

LEMMA RecordActiveStep ==
  ASSUME IInv, RecordActive
  PROVE  IInv'
<1>1. /\ UNCHANGED <<secrets, database, requests, clock, ghost, purge>> /\ pc = "record_active"
      /\ pc' = "down" /\ reply' = NoAnswer
  BY DEF RecordActive, Goto
<1>2. TypeOK /\ TablesOK /\ IdentityOK /\ RotationOK /\ ProcessOK /\ HeldOK /\ SecretsOK /\ AcceptedOK
  BY DEF IInv
<1>3. /\ identity.exists /\ ~ identity.enrolled /\ reply.kind = "ok" /\ reply.cred # None
      /\ Ref("active", reply.cred) \in secrets
  BY <1>1, <1>2 DEF ProcessOK, EnrollingOK, Enrolling
<1>4. PICK t \in Tokens : RegisteredHere(t) /\ registered[t].cred = reply.cred
  BY <1>1, <1>2 DEF ProcessOK, EnrollingOK, Enrolling
<1>5. Ref("active", reply.cred) \in Refs /\ Ref("active", reply.cred).cred = reply.cred
  BY <1>2, <1>3, References DEF TypeOK
<1>6. /\ identity' \in Identity /\ identity'.rotation = "none"
      /\ identity'.exists = identity.exists /\ identity'.install = identity.install
      /\ identity'.enrolled = TRUE /\ identity'.revoked = identity.revoked
      /\ identity'.active = Ref("active", reply.cred) /\ identity'.pending = identity.pending
      /\ identity'.previous = identity.previous /\ identity'.key = identity.key
  BY <1>2, <1>5 DEF RecordActive, TypeOK, Identity, RotationStates
<1>7. /\ agent' = agent /\ credentials' = credentials /\ created' = created /\ activated' = activated
      /\ registered' = registered /\ drawn' = drawn
  BY <1>1, Database DEF ghost
<1>8. /\ identity.rotation = "none" /\ ~ identity.revoked /\ identity.active = NoRef
      /\ identity.pending = NoRef /\ identity.previous = NoRef
  BY <1>2, <1>3 DEF IdentityOK, RotationOK
<1>9. KeysCarry
  BY <1>6, <1>7, <1>8, SameKey
<1>10. RequestsOK'
  BY <1>1, <1>9, RequestsCarry DEF Unawaited, Waiting
<1>11. TypeOK'
  BY <1>1, <1>2, <1>6, Replies DEF TypeOK, database, idempotency, clock, ghost, Labels
<1>12. ProcessOK'
  BY <1>1, <1>3, <1>6, DownRowOK
<1>13. Settled(reply.cred)
  BY <1>2, <1>3, <1>4 DEF TablesOK, RegisteredOK
<1>14. IdentityOK'
  BY <1>2, <1>3, <1>4, <1>5, <1>6, <1>7, <1>8, <1>13 DEF IdentityOK, RegisteredHere, Settled
<1>15. RotationOK'
  BY <1>2, <1>6, <1>7, <1>8 DEF RotationOK, Rotating
<1>16. HeldOK'
  BY <1>1, <1>3, <1>6 DEF HeldOK
<1>17. (AtMostOneToken' <=> AtMostOneToken) /\ (AtMostOneToken => \A s \in Tokens : RegisteredHere(s) => s = t)
  BY <1>4, <1>6, <1>7 DEF AtMostOneToken, RegisteredHere
<1>18. SecretsOK'
  <2> SUFFICES ASSUME purge = "never", AtMostOneToken, NEW ref \in secrets PROVE Accounted(ref)'
    BY <1>1, <1>3, <1>6, <1>17 DEF SecretsOK
  <2>1. Accounted(ref) /\ ref # NoRef
    BY <1>2, References DEF SecretsOK, TypeOK
  <2> QED
    BY <1>4, <1>6, <1>8, <1>17, <2>1 DEF Accounted
<1>19. AcceptedOK'
  <2> SUFFICES ASSUME agent.install = identity.install, AtMostOneToken, NEW c \in Active PROVE Current(c)'
    BY <1>6, <1>7, <1>17 DEF AcceptedOK, Active
  <2>1. Current(c)
    BY <1>2, <1>3, <1>8 DEF AcceptedOK
  <2>2. c = reply.cred
    BY <1>3, <1>4, <1>17, <2>1 DEF Current
  <2> QED
    BY <1>5, <1>6, <2>2 DEF Current
<1> QED
  BY <1>1, <1>9, <1>10, <1>11, <1>12, <1>14, <1>15, <1>16, <1>18, <1>19, RowStep

\* An enrolment is sent for an installation that was drawn before.
LEMMA EnrollSends ==
  ASSUME IInv, NEW t \in Tokens, Enroll(t), identity'.install \in Installs, identity'.install <= drawn'.install
  PROVE  \E q \in Requests : requests' = requests \union {q} /\ RequestOK(q)'
<1>1. pc' = "register" /\ reply' = NoAnswer
  BY DEF Enroll, Goto
<1>2. PICK q \in Requests : q = [op |-> "register", cred |-> None, key |-> None, token |-> t,
                                 install |-> identity'.install, admitted |-> FALSE, awaited |-> TRUE]
  BY DEF Requests, Waiting
<1>3. requests' = requests \union {q}
  BY <1>2 DEF Enroll, Send
<1>4. RequestOK(q)'
  BY <1>1, <1>2 DEF RequestOK, RegisterOK, CreateOK, ActivateOK, AwaitedOK
<1> QED
  BY <1>3, <1>4

LEMMA EnrollStep ==
  ASSUME IInv, NEW t \in Tokens, Enroll(t)
  PROVE  IInv'
<1>1. /\ UNCHANGED <<secrets, database, clock, faults, admin, purge>> /\ pc = "down" /\ ~ identity.enrolled
      /\ pc' = "register" /\ reply' = NoAnswer
  BY DEF Enroll, Goto
<1>2. TypeOK /\ TablesOK /\ IdentityOK /\ RotationOK /\ ProcessOK /\ HeldOK /\ SecretsOK /\ AcceptedOK
  BY DEF IInv
<1>3. Unawaited
  BY <1>1 DEF Unawaited, Waiting
<1>4. drawn.install \in Nat /\ drawn.key \in Nat /\ drawn.install \in 0 .. MaxInstalls /\ MaxInstalls \in Nat
  BY <1>2, Bounds DEF TypeOK
<1>5. CASE identity.exists
  <2>1. identity' = identity /\ drawn' = drawn
    BY <1>5 DEF Enroll
  <2>2. identity.install \in Installs /\ identity.install <= drawn.install
    BY <1>2, <1>4, <1>5 DEF IdentityOK, Installs
  <2>3. PICK q \in Requests : requests' = requests \union {q} /\ RequestOK(q)'
    BY <2>1, <2>2, EnrollSends
  <2>4. (requests' \subseteq Requests) => TypeOK'
    BY <1>1, <1>2, <2>1, Replies DEF TypeOK, database, idempotency, clock, Labels, Waiting
  <2>5. ProcessOK'
    BY <1>1, <1>2, <1>5, <2>1, Replies DEF ProcessOK, EnrollingOK, CreatingOK, ActivatingOK, FinishingOK, BeatingOK,
         ErasingOK, Enrolling, Creating
  <2> QED
    BY <1>1, <1>3, <2>1, <2>3, <2>4, <2>5, SendStep DEF disk
<1>6. CASE ~ identity.exists
  <2>1. /\ drawn.install < MaxInstalls /\ drawn' = [drawn EXCEPT !.install = @ + 1]
        /\ identity' = [NoIdentity EXCEPT !.exists = TRUE, !.install = drawn.install + 1]
        /\ identity = NoIdentity
    BY <1>2, <1>6 DEF Enroll, IdentityOK
  <2>2. drawn.install + 1 \in Installs /\ drawn.install + 1 \in 0 .. MaxInstalls /\ drawn.install + 1 \in Nat
    BY <1>4, <2>1 DEF Installs
  <2>3. /\ drawn' \in [key : 0 .. MaxKeys, install : 0 .. MaxInstalls]
        /\ drawn'.install = drawn.install + 1 /\ drawn'.key = drawn.key
    BY <1>2, <2>1, <2>2 DEF TypeOK
  <2>4. /\ identity' \in Identity /\ identity'.exists /\ identity'.install = drawn.install + 1
        /\ ~ identity'.enrolled /\ ~ identity'.revoked /\ identity'.active = NoRef /\ identity'.pending = NoRef
        /\ identity'.previous = NoRef /\ identity'.rotation = "none" /\ identity'.key = None
    BY <2>1, <2>2 DEF NoIdentity, Identity, RotationStates
  <2>5. /\ identity.install = None /\ ~ identity.enrolled /\ identity.active = NoRef /\ identity.pending = NoRef
        /\ identity.previous = NoRef /\ identity.rotation = "none" /\ identity.key = None
    BY <2>1 DEF NoIdentity
  <2>6. /\ agent' = agent /\ registered' = registered /\ credentials' = credentials
    BY <1>1, Database
  <2>7. KeysCarry
    BY <1>4, <2>2, <2>3, <2>4, <2>5, Numbers DEF KeysCarry
  <2>8. PICK q \in Requests : requests' = requests \union {q} /\ RequestOK(q)'
    BY <2>2, <2>3, <2>4, EnrollSends
  <2>9. RequestsOK' /\ requests' \subseteq Requests
    BY <1>1, <1>3, <2>7, <2>8, RequestsSent
  <2>10. TypeOK'
    BY <1>1, <1>2, <2>3, <2>4, <2>9, Replies DEF TypeOK, database, idempotency, clock, Labels, Waiting
  <2>11. ProcessOK'
    BY <1>1, <1>2, <2>4, Replies DEF ProcessOK, EnrollingOK, CreatingOK, ActivatingOK, FinishingOK, BeatingOK,
         ErasingOK, Enrolling, Creating
  <2>12. IdentityOK' /\ RotationOK'
    <3>1. identity'.install \in 1 .. drawn'.install
      BY <1>4, <2>3, <2>4
    <3> QED
      BY <2>4, <3>1 DEF IdentityOK, RotationOK, Rotating
  <2>13. HeldOK'
    BY <2>4 DEF HeldOK
  <2>14. purge = "never" => secrets = {}
    <3> SUFFICES ASSUME purge = "never", NEW ref \in secrets PROVE FALSE
      OBVIOUS
    <3>1. Accounted(ref) /\ ref \in Refs
      BY <1>2, <1>6 DEF SecretsOK, TypeOK
    <3>2. PICK s \in Tokens : RegisteredHere(s) /\ ref = Ref("active", registered[s].cred)
      BY <2>5, <3>1, References DEF Accounted
    <3>3. registered[s].install = None
      BY <2>5, <3>2 DEF RegisteredHere
    <3>4. registered[s].cred = None
      BY <1>2, <1>4, <3>3 DEF TablesOK, RegisteredOK, None
    <3> QED
      BY <3>1, <3>2, <3>4, References, Numbers
  <2>15. SecretsOK'
    BY <1>1, <2>14 DEF SecretsOK
  <2>16. AcceptedOK'
    <3>1. agent.install <= drawn.install
      BY <1>2 DEF TablesOK
    <3> QED
      BY <1>4, <2>4, <2>6, <3>1 DEF AcceptedOK
  <2> QED
    BY <1>1, <2>7, <2>9, <2>10, <2>11, <2>12, <2>13, <2>15, <2>16, RowStep
<1> QED
  BY <1>5, <1>6

LEMMA BeginRotationStep ==
  ASSUME IInv, BeginRotation
  PROVE  IInv'
<1>1. /\ UNCHANGED <<secrets, database, requests, clock, faults, admin, purge>> /\ pc = "ready" /\ identity.enrolled
      /\ pc' = "rotate" /\ reply' = NoAnswer /\ identity.rotation = "none" /\ drawn.key < MaxKeys
  BY DEF BeginRotation, Goto
<1>2. TypeOK /\ TablesOK /\ IdentityOK /\ RotationOK /\ ProcessOK /\ HeldOK /\ SecretsOK /\ AcceptedOK
  BY DEF IInv
<1>3. drawn.install \in Nat /\ drawn.key \in Nat /\ MaxKeys \in Nat
  BY <1>2, Bounds DEF TypeOK
<1>4. drawn.key + 1 \in Keys /\ drawn.key + 1 \in 0 .. MaxKeys /\ drawn.key + 1 \in Nat
  BY <1>1, <1>3 DEF Keys
<1>5. /\ drawn' \in [key : 0 .. MaxKeys, install : 0 .. MaxInstalls]
      /\ drawn'.install = drawn.install /\ drawn'.key = drawn.key + 1
  BY <1>2, <1>4 DEF BeginRotation, TypeOK
<1>6. /\ identity' \in Identity /\ identity'.rotation = "requested" /\ identity'.key = drawn.key + 1
      /\ identity'.exists = identity.exists /\ identity'.install = identity.install
      /\ identity'.enrolled = identity.enrolled /\ identity'.revoked = identity.revoked
      /\ identity'.active = identity.active /\ identity'.pending = identity.pending
      /\ identity'.previous = identity.previous
  BY <1>2, <1>4 DEF BeginRotation, TypeOK, Identity, RotationStates
<1>7. /\ agent' = agent /\ credentials' = credentials /\ created' = created /\ activated' = activated
      /\ registered' = registered
  BY <1>1, Database
<1>8. identity.key = None /\ identity.pending = NoRef /\ identity.previous = NoRef
  BY <1>1, <1>2 DEF RotationOK, Rotating
<1>9. KeysCarry
  BY <1>3, <1>4, <1>5, <1>6, <1>8, Numbers DEF KeysCarry
<1>10. RequestsOK'
  BY <1>1, <1>9, RequestsCarry DEF Unawaited, Waiting
<1>11. TypeOK'
  BY <1>1, <1>2, <1>5, <1>6, Replies DEF TypeOK, database, idempotency, clock, Labels
<1>12. ProcessOK'
  BY <1>1, <1>2, <1>6 DEF ProcessOK, EnrollingOK, CreatingOK, ActivatingOK, FinishingOK, BeatingOK,
       ErasingOK, Enrolling, Creating, Rotating
<1>13. IdentityOK'
  BY <1>1, <1>2, <1>5, <1>6, <1>7 DEF IdentityOK, RegisteredHere, Settled
<1>14. \A c \in Creds : <<c, drawn.key + 1>> \notin activated
  <2> SUFFICES ASSUME NEW c \in Creds, <<c, drawn.key + 1>> \in activated PROVE FALSE
    OBVIOUS
  <2>1. created[drawn.key + 1] = c /\ c # None
    BY <1>2, <1>4, Numbers DEF TablesOK, ActivatedOK
  <2>2. drawn.key + 1 <= drawn.key
    BY <1>2, <1>4, <2>1 DEF TablesOK, CreatedOK
  <2> QED
    BY <1>3, <2>2
<1>15. RotationOK'
  BY <1>3, <1>4, <1>5, <1>6, <1>7, <1>8, <1>14 DEF RotationOK, Rotating
<1>16. HeldOK'
  BY <1>1, <1>2, <1>6 DEF HeldOK
<1>17. AtMostOneToken' <=> AtMostOneToken
  BY <1>6, <1>7 DEF AtMostOneToken, RegisteredHere
<1>18. SecretsOK'
  BY <1>1, <1>2, <1>6, <1>7, <1>17 DEF SecretsOK, Accounted, RegisteredHere
<1>19. AcceptedOK'
  BY <1>1, <1>2, <1>6, <1>7, <1>17 DEF AcceptedOK, Active, Current, RegisteredHere
<1> QED
  BY <1>1, <1>9, <1>10, <1>11, <1>12, <1>13, <1>15, <1>16, <1>18, <1>19, RowStep

LEMMA RecordPendingStep ==
  ASSUME IInv, RecordPending
  PROVE  IInv'
<1>1. /\ UNCHANGED <<secrets, database, requests, clock, ghost, purge>> /\ pc = "record_pending"
      /\ pc' = "rotate" /\ reply' = NoAnswer
  BY DEF RecordPending, Goto
<1>2. TypeOK /\ TablesOK /\ IdentityOK /\ RotationOK /\ ProcessOK /\ HeldOK /\ SecretsOK /\ AcceptedOK
  BY DEF IInv
<1>3. /\ identity.rotation = "requested" /\ reply.cred # None /\ reply.cred = created[identity.key]
      /\ Ref("pending", reply.cred) \in secrets
  BY <1>1, <1>2 DEF ProcessOK, CreatingOK, Creating
<1>4. Ref("pending", reply.cred) \in Refs
  BY <1>2, <1>3, References DEF TypeOK
<1>5. /\ identity' \in Identity /\ identity'.rotation = "pending_stored" /\ identity'.key = identity.key
      /\ identity'.exists = identity.exists /\ identity'.install = identity.install
      /\ identity'.enrolled = identity.enrolled /\ identity'.revoked = identity.revoked
      /\ identity'.active = identity.active /\ identity'.pending = Ref("pending", reply.cred)
      /\ identity'.previous = identity.previous
  BY <1>2, <1>4 DEF RecordPending, TypeOK, Identity, RotationStates
<1>6. /\ agent' = agent /\ credentials' = credentials /\ created' = created /\ activated' = activated
      /\ registered' = registered /\ drawn' = drawn
  BY <1>1, Database DEF ghost
<1>7. identity.pending = NoRef /\ identity.previous = NoRef
  BY <1>2, <1>3 DEF RotationOK
<1>8. KeysCarry
  BY <1>3, <1>5, <1>6, SameKey
<1>9. RequestsOK'
  BY <1>1, <1>8, RequestsCarry DEF Unawaited, Waiting
<1>10. TypeOK'
  BY <1>1, <1>2, <1>5, Replies DEF TypeOK, database, idempotency, clock, ghost, Labels
<1>11. ProcessOK'
  BY <1>1, <1>2, <1>5 DEF ProcessOK, EnrollingOK, CreatingOK, ActivatingOK, FinishingOK, BeatingOK,
       ErasingOK, Enrolling, Creating, Rotating
<1>12. IdentityOK' /\ RotationOK'
  BY <1>2, <1>3, <1>5, <1>6, <1>7 DEF IdentityOK, RotationOK, Rotating, RegisteredHere, Settled
<1>13. HeldOK'
  BY <1>1, <1>2, <1>3, <1>5 DEF HeldOK
<1>14. AtMostOneToken' <=> AtMostOneToken
  BY <1>5, <1>6 DEF AtMostOneToken, RegisteredHere
<1>15. SecretsOK'
  <2>1. \A ref \in Refs : Accounted(ref) => Accounted(ref)'
    BY <1>3, <1>5, <1>6, <1>7, References DEF Accounted, RegisteredHere
  <2> QED
    BY <1>1, <1>2, <1>5, <1>14, <2>1 DEF SecretsOK, TypeOK
<1>16. AcceptedOK'
  BY <1>2, <1>3, <1>5, <1>6, <1>14 DEF AcceptedOK, Active, Current, RegisteredHere
<1> QED
  BY <1>1, <1>8, <1>9, <1>10, <1>11, <1>12, <1>13, <1>15, <1>16, RowStep

LEMMA CutoverStep ==
  ASSUME IInv, Cutover
  PROVE  IInv'
<1>1. /\ UNCHANGED <<secrets, database, requests, clock, ghost, purge>> /\ pc = "cutover"
      /\ pc' = "drop_previous" /\ reply' = NoAnswer
  BY DEF Cutover, Goto
<1>2. TypeOK /\ TablesOK /\ IdentityOK /\ RotationOK /\ ProcessOK /\ HeldOK /\ SecretsOK /\ AcceptedOK
  BY DEF IInv
<1>3. identity.rotation = "activation_uncertain" /\ <<created[identity.key], identity.key>> \in activated
  BY <1>1, <1>2 DEF ProcessOK, ActivatingOK
<1>4. /\ identity.key \in Keys /\ created[identity.key] # None
      /\ identity.pending = Ref("pending", created[identity.key]) /\ identity.previous = NoRef
  BY <1>2, <1>3 DEF RotationOK, Rotating
<1>5. /\ identity' \in Identity /\ identity'.rotation = "activated" /\ identity'.key = identity.key
      /\ identity'.exists = identity.exists /\ identity'.install = identity.install
      /\ identity'.enrolled = identity.enrolled /\ identity'.revoked = identity.revoked
      /\ identity'.active = identity.pending /\ identity'.pending = identity.pending
      /\ identity'.previous = identity.active
  BY <1>2 DEF Cutover, TypeOK, Identity, RotationStates
<1>6. /\ agent' = agent /\ credentials' = credentials /\ created' = created /\ activated' = activated
      /\ registered' = registered /\ drawn' = drawn
  BY <1>1, Database DEF ghost
<1>7. identity.pending.cred = created[identity.key] /\ Settled(identity.pending.cred) /\ identity.enrolled
  <2>1. created[identity.key] \in Creds
    BY <1>4, CreatedIssued
  <2> QED
    BY <1>2, <1>3, <1>4, <2>1, References DEF TablesOK, ActivatedOK, IdentityOK
<1>8. KeysCarry
  BY <1>5, <1>6, SameKey
<1>9. RequestsOK'
  BY <1>1, <1>8, RequestsCarry DEF Unawaited, Waiting
<1>10. TypeOK'
  BY <1>1, <1>2, <1>5, Replies DEF TypeOK, database, idempotency, clock, ghost, Labels
<1>11. ProcessOK'
  BY <1>1, <1>2, <1>5 DEF ProcessOK, EnrollingOK, CreatingOK, ActivatingOK, FinishingOK, BeatingOK,
       ErasingOK, Enrolling, Creating, Rotating
<1>12. IdentityOK' /\ RotationOK'
  BY <1>2, <1>3, <1>4, <1>5, <1>6, <1>7 DEF IdentityOK, RotationOK, Rotating, RegisteredHere, Settled
<1>13. HeldOK'
  BY <1>1, <1>2, <1>3, <1>5 DEF HeldOK
<1>14. AtMostOneToken' <=> AtMostOneToken
  BY <1>5, <1>6 DEF AtMostOneToken, RegisteredHere
<1>15. SecretsOK'
  <2>1. \A ref \in Refs : Accounted(ref) => Accounted(ref)'
    BY <1>3, <1>4, <1>5, <1>6, References DEF Accounted, RegisteredHere
  <2> QED
    BY <1>1, <1>2, <1>5, <1>14, <2>1 DEF SecretsOK, TypeOK
<1>16. AcceptedOK'
  BY <1>2, <1>3, <1>5, <1>6, <1>7, <1>14 DEF AcceptedOK, Active, Current, RegisteredHere
<1> QED
  BY <1>1, <1>8, <1>9, <1>10, <1>11, <1>12, <1>13, <1>15, <1>16, RowStep

LEMMA ClearRotationStep ==
  ASSUME IInv, ClearRotation
  PROVE  IInv'
<1>1. /\ UNCHANGED <<secrets, database, requests, clock, ghost, purge>> /\ pc = "clear"
      /\ pc' = "ready" /\ reply' = NoAnswer
  BY DEF ClearRotation, Goto
<1>2. TypeOK /\ TablesOK /\ IdentityOK /\ RotationOK /\ ProcessOK /\ HeldOK /\ SecretsOK /\ AcceptedOK
  BY DEF IInv
<1>3. /\ identity.rotation = "activated"
      /\ identity.previous \in {NoRef, identity.active} \/ identity.previous \notin secrets
  BY <1>1, <1>2 DEF ProcessOK, FinishingOK
<1>4. /\ identity.key \in Keys /\ created[identity.key] # None /\ <<created[identity.key], identity.key>> \in activated
      /\ identity.active = identity.pending /\ identity.enrolled /\ ~ identity.revoked
  BY <1>2, <1>3 DEF RotationOK, Rotating, IdentityOK
<1>5. /\ identity' \in Identity /\ identity'.rotation = "none" /\ identity'.key = None
      /\ identity'.exists = identity.exists /\ identity'.install = identity.install
      /\ identity'.enrolled = identity.enrolled /\ identity'.revoked = identity.revoked
      /\ identity'.active = identity.active /\ identity'.pending = NoRef /\ identity'.previous = NoRef
  BY <1>2 DEF ClearRotation, TypeOK, Identity, RotationStates
<1>6. /\ agent' = agent /\ credentials' = credentials /\ created' = created /\ activated' = activated
      /\ registered' = registered /\ drawn' = drawn
  BY <1>1, Database DEF ghost
<1>7. drawn.key \in Nat /\ drawn.install \in Nat
  BY <1>2, Bounds DEF TypeOK
<1>8. KeysCarry
  BY <1>4, <1>5, <1>6, <1>7, Numbers DEF KeysCarry
<1>9. RequestsOK'
  BY <1>1, <1>8, RequestsCarry DEF Unawaited, Waiting
<1>10. TypeOK'
  BY <1>1, <1>2, <1>5, Replies DEF TypeOK, database, idempotency, clock, ghost, Labels
<1>11. ProcessOK'
  BY <1>1, <1>2, <1>5 DEF ProcessOK, EnrollingOK, CreatingOK, ActivatingOK, FinishingOK, BeatingOK,
       ErasingOK, Enrolling, Creating, Rotating
<1>12. IdentityOK' /\ RotationOK'
  BY <1>2, <1>4, <1>5, <1>6 DEF IdentityOK, RotationOK, Rotating, RegisteredHere, Settled
<1>13. HeldOK'
  BY <1>1, <1>2, <1>5 DEF HeldOK
<1>14. AtMostOneToken' <=> AtMostOneToken
  BY <1>5, <1>6 DEF AtMostOneToken, RegisteredHere
<1>15. SecretsOK'
  <2>1. \A ref \in secrets : Accounted(ref) => Accounted(ref)'
    BY <1>2, <1>3, <1>4, <1>5, <1>6, References DEF Accounted, RegisteredHere, TypeOK
  <2> QED
    BY <1>1, <1>2, <1>5, <1>14, <2>1 DEF SecretsOK, TypeOK
<1>16. AcceptedOK'
  BY <1>2, <1>3, <1>4, <1>5, <1>6, <1>14 DEF AcceptedOK, Active, Current, RegisteredHere
<1> QED
  BY <1>1, <1>8, <1>9, <1>10, <1>11, <1>12, <1>13, <1>15, <1>16, RowStep

LEMMA BeatReplyStep ==
  ASSUME IInv, BeatReply
  PROVE  IInv'
<1>1. /\ UNCHANGED <<secrets, database, requests, clock, ghost, purge>> /\ pc = "beat" /\ reply # NoAnswer
      /\ reply' = NoAnswer
  BY DEF BeatReply, Goto
<1>2. TypeOK /\ TablesOK /\ IdentityOK /\ RotationOK /\ ProcessOK /\ HeldOK /\ SecretsOK /\ AcceptedOK
  BY DEF IInv
<1>3. identity.rotation = "none" /\ identity.active # NoRef
  BY <1>1, <1>2 DEF ProcessOK, BeatingOK
<1>4. CASE reply.kind # "rejected"
  <2>1. pc' = "ready" /\ identity' = identity
    BY <1>4 DEF BeatReply, Goto
  <2>2. TypeOK'
    BY <1>1, <1>2, <2>1, Replies DEF TypeOK, database, idempotency, clock, ghost, Labels
  <2>3. ProcessOK'
    BY <1>1, <1>2, <1>3, <2>1 DEF ProcessOK, EnrollingOK, CreatingOK, ActivatingOK, FinishingOK, BeatingOK,
         ErasingOK, Enrolling, Creating, Rotating
  <2> QED
    BY <1>1, <2>1, <2>2, <2>3, MoveStep DEF disk, ghost, Unawaited
<1>5. CASE reply.kind = "rejected"
  <2>1. /\ pc' = "erase" /\ identity' \in Identity /\ identity'.rotation = "revoked" /\ identity'.key = identity.key
        /\ identity'.exists = identity.exists /\ identity'.install = identity.install
        /\ identity'.enrolled = identity.enrolled /\ identity'.revoked = TRUE
        /\ identity'.active = identity.active /\ identity'.pending = identity.pending
        /\ identity'.previous = identity.previous
    <3>1. pc' = "erase" /\ identity' = [identity EXCEPT !.revoked = TRUE, !.rotation = "revoked"]
      BY <1>5 DEF BeatReply, Goto
    <3> QED
      BY <1>2, <3>1 DEF TypeOK, Identity, RotationStates
  <2>2. /\ agent' = agent /\ credentials' = credentials /\ created' = created /\ activated' = activated
        /\ registered' = registered /\ drawn' = drawn
    BY <1>1, Database DEF ghost
  <2>3. KeysCarry
    BY <1>3, <2>1, <2>2, SameKey
  <2>4. RequestsOK'
    BY <1>1, <2>3, RequestsCarry DEF Unawaited
  <2>5. TypeOK'
    BY <1>1, <1>2, <2>1, Replies DEF TypeOK, database, idempotency, clock, ghost, Labels
  <2>6. ProcessOK'
    BY <1>1, <1>2, <2>1 DEF ProcessOK, EnrollingOK, CreatingOK, ActivatingOK, FinishingOK, BeatingOK,
         ErasingOK, Enrolling, Creating, Rotating
  <2>7. IdentityOK' /\ RotationOK'
    BY <1>2, <1>3, <2>1, <2>2 DEF IdentityOK, RotationOK, Rotating, RegisteredHere, Settled
  <2>8. HeldOK' /\ AcceptedOK'
    BY <2>1 DEF HeldOK, AcceptedOK
  <2>9. AtMostOneToken' <=> AtMostOneToken
    BY <2>1, <2>2 DEF AtMostOneToken, RegisteredHere
  <2>10. SecretsOK'
    BY <1>1, <1>2, <1>3, <2>1, <2>2, <2>9 DEF SecretsOK, Accounted, RegisteredHere
  <2> QED
    BY <1>1, <2>3, <2>4, <2>5, <2>6, <2>7, <2>8, <2>10, RowStep
<1> QED
  BY <1>4, <1>5

LEMMA ForgetRowStep ==
  ASSUME IInv, Forget
  PROVE  IInv'
<1>1. /\ UNCHANGED <<secrets, database, requests, clock, ghost, purge>> /\ pc = "forget"
      /\ pc' = "ready" /\ reply' = NoAnswer
  BY DEF Forget, Goto
<1>2. TypeOK /\ TablesOK /\ IdentityOK /\ RotationOK /\ ProcessOK /\ HeldOK /\ SecretsOK /\ AcceptedOK
  BY DEF IInv
<1>3. /\ identity.revoked /\ identity.rotation = "revoked" /\ identity.enrolled
      /\ \A ref \in {identity.active, identity.pending, identity.previous} : ref \notin secrets
  BY <1>1, <1>2 DEF ProcessOK, ErasingOK, IdentityOK
<1>4. /\ identity' \in Identity /\ identity'.rotation = identity.rotation /\ identity'.key = identity.key
      /\ identity'.exists = identity.exists /\ identity'.install = identity.install
      /\ identity'.enrolled = identity.enrolled /\ identity'.revoked = identity.revoked
      /\ identity'.active = NoRef /\ identity'.pending = NoRef /\ identity'.previous = NoRef
  BY <1>2 DEF Forget, TypeOK, Identity
<1>5. /\ agent' = agent /\ credentials' = credentials /\ created' = created /\ activated' = activated
      /\ registered' = registered /\ drawn' = drawn
  BY <1>1, Database DEF ghost
<1>6. KeysCarry
  BY <1>3, <1>4, <1>5, SameKey
<1>7. RequestsOK'
  BY <1>1, <1>6, RequestsCarry DEF Unawaited, Waiting
<1>8. TypeOK'
  BY <1>1, <1>2, <1>4, Replies DEF TypeOK, database, idempotency, clock, ghost, Labels
<1>9. ProcessOK'
  BY <1>1, <1>2, <1>3, <1>4 DEF ProcessOK, EnrollingOK, CreatingOK, ActivatingOK, FinishingOK, BeatingOK,
       ErasingOK, Enrolling, Creating, Rotating
<1>10. IdentityOK' /\ RotationOK'
  BY <1>2, <1>3, <1>4, <1>5 DEF IdentityOK, RotationOK, Rotating, RegisteredHere
<1>11. HeldOK' /\ AcceptedOK'
  BY <1>3, <1>4 DEF HeldOK, AcceptedOK
<1>12. AtMostOneToken' <=> AtMostOneToken
  BY <1>4, <1>5 DEF AtMostOneToken, RegisteredHere
<1>13. SecretsOK'
  BY <1>1, <1>2, <1>3, <1>4, <1>12 DEF SecretsOK, Accounted
<1> QED
  BY <1>1, <1>6, <1>7, <1>8, <1>9, <1>10, <1>11, <1>13, RowStep

\* A secret goes; the row stays.
LEMMA DropStep ==
  ASSUME IInv, UNCHANGED <<identity, database, requests, clock, drawn, admin, purge>>, Unawaited,
         secrets' \subseteq secrets, faults' \in 0 .. MaxFaults, pc' \in Labels, reply' \in Answers,
         HeldOK', ProcessOK'
  PROVE  IInv'
<1>1. KeysCarry /\ TablesOK' /\ IdentityOK' /\ RotationOK' /\ AcceptedOK'
  BY RowStays
<1>2. RequestsOK'
  BY <1>1, RequestsCarry
<1>3. TypeOK'
  BY DEF IInv, TypeOK, database, idempotency, clock
<1>4. created' = created /\ registered' = registered
  BY Database
<1>5. (AtMostOneToken' <=> AtMostOneToken) /\ \A s : Accounted(s)' <=> Accounted(s)
  BY <1>4 DEF AtMostOneToken, RegisteredHere, Accounted
<1>6. SecretsOK'
  BY <1>5 DEF IInv, SecretsOK
<1> QED
  BY <1>1, <1>2, <1>3, <1>6 DEF IInv

LEMMA DropEffects ==
  ASSUME IInv, NEW ref, NEW next, NEW failed, Drop(ref, next, failed)
  PROVE  /\ secrets' \subseteq secrets /\ faults' \in 0 .. MaxFaults
         /\ secrets \ {ref} \subseteq secrets' /\ reply' = NoAnswer
         /\ (pc' = next /\ ref \notin secrets') \/ pc' = failed
<1>1. faults \in 0 .. MaxFaults /\ MaxFaults \in Nat
  BY CredentialAssumption DEF IInv, TypeOK
<1> QED
  BY <1>1 DEF Drop, Goto

LEMMA DropPreviousStep ==
  ASSUME IInv, DropPrevious
  PROVE  IInv'
<1>1. /\ UNCHANGED <<identity, database, requests, clock, drawn, admin, purge>> /\ pc = "drop_previous"
  BY DEF DropPrevious
<1>2. TypeOK /\ IdentityOK /\ RotationOK /\ ProcessOK /\ HeldOK
  BY DEF IInv
<1>3. identity.rotation = "activated"
  BY <1>1, <1>2 DEF ProcessOK, FinishingOK
<1>4. /\ secrets' \subseteq secrets /\ faults' \in 0 .. MaxFaults /\ pc' \in {"clear", "down"} /\ reply' \in Answers
      /\ secrets \ {identity.previous} \subseteq secrets'
      /\ pc' = "clear" => identity.previous \in {NoRef, identity.active} \/ identity.previous \notin secrets'
      /\ identity.previous = identity.active => secrets' = secrets
  <2>1. CASE identity.previous \notin {NoRef, identity.active}
    <3>1. Drop(identity.previous, "clear", "down")
      BY <2>1 DEF DropPrevious
    <3> QED
      BY <2>1, <3>1, DropEffects, Replies
  <2>2. CASE identity.previous \in {NoRef, identity.active}
    BY <1>2, <2>2 DEF DropPrevious, TypeOK
  <2> QED
    BY <2>1, <2>2
<1>5. HeldOK'
  BY <1>1, <1>2, <1>3, <1>4 DEF HeldOK
<1>6. ProcessOK'
  BY <1>1, <1>2, <1>3, <1>4 DEF ProcessOK, EnrollingOK, CreatingOK, ActivatingOK, FinishingOK, BeatingOK,
       ErasingOK, Enrolling, Creating, Rotating
<1>7. Unawaited /\ pc' \in Labels
  BY <1>1, <1>4 DEF Unawaited, Waiting, Labels
<1> QED
  BY <1>1, <1>4, <1>5, <1>6, <1>7, DropStep

LEMMA NoneHeld ==
  ASSUME TypeOK, FirstHeld = NoRef
  PROVE  \A ref \in {identity.active, identity.pending, identity.previous} : ref \notin secrets
<1>1. NoRef \notin secrets
  BY References DEF TypeOK
<1> QED
  BY <1>1 DEF FirstHeld

LEMMA EraseStep ==
  ASSUME IInv, Erase
  PROVE  IInv'
<1>1. /\ UNCHANGED <<identity, database, requests, clock, drawn, admin, purge>> /\ pc = "erase"
  BY DEF Erase
<1>2. TypeOK /\ IdentityOK /\ RotationOK /\ ProcessOK /\ HeldOK
  BY DEF IInv
<1>3. identity.revoked /\ identity.rotation = "revoked"
  BY <1>1, <1>2 DEF ProcessOK, ErasingOK, IdentityOK
<1>4. /\ secrets' \subseteq secrets /\ faults' \in 0 .. MaxFaults /\ pc' \in {"erase", "forget", "down"}
      /\ reply' \in Answers /\ (pc' = "forget" => secrets' = secrets /\ FirstHeld = NoRef)
  <2>1. CASE FirstHeld = NoRef
    <3>1. pc' = "forget" /\ reply' = NoAnswer /\ secrets' = secrets /\ faults' = faults
      BY <2>1 DEF Erase, Goto
    <3> QED
      BY <1>2, <2>1, <3>1, Replies DEF TypeOK
  <2>2. CASE FirstHeld # NoRef
    <3>1. Drop(FirstHeld, "erase", "down")
      BY <2>2 DEF Erase
    <3> QED
      BY <3>1, DropEffects, Replies
  <2> QED
    BY <2>1, <2>2
<1>5. HeldOK'
  BY <1>1, <1>3 DEF HeldOK
<1>6. ProcessOK'
  BY <1>1, <1>2, <1>3, <1>4, NoneHeld DEF ProcessOK, EnrollingOK, CreatingOK, ActivatingOK, FinishingOK, BeatingOK,
       ErasingOK, Enrolling, Creating, Rotating
<1>7. Unawaited /\ pc' \in Labels
  BY <1>1, <1>4 DEF Unawaited, Waiting, Labels
<1> QED
  BY <1>1, <1>4, <1>5, <1>6, <1>7, DropStep

LEMMA BeginPurgeStep ==
  ASSUME IInv, BeginPurge
  PROVE  IInv'
<1>1. /\ UNCHANGED <<disk, database, requests, clock, ghost>> /\ pc = "ready" /\ identity.exists
      /\ purge' = "begun" /\ pc' = "purge" /\ reply' = NoAnswer
  BY DEF BeginPurge, Goto
<1>2. identity' = identity /\ secrets' = secrets /\ drawn' = drawn
  BY <1>1 DEF disk, ghost
<1>3. KeysCarry /\ TablesOK' /\ IdentityOK' /\ RotationOK' /\ AcceptedOK'
  BY <1>1, <1>2, RowStays
<1>4. RequestsOK'
  BY <1>1, <1>3, RequestsCarry DEF Unawaited, Waiting
<1>5. TypeOK'
  BY <1>1, Replies DEF IInv, TypeOK, disk, database, idempotency, clock, ghost, Labels
<1>6. ProcessOK'
  BY <1>1, <1>2 DEF IInv, ProcessOK, EnrollingOK, CreatingOK, ActivatingOK, FinishingOK, BeatingOK,
       ErasingOK, Enrolling, Creating, Rotating
<1>7. HeldOK' /\ SecretsOK'
  BY <1>1 DEF HeldOK, SecretsOK
<1> QED
  BY <1>3, <1>4, <1>5, <1>6, <1>7 DEF IInv

LEMMA PurgeStep ==
  ASSUME IInv, Purge
  PROVE  IInv'
<1>1. /\ UNCHANGED <<database, requests, clock, drawn, admin>> /\ pc = "purge"
  BY DEF Purge
<1>2. TypeOK /\ IdentityOK /\ RotationOK /\ ProcessOK /\ HeldOK
  BY DEF IInv
<1>3. ~ Rotating /\ identity.key = None /\ purge = "begun" /\ Unawaited
  BY <1>1, <1>2 DEF ProcessOK, FinishingOK, ErasingOK, RotationOK, Unawaited, Waiting
<1>4. CASE FirstHeld # NoRef
  <2>1. Drop(FirstHeld, "purge", "ready") /\ identity' = identity /\ purge' = purge
    BY <1>4 DEF Purge
  <2>2. /\ secrets' \subseteq secrets /\ faults' \in 0 .. MaxFaults /\ pc' \in {"purge", "ready"}
        /\ reply' \in Answers /\ pc' \in Labels
    BY <2>1, DropEffects, Replies DEF Labels
  <2>3. HeldOK'
    BY <1>3, <2>1 DEF HeldOK
  <2>4. ProcessOK'
    BY <1>2, <1>3, <2>1, <2>2 DEF ProcessOK, EnrollingOK, CreatingOK, ActivatingOK, FinishingOK, BeatingOK,
         ErasingOK, Enrolling, Creating, Rotating
  <2> QED
    BY <1>1, <1>3, <2>1, <2>2, <2>3, <2>4, DropStep
<1>5. CASE FirstHeld = NoRef
  <2>1. identity' = NoIdentity /\ purge' = "done" /\ pc' = "ready" /\ reply' = NoAnswer /\ UNCHANGED <<secrets, faults>>
    BY <1>5 DEF Purge, Goto
  <2>2. /\ identity' \in Identity /\ ~ identity'.exists /\ ~ identity'.enrolled /\ identity'.key = None
        /\ identity'.rotation = "none" /\ identity'.pending = NoRef /\ identity'.previous = NoRef
        /\ identity'.active = NoRef /\ ~ identity'.revoked
    BY <2>1 DEF NoIdentity, Identity, RotationStates
  <2>3. drawn.key \in Nat /\ drawn.install \in Nat
    BY <1>2, Bounds DEF TypeOK
  <2>4. KeysCarry
    BY <1>1, <1>3, <2>2, <2>3, Numbers DEF KeysCarry
  <2>5. RequestsOK'
    BY <1>1, <1>3, <2>4, RequestsCarry
  <2>6. TypeOK'
    BY <1>1, <1>2, <2>1, <2>2, Replies DEF TypeOK, database, idempotency, clock, Labels
  <2>7. ProcessOK'
    BY <2>1, <2>2 DEF ProcessOK, EnrollingOK, CreatingOK, ActivatingOK, FinishingOK, BeatingOK,
         ErasingOK, Enrolling, Creating, Rotating
  <2>8. IdentityOK' /\ RotationOK' /\ HeldOK' /\ SecretsOK' /\ AcceptedOK'
    BY <2>1, <2>2 DEF IdentityOK, RotationOK, Rotating, HeldOK, SecretsOK, AcceptedOK
  <2> QED
    BY <1>1, <2>4, <2>5, <2>6, <2>7, <2>8, RowStep
<1> QED
  BY <1>4, <1>5

-----------------------------------------------------------------------------
(* Steps of the backend, the administrator and the clock: the agent's row,  *)
(* its secrets and the place of its process stay                            *)

\* What such a step may do to the tables.  A credential that is settled stays
\* so and is not accepted again; a rotation key gets its credential only while
\* the row asks for one, and is activated only while the row expects it.
CredentialsEvolve ==
  /\ \A c \in Creds : Settled(c) => Settled(c)'
  /\ \A c \in Creds : c \in Issued => c \in Issued'
  /\ \A c \in Creds : Settled(c) /\ credentials[c] # "active" => credentials'[c] # "active"
  /\ ~ agent.active /\ agent'.active => \A c \in Creds : Settled(c) => credentials'[c] # "active"
  /\ agent.active /\ ~ agent'.active => \A c \in Creds : credentials'[c] # "pending"
RecordsEvolve ==
  /\ \A k \in Keys : created[k] # None => created'[k] = created[k]
  /\ \A k \in Keys : created'[k] # created[k] => k = identity.key /\ identity.rotation = "requested"
  /\ activated \subseteq activated'
  /\ \A c \in Creds, k \in Keys : <<c, k>> \in activated' /\ <<c, k>> \notin activated =>
       k = identity.key /\ identity.rotation = "activation_uncertain"
  /\ \A t \in Tokens : registered[t].cred # None => registered'[t] = registered[t]
Evolve ==
  /\ UNCHANGED <<disk, pc, drawn, purge>>
  /\ lapsed \subseteq lapsed'
  /\ CredentialsEvolve /\ RecordsEvolve

LEMMA DiskStays ==
  ASSUME Evolve
  PROVE  identity' = identity /\ secrets' = secrets /\ pc' = pc /\ drawn' = drawn /\ purge' = purge
  BY DEF Evolve, disk

\* Who is registered stays registered; nothing is registered without a credential.
LEMMA RegisteredStays ==
  ASSUME IInv, Evolve
  PROVE  /\ \A t \in Tokens : registered[t].cred # None => registered'[t] = registered[t]
         /\ \A t \in Tokens : identity.exists /\ RegisteredHere(t) => registered[t].cred # None /\ RegisteredHere(t)'
         /\ identity.exists /\ AtMostOneToken' => AtMostOneToken
<1>1. \A t \in Tokens : registered[t].cred # None => registered'[t] = registered[t]
  BY DEF Evolve, RecordsEvolve
<1>2. identity.exists => identity.install # None
  <2>1. drawn.install \in Nat
    BY Bounds DEF IInv, TypeOK
  <2> QED
    BY <2>1 DEF IInv, IdentityOK, None
<1>3. \A t \in Tokens : identity.exists /\ RegisteredHere(t) => registered[t].cred # None
  BY <1>2 DEF IInv, TablesOK, RegisteredOK, RegisteredHere
<1>4. \A t \in Tokens : identity.exists /\ RegisteredHere(t) => RegisteredHere(t)'
  BY <1>1, <1>3, DiskStays DEF RegisteredHere
<1> QED
  BY <1>1, <1>3, <1>4 DEF AtMostOneToken

\* The credential of the row's rotation stays the one that was created for it.
LEMMA KeyStays ==
  ASSUME IInv, Evolve, identity.rotation \in {"pending_stored", "activation_uncertain", "activated"}
  PROVE  /\ identity.key \in Keys /\ created[identity.key] # None /\ created[identity.key] \in Creds
         /\ created'[identity.key] = created[identity.key]
         /\ identity.pending = Ref("pending", created[identity.key]) /\ identity.enrolled
<1>1. /\ identity.key \in Keys /\ created[identity.key] # None /\ identity.enrolled
      /\ identity.pending = Ref("pending", created[identity.key])
  BY DEF IInv, RotationOK, Rotating, IdentityOK
<1>2. created[identity.key] \in Creds
  BY <1>1, CreatedIssued
<1> QED
  BY <1>1, <1>2 DEF Evolve, RecordsEvolve

LEMMA RowEvolves ==
  ASSUME IInv, Evolve
  PROVE  IdentityOK' /\ RotationOK' /\ HeldOK' /\ SecretsOK'
<1>1. TypeOK /\ IdentityOK /\ RotationOK /\ HeldOK /\ SecretsOK
  BY DEF IInv
<1>2. IdentityOK'
  <2>1. identity.active # NoRef => Settled(identity.active.cred)'
    <3>1. identity.active # NoRef => identity.active.cred \in Creds
      BY <1>1, IdentityType, References
    <3>2. \A c \in Creds : c = identity.active.cred /\ identity.active # NoRef => Settled(c)'
      BY <1>1 DEF IdentityOK, Evolve, CredentialsEvolve
    <3> QED
      BY <3>1, <3>2, DiskStays DEF Settled
  <2>2. identity.enrolled => identity.exists /\ \E t \in Tokens : RegisteredHere(t)'
    BY <1>1, RegisteredStays DEF IdentityOK
  <2> QED
    BY <1>1, <2>1, <2>2, DiskStays DEF IdentityOK
<1>3. RotationOK'
  <2>1. identity.rotation \in {"requested", "pending_stored"} => \A c \in Creds : <<c, identity.key>> \notin activated'
    BY <1>1 DEF RotationOK, Rotating, Evolve, RecordsEvolve
  <2>2. identity.rotation = "activated" =>
          identity.active = identity.pending /\ <<created'[identity.key], identity.key>> \in activated'
    <3>1. identity.rotation = "activated" => created'[identity.key] = created[identity.key]
      BY KeyStays
    <3> QED
      BY <1>1, <3>1 DEF RotationOK, Evolve, RecordsEvolve
  <2>3. IF identity.rotation \in {"pending_stored", "activation_uncertain", "activated"}
       THEN created'[identity.key] # None /\ identity.pending = Ref("pending", created'[identity.key])
       ELSE identity.pending = NoRef
    <3>1. CASE identity.rotation \in {"pending_stored", "activation_uncertain", "activated"}
      BY <3>1, KeyStays
    <3>2. CASE identity.rotation \notin {"pending_stored", "activation_uncertain", "activated"}
      BY <1>1, <3>2 DEF RotationOK
    <3> QED
      BY <3>1, <3>2
  <2> QED
    BY <1>1, <2>1, <2>2, <2>3, DiskStays DEF RotationOK, Rotating
<1>4. HeldOK'
  BY <1>1, DiskStays DEF HeldOK
<1>5. SecretsOK'
  <2> SUFFICES ASSUME purge = "never", identity.exists => AtMostOneToken', NEW ref \in secrets PROVE Accounted(ref)'
    BY DiskStays DEF SecretsOK
  <2>1. Accounted(ref) /\ ref \in Refs
    BY <1>1, RegisteredStays DEF SecretsOK, TypeOK
  <2>2. CASE ref \in {identity.active, identity.pending, identity.previous}
    BY <2>2, DiskStays DEF Accounted
  <2>3. ASSUME ~ identity.enrolled, NEW t \in Tokens, RegisteredHere(t), ref = Ref("active", registered[t].cred)
        PROVE  Accounted(ref)'
    <3>1. registered[t].cred # None
      BY <2>1, <2>3, References, Numbers
    <3>2. registered'[t] = registered[t]
      BY <3>1, RegisteredStays
    <3> QED
      BY <2>3, <3>2, DiskStays DEF Accounted, RegisteredHere
  <2>4. CASE identity.rotation = "requested" /\ ref = Ref("pending", created[identity.key])
    <3>1. created[identity.key] # None /\ identity.key \in Keys
      BY <1>1, <2>1, <2>4, References, Numbers DEF RotationOK, Rotating
    <3>2. created'[identity.key] = created[identity.key]
      BY <3>1 DEF Evolve, RecordsEvolve
    <3> QED
      BY <2>4, <3>2, DiskStays DEF Accounted
  <2> QED
    BY <2>1, <2>2, <2>3, <2>4 DEF Accounted
<1> QED
  BY <1>2, <1>3, <1>4, <1>5

\* A request that is still under way keeps naming what the tables hold.
LEMMA RequestEvolves ==
  ASSUME IInv, Evolve, NEW r \in requests, r.awaited => reply' = reply
  PROVE  RequestOK(r)'
<1>1. RequestOK(r) /\ TypeOK
  BY DEF IInv, RequestsOK
<1>2. /\ identity' = identity /\ pc' = pc /\ drawn' = drawn
  BY DiskStays
<1>3. r.op # "register" => r.cred \in Issued'
  BY <1>1 DEF RequestOK, Issued, Evolve, CredentialsEvolve
<1>4. RegisterOK(r)' /\ AwaitedOK(r)'
  BY <1>1, <1>2 DEF RequestOK, RegisterOK, AwaitedOK
<1>5. CreateOK(r)'
  BY <1>1, <1>2 DEF RequestOK, CreateOK, Evolve, RecordsEvolve
<1>6. ActivateOK(r)'
  <2> SUFFICES ASSUME r.op = "activate" PROVE ActivateOK(r)'
    BY DEF ActivateOK
  <2>1. /\ r.key \in Keys /\ created[r.key] = r.cred /\ r.cred \in Issued /\ r.cred \in Creds
        /\ IF r.key = identity.key THEN identity.rotation \in {"activation_uncertain", "activated"}
                               ELSE <<r.cred, r.key>> \in activated
        /\ r.admitted /\ ~ agent.active => credentials[r.cred] # "pending"
    BY <1>1 DEF RequestOK, ActivateOK, Issued
  <2>2. created'[r.key] = r.cred
    BY <2>1, Numbers DEF Evolve, RecordsEvolve
  <2>3. r.admitted /\ ~ agent'.active => credentials'[r.cred] # "pending"
    <3>1. CASE agent.active
      BY <2>1, <3>1 DEF Evolve, CredentialsEvolve
    <3>2. ASSUME ~ agent.active, r.admitted PROVE credentials'[r.cred] # "pending"
      <4>1. Settled(r.cred)
        BY <2>1, <3>2 DEF Settled, Issued
      <4>2. Settled(r.cred)'
        BY <2>1, <4>1 DEF Evolve, CredentialsEvolve
      <4> QED
        BY <4>2 DEF Settled
    <3> QED
      BY <3>1, <3>2
  <2> QED
    BY <1>2, <2>1, <2>2, <2>3 DEF ActivateOK, Evolve, RecordsEvolve
<1> QED
  BY <1>3, <1>4, <1>5, <1>6 DEF RequestOK

\* What the answer at hand says is true at the backend.
ReplyOK ==
  /\ pc = "register" /\ reply.kind = "ok" =>
       reply.cred # None /\ \E t \in Tokens : RegisteredHere(t) /\ registered[t].cred = reply.cred
  /\ pc = "create" /\ reply.kind = "ok" => reply.cred # None /\ reply.cred = created[identity.key]
  /\ pc = "activate" /\ reply.kind = "ok" => <<created[identity.key], identity.key>> \in activated
  /\ pc = "beat" /\ reply.kind = "rejected" =>
       \/ ~ agent.active \/ credentials[identity.active.cred] # "active"
       \/ identity.active.cred \in lapsed

\* The facts the process relies on stay true at the backend.
LEMMA ProcessEvolves ==
  ASSUME IInv, Evolve, reply' = reply \/ (pc \in Waiting /\ ReplyOK')
  PROVE  ProcessOK'
<1>1. ProcessOK /\ TypeOK /\ RotationOK /\ IdentityOK
  BY DEF IInv
<1>2. /\ identity' = identity /\ pc' = pc /\ drawn' = drawn /\ secrets' = secrets /\ purge' = purge
  BY DiskStays
<1>3. EnrollingOK'
  <2> SUFFICES ASSUME pc \in Enrolling PROVE EnrollingOK'
    BY <1>2 DEF EnrollingOK
  <2>1. identity.exists /\ ~ identity.enrolled /\ (pc = "record_active" => Ref("active", reply.cred) \in secrets)
        /\ (pc # "register" => reply.kind = "ok")
    BY <1>1 DEF ProcessOK, EnrollingOK
  <2>2. CASE reply' = reply
    <3>1. reply.kind = "ok" => reply.cred # None /\ \E t \in Tokens : RegisteredHere(t)' /\ registered'[t].cred = reply.cred
      BY <1>1, <2>1, RegisteredStays DEF ProcessOK, EnrollingOK
    <3> QED
      BY <1>2, <2>1, <2>2, <3>1 DEF EnrollingOK
  <2>3. CASE pc \in Waiting /\ ReplyOK'
    BY <1>2, <2>1, <2>3 DEF EnrollingOK, Enrolling, Waiting, ReplyOK
  <2> QED
    BY <2>2, <2>3
<1>4. CreatingOK'
  <2> SUFFICES ASSUME pc \in Creating PROVE CreatingOK'
    BY <1>2 DEF CreatingOK
  <2>1. identity.rotation = "requested" /\ (pc # "create" => reply.kind = "ok")
        /\ (pc = "record_pending" => Ref("pending", reply.cred) \in secrets) /\ identity.key \in Keys
        /\ (reply.kind = "ok" => reply.cred # None /\ reply.cred = created[identity.key])
    BY <1>1 DEF ProcessOK, CreatingOK, RotationOK, Rotating
  <2>2. CASE reply' = reply
    <3>1. reply.kind = "ok" => reply.cred # None /\ reply.cred = created'[identity.key]
      BY <2>1 DEF Evolve, RecordsEvolve
    <3> QED
      BY <1>2, <2>1, <2>2, <3>1 DEF CreatingOK
  <2>3. CASE pc \in Waiting /\ ReplyOK'
    BY <1>2, <2>1, <2>3 DEF CreatingOK, Creating, Waiting, ReplyOK
  <2> QED
    BY <2>2, <2>3
<1>5. ActivatingOK'
  <2> SUFFICES ASSUME pc \in {"activate", "cutover"} PROVE ActivatingOK'
    BY <1>2 DEF ActivatingOK
  <2>1. identity.rotation = "activation_uncertain"
        /\ (pc = "cutover" \/ reply.kind = "ok" => <<created[identity.key], identity.key>> \in activated)
    BY <1>1 DEF ProcessOK, ActivatingOK
  <2>2. created'[identity.key] = created[identity.key] /\ activated \subseteq activated'
    BY <2>1, KeyStays DEF Evolve, RecordsEvolve
  <2>3. CASE reply' = reply
    BY <1>2, <2>1, <2>2, <2>3 DEF ActivatingOK
  <2>4. CASE pc \in Waiting /\ ReplyOK'
    BY <1>2, <2>1, <2>2, <2>4 DEF ActivatingOK, Waiting, ReplyOK
  <2> QED
    BY <2>3, <2>4
<1>6. BeatingOK'
  <2> SUFFICES ASSUME pc = "beat" PROVE BeatingOK'
    BY <1>2 DEF BeatingOK
  <2>1. /\ identity.rotation = "none" /\ identity.active # NoRef
        /\ reply.kind = "rejected" =>
             ~ agent.active \/ credentials[identity.active.cred] # "active" \/ identity.active.cred \in lapsed
    BY <1>1 DEF ProcessOK, BeatingOK
  <2>2. identity.active.cred \in Creds /\ Settled(identity.active.cred)
    BY <1>1, <2>1, IdentityType, References DEF IdentityOK
  <2>3. CASE reply' = reply
    <3>1. reply.kind = "rejected" =>
             ~ agent'.active \/ credentials'[identity.active.cred] # "active" \/ identity.active.cred \in lapsed'
      BY <2>1, <2>2 DEF Evolve, CredentialsEvolve
    <3> QED
      BY <1>2, <2>1, <2>3, <3>1 DEF BeatingOK
  <2>4. CASE pc \in Waiting /\ ReplyOK'
    BY <1>2, <2>1, <2>4 DEF BeatingOK, ReplyOK
  <2> QED
    BY <2>3, <2>4
<1>7. FinishingOK' /\ ErasingOK'
  BY <1>1, <1>2 DEF ProcessOK, FinishingOK, ErasingOK, Rotating
<1> QED
  BY <1>3, <1>4, <1>5, <1>6, <1>7 DEF ProcessOK

\* What the backend accepts stays current when nothing is activated or registered.
LEMMA AcceptedStays ==
  ASSUME IInv, Evolve, agent'.install = agent.install, \A c \in Creds : c \in Active' => c \in Active,
         activated' = activated
  PROVE  AcceptedOK'
<1>1. AcceptedOK /\ IdentityOK /\ TypeOK
  BY DEF IInv
<1>2. identity' = identity
  BY DiskStays
<1> SUFFICES ASSUME identity.exists, ~ identity.revoked, agent.install = identity.install, AtMostOneToken',
                    NEW c \in Active'
             PROVE  Current(c)'
  BY <1>2 DEF AcceptedOK
<1>3. c \in Creds /\ c \in Active
  BY DEF Active
<1>4. Current(c)
  BY <1>1, <1>3, RegisteredStays DEF AcceptedOK
<1>5. CASE ~ identity.enrolled
  BY <1>2, <1>4, <1>5, RegisteredStays DEF Current
<1>6. CASE identity.enrolled
  <2>1. identity.rotation = "activation_uncertain" => created'[identity.key] = created[identity.key]
    BY KeyStays
  <2> QED
    BY <1>2, <1>4, <1>6, <2>1 DEF Current
<1> QED
  BY <1>5, <1>6

-----------------------------------------------------------------------------
(* Answers *)

LEMMA BackendStep ==
  ASSUME IInv, Evolve, TypeOK', TablesOK', RequestsOK', ProcessOK', AcceptedOK'
  PROVE  IInv'
  BY RowEvolves DEF IInv

LEMMA RequestsEvolve ==
  ASSUME IInv, Evolve, requests' \subseteq requests, reply' = reply
  PROVE  RequestsOK' /\ ProcessOK' /\ requests' \subseteq Requests
<1>1. \A r \in requests' : RequestOK(r)'
  BY RequestEvolves
<1>2. \A r1, r2 \in requests' : r1.awaited /\ r2.awaited => r1 = r2
  BY DEF IInv, RequestsOK
<1>3. RequestsOK'
  BY <1>1, <1>2 DEF RequestsOK
<1> QED
  BY <1>3, ProcessEvolves DEF IInv, TypeOK

\* One request is answered: the agent that waits for it learns what is so.
LEMMA Answered ==
  ASSUME IInv, Evolve, NEW r \in requests, NEW answer \in Answers, requests' = requests \ {r},
         reply' = IF r.awaited THEN answer ELSE reply,
         (r.awaited /\ pc = r.op) => ReplyOK'
  PROVE  RequestsOK' /\ ProcessOK' /\ requests' \subseteq Requests /\ reply' \in Answers
<1>1. CASE ~ r.awaited
  <2>1. reply' = reply
    BY <1>1
  <2> QED
    BY <2>1, RequestsEvolve DEF IInv, TypeOK
<1>2. CASE r.awaited
  <2>1. RequestOK(r) /\ r \in Requests
    BY DEF IInv, RequestsOK, TypeOK
  <2>2. pc = r.op /\ pc \in Waiting
    BY <1>2, <2>1 DEF RequestOK, AwaitedOK, Requests
  <2>3. \A q \in requests' : ~ q.awaited
    BY <1>2 DEF IInv, RequestsOK, TypeOK, Requests
  <2>4. \A q \in requests' : RequestOK(q)'
    BY <2>3, RequestEvolves
  <2>5. RequestsOK'
    BY <2>3, <2>4 DEF RequestsOK
  <2>6. ProcessOK'
    BY <1>2, <2>2, ProcessEvolves
  <2> QED
    BY <1>2, <2>5, <2>6 DEF IInv, TypeOK
<1> QED
  BY <1>1, <1>2

\* A step that leaves the database.
LEMMA StillEvolves ==
  ASSUME UNCHANGED <<disk, pc, database, drawn, purge>>, lapsed \subseteq lapsed'
  PROVE  Evolve
  BY Database DEF Evolve, CredentialsEvolve, RecordsEvolve, Settled, Issued

LEMMA TablesStill ==
  ASSUME IInv, UNCHANGED <<disk, database, drawn>>
  PROVE  TablesOK' /\ AcceptedOK'
  BY RowStays DEF disk

LEMMA RespondStep ==
  ASSUME IInv, NEW r \in requests, NEW answer \in Answers, Respond(r, answer), UNCHANGED database,
         (r.awaited /\ pc = r.op /\ reply' = answer) => ReplyOK'
  PROVE  IInv'
<1>1. /\ requests' = requests \ {r} /\ reply' = (IF r.awaited THEN answer ELSE reply)
      /\ UNCHANGED <<disk, pc, clock, ghost, purge>>
  BY DEF Respond
<1>2. Evolve
  BY <1>1, StillEvolves DEF clock, ghost
<1>3. RequestsOK' /\ ProcessOK' /\ requests' \subseteq Requests /\ reply' \in Answers
  BY <1>1, <1>2, Answered
<1>4. TypeOK'
  BY <1>1, <1>3 DEF IInv, TypeOK, disk, database, idempotency, clock, ghost
<1>5. TablesOK' /\ AcceptedOK'
  BY <1>1, TablesStill DEF ghost
<1> QED
  BY <1>2, <1>3, <1>4, <1>5, BackendStep

LEMMA FailsStep ==
  ASSUME IInv, NEW r \in requests, Fails(r)
  PROVE  IInv'
<1>1. Answer("error", None) \in Answers /\ Answer("error", None).kind = "error"
  BY Replies
<1>2. reply' = Answer("error", None) => ReplyOK'
  BY <1>1 DEF ReplyOK
<1>3. PICK answer \in Answers : answer = Answer("error", None)
  BY <1>1
<1> QED
  BY <1>2, <1>3, RespondStep DEF Fails

LEMMA LoseRequestStep ==
  ASSUME IInv, NEW r \in requests, LoseRequest(r)
  PROVE  IInv'
<1>1. requests' = requests \ {r} /\ UNCHANGED <<disk, process, database, clock, ghost, purge>>
  BY DEF LoseRequest
<1>2. Evolve
  BY <1>1, StillEvolves DEF clock, ghost, process
<1>3. RequestsOK' /\ ProcessOK' /\ requests' \subseteq Requests
  BY <1>1, <1>2, RequestsEvolve DEF process
<1>4. TypeOK'
  BY <1>1, <1>3 DEF IInv, TypeOK, disk, process, database, idempotency, clock, ghost
<1>5. TablesOK' /\ AcceptedOK'
  BY <1>1, TablesStill DEF ghost
<1> QED
  BY <1>2, <1>3, <1>4, <1>5, BackendStep

LEMMA AdmitStep ==
  ASSUME IInv, NEW r \in requests, Admit(r)
  PROVE  IInv'
<1>1. r \in Requests /\ RequestOK(r) /\ r.op \in {"create", "activate", "beat"} /\ UNCHANGED database
  BY DEF IInv, TypeOK, RequestsOK, Admit
<1>2. ASSUME ~ Authenticated(r), Respond(r, Answer("rejected", None)) PROVE IInv'
  <2>1. PICK answer \in Answers : answer = Answer("rejected", None)
    BY Replies
  <2>2. ASSUME r.awaited, pc = r.op, reply' = answer PROVE ReplyOK'
    <3>1. reply'.kind = "rejected"
      BY <2>1, <2>2, Replies
    <3>2. /\ agent' = agent /\ credentials' = credentials /\ lapsed' = lapsed /\ identity' = identity /\ pc' = pc
      BY <1>1, <1>2, Database DEF Respond, disk, clock
    <3>3. r.op = "beat" => r.cred = identity.active.cred
      BY <1>1, <2>2 DEF RequestOK, AwaitedOK
    <3> QED
      BY <1>2, <2>2, <3>1, <3>2, <3>3 DEF ReplyOK, Authenticated
  <2> QED
    BY <1>1, <1>2, <2>1, <2>2, RespondStep
<1>3. ASSUME r.op = "beat", Respond(r, Answer("ok", None)) PROVE IInv'
  <2>1. PICK answer \in Answers : answer = Answer("ok", None)
    BY Replies
  <2>2. ASSUME r.awaited, pc = r.op, reply' = answer PROVE ReplyOK'
    <3>1. reply'.kind = "ok"
      BY <2>1, <2>2, Replies
    <3>2. pc' = pc
      BY <1>3 DEF Respond
    <3> QED
      BY <1>3, <2>2, <3>1, <3>2 DEF ReplyOK
  <2> QED
    BY <1>1, <1>3, <2>1, <2>2, RespondStep
<1>4. ASSUME Authenticated(r), r.op # "beat", requests' = (requests \ {r}) \union {[r EXCEPT !.admitted = TRUE]},
             UNCHANGED <<disk, process, clock, ghost, purge>>
      PROVE  IInv'
  <2>1. Evolve
    BY <1>1, <1>4, StillEvolves DEF clock, ghost, process
  <2>2. PICK q \in Requests : q = [r EXCEPT !.admitted = TRUE]
    BY <1>1 DEF Requests
  <2>3. /\ q.op = r.op /\ q.cred = r.cred /\ q.key = r.key /\ q.token = r.token /\ q.install = r.install
        /\ q.awaited = r.awaited
    BY <1>1, <2>2 DEF Requests
  <2>4. \A s \in requests : RequestOK(s)'
    BY <1>4, <2>1, RequestEvolves DEF process
  <2>5. agent'.active
    BY <1>1, <1>4, Database DEF Authenticated
  <2>6. RequestOK(q)'
    <3>1. RequestOK(r)'
      BY <2>4
    <3> QED
      BY <1>1, <2>3, <2>5, <3>1 DEF RequestOK, RegisterOK, CreateOK, ActivateOK, AwaitedOK
  <2>7. RequestsOK' /\ requests' \subseteq Requests
    BY <1>4, <2>2, <2>3, <2>4, <2>6 DEF RequestsOK, IInv, TypeOK
  <2>8. TypeOK' /\ ProcessOK'
    BY <1>1, <1>4, <2>1, <2>7, ProcessEvolves DEF IInv, TypeOK, disk, process, database, idempotency, clock, ghost
  <2>9. TablesOK' /\ AcceptedOK'
    BY <1>1, <1>4, TablesStill DEF ghost
  <2> QED
    BY <2>1, <2>7, <2>8, <2>9, BackendStep
<1> QED
  BY <1>2, <1>3, <1>4 DEF Admit

-----------------------------------------------------------------------------
(* Steps that issue no credential *)

LEMMA TablesStay ==
  ASSUME IInv, Evolve, Issued' = Issued, created' = created, registered' = registered,
         agent'.install = agent.install,
         \A t \in Tokens : tokens[t] = "consumed" => tokens'[t] = "consumed",
         \A c \in Creds, k \in Keys : <<c, k>> \in activated' /\ <<c, k>> \notin activated =>
           created[k] = c /\ Settled(c)',
         ActiveOK', PendingOK', RevokedHasNoActive'
  PROVE  TablesOK'
<1>1. TablesOK /\ TypeOK
  BY DEF IInv
<1>2. VersionsOK' /\ OneCredentialPerRequest'
  BY <1>1 DEF TablesOK, VersionsOK, OneCredentialPerRequest
<1>3. \A c \in Creds : Settled(c) => Settled(c)'
  BY DEF Evolve, CredentialsEvolve
<1>4. RegisteredOK'
  <2> SUFFICES ASSUME NEW t \in Tokens, registered[t].cred # None PROVE Settled(registered[t].cred)'
    BY <1>1, DiskStays DEF RegisteredOK, TablesOK
  <2>1. registered[t].cred \in Creds /\ Settled(registered[t].cred)
    BY <1>1 DEF TypeOK, TablesOK, RegisteredOK
  <2>2. PICK c \in Creds : c = registered[t].cred
    BY <2>1
  <2>3. Settled(c)'
    BY <1>3, <2>1, <2>2
  <2> QED
    BY <2>2, <2>3 DEF Settled
<1>5. CreatedOK'
  BY <1>1, DiskStays DEF TablesOK, CreatedOK, Evolve, RecordsEvolve
<1>6. ActivatedOK'
  BY <1>1, <1>3 DEF TablesOK, ActivatedOK
<1> QED
  BY <1>1, <1>2, <1>4, <1>5, <1>6, DiskStays DEF TablesOK

\* _expire_pending
LEMMA Expired ==
  ASSUME TypeOK
  PROVE  /\ ExpiredCredentials \in [Creds -> CredentialStates]
         /\ ExpiredRotations \in [Creds -> [state : {"none", "pending", "activated", "expired", "revoked"},
                                            previous : Creds \union {None}]]
         /\ \A c \in Creds : \/ ExpiredCredentials[c] = credentials[c]
                             \/ credentials[c] = "pending" /\ ExpiredCredentials[c] = "expired"
         /\ \A c \in Creds : ExpiredRotations[c].state = "pending" =>
              rotations[c].state = "pending" /\ ExpiredRotations[c].previous = rotations[c].previous
         /\ \A c \in Creds : ExpiredCredentials[c] = "pending" /\ rotations[c].state = "pending" =>
              ExpiredRotations[c].state = "pending"
  BY DEF TypeOK, ExpiredCredentials, ExpiredRotations, PendingRotations, CredentialStates

LEMMA ReplayCreateStep ==
  ASSUME IInv, NEW r \in requests, ReplayCreate(r)
  PROVE  IInv'
<1>1. /\ RequestOK(r) /\ TypeOK /\ TablesOK /\ r.op = "create" /\ created[r.key] # None
      /\ UNCHANGED <<agent, idempotency, tokens>>
  BY DEF IInv, RequestsOK, ReplayCreate
<1>2. r.key \in Keys /\ created[r.key] \in Creds
  BY <1>1 DEF RequestOK, CreateOK, TypeOK
<1>3. CASE r.key \notin replayOver
  <2>1. Respond(r, Answer("ok", created[r.key])) /\ UNCHANGED database
    BY <1>1, <1>3 DEF ReplayCreate, database
  <2>2. PICK answer \in Answers : answer = Answer("ok", created[r.key])
    BY <1>2, Replies
  <2>3. ASSUME r.awaited, pc = r.op, reply' = answer PROVE ReplyOK'
    <3>1. pc' = "create" /\ reply'.cred = created[r.key] /\ identity' = identity /\ created' = created
      BY <1>1, <2>1, <2>2, <2>3, Replies, Database DEF Respond, disk
    <3>2. r.key = identity.key
      BY <1>1, <2>3 DEF RequestOK, AwaitedOK
    <3> QED
      BY <1>1, <3>1, <3>2 DEF ReplyOK
  <2> QED
    BY <2>1, <2>2, <2>3, RespondStep
<1>4. CASE r.key \in replayOver
  <2>1. /\ Respond(r, Answer("error", None)) /\ credentials' = ExpiredCredentials /\ rotations' = ExpiredRotations
        /\ agent' = agent /\ created' = created /\ activated' = activated /\ registered' = registered /\ tokens' = tokens
    BY <1>1, <1>4 DEF ReplayCreate, idempotency
  <2>2. /\ requests' = requests \ {r} /\ reply' = (IF r.awaited THEN Answer("error", None) ELSE reply)
        /\ UNCHANGED <<disk, pc, clock, ghost, purge>>
    BY <2>1 DEF Respond
  <2>3. \A c \in Creds : credentials'[c] = credentials[c] \/ (credentials[c] = "pending" /\ credentials'[c] = "expired")
    BY <1>1, <2>1, Expired
  <2>4. Evolve
    BY <2>1, <2>2, <2>3 DEF Evolve, CredentialsEvolve, RecordsEvolve, Settled, Issued, clock, ghost
  <2>5. Issued' = Issued /\ Active' = Active
    BY <2>3 DEF Issued, Active
  <2>6. ActiveOK' /\ RevokedHasNoActive'
    BY <1>1, <2>1, <2>3, <2>5 DEF TablesOK, ActiveOK, RevokedHasNoActive
  <2>7. PendingOK'
    BY <1>1, <2>1, <2>3, <2>5, Expired DEF TablesOK, PendingOK
  <2>8. TablesOK'
    BY <2>1, <2>4, <2>5, <2>6, <2>7, TablesStay
  <2>9. AcceptedOK'
    BY <2>1, <2>4, <2>5, AcceptedStays
  <2>10. PICK answer \in Answers : answer = Answer("error", None) /\ answer.kind = "error"
    BY Replies
  <2>11. r.awaited => ReplyOK'
    BY <2>2, <2>10 DEF ReplyOK
  <2>12. RequestsOK' /\ ProcessOK' /\ requests' \subseteq Requests /\ reply' \in Answers
    BY <2>2, <2>4, <2>10, <2>11, Answered
  <2>13. TypeOK'
    BY <1>1, <2>1, <2>2, <2>12, Expired DEF TypeOK, disk, clock, ghost
  <2> QED
    BY <2>4, <2>8, <2>9, <2>12, <2>13, BackendStep
<1> QED
  BY <1>3, <1>4

LEMMA ActivateStep ==
  ASSUME IInv, NEW r \in requests, Activate(r)
  PROVE  IInv'
<1>1. RequestOK(r) /\ TypeOK /\ TablesOK /\ r.op = "activate" /\ r.admitted
  BY DEF IInv, RequestsOK, Activate
<1>2. /\ r.key \in Keys /\ created[r.key] = r.cred /\ r.cred \in Issued /\ r.cred \in Creds
      /\ IF r.key = identity.key THEN identity.rotation \in {"activation_uncertain", "activated"}
                                 ELSE <<r.cred, r.key>> \in activated
      /\ ~ agent.active => credentials[r.cred] # "pending"
      /\ r.awaited => r.key = identity.key
  BY <1>1 DEF RequestOK, ActivateOK, AwaitedOK, Issued
<1>3. PICK answer \in Answers : answer = Answer("ok", None)
  BY Replies
<1>4. CASE <<r.cred, r.key>> \in activated
  <2>1. Respond(r, answer) /\ UNCHANGED database
    BY <1>3, <1>4 DEF Activate
  <2>2. ASSUME r.awaited, pc = r.op, reply' = answer PROVE ReplyOK'
    <3>1. pc' = "activate" /\ identity' = identity /\ created' = created /\ activated' = activated
      BY <1>1, <2>1, <2>2, Database DEF Respond, disk
    <3> QED
      BY <1>2, <1>4, <2>2, <3>1 DEF ReplyOK
  <2> QED
    BY <2>1, <2>2, RespondStep
<1>5. CASE /\ <<r.cred, r.key>> \notin activated
           /\ rotations[r.cred].state = "pending" /\ r.cred \notin lapsed /\ credentials[r.cred] = "pending"
           /\ {d \in Creds \ {r.cred, rotations[r.cred].previous} : credentials[d] = "active"} = {}
  <2>1. PICK c \in Creds, p \in Issued : c = r.cred /\ p = rotations[r.cred].previous
    BY <1>1, <1>2, <1>5 DEF TablesOK, PendingOK
  <2>2. /\ credentials' = [credentials EXCEPT ![p] = "revoked", ![c] = "active"]
        /\ rotations' = [rotations EXCEPT ![c].state = "activated"]
        /\ activated' = activated \union {<<c, r.key>>}
        /\ Respond(r, answer) /\ UNCHANGED <<agent, created, registered, tokens>>
    BY <1>3, <1>5, <2>1 DEF Activate
  <2>3. /\ requests' = requests \ {r} /\ reply' = (IF r.awaited THEN answer ELSE reply)
        /\ UNCHANGED <<disk, pc, clock, ghost, purge>>
    BY <2>2 DEF Respond
  <2>4. p \in Creds /\ credentials[p] # "absent" /\ credentials[c] = "pending"
    BY <1>5, <2>1 DEF Issued
  <2>5. /\ credentials'[c] = "active" /\ \A d \in Creds : d # c => credentials'[d] = IF d = p THEN "revoked" ELSE credentials[d]
    BY <1>1, <2>2, <2>4 DEF TypeOK
  <2>6. /\ credentials' \in [Creds -> CredentialStates]
        /\ rotations' \in [Creds -> [state : {"none", "pending", "activated", "expired", "revoked"},
                                     previous : Creds \union {None}]]
        /\ activated' \subseteq Creds \X Keys
    BY <1>1, <1>2, <2>2, <2>4 DEF TypeOK, CredentialStates
  <2>7. rotations'[c].state = "activated" /\ \A d \in Creds : d # c => rotations'[d] = rotations[d]
    BY <1>1, <2>2 DEF TypeOK
  <2>8. r.key = identity.key /\ identity.rotation = "activation_uncertain" /\ agent.active
    <3>1. r.key = identity.key /\ identity.rotation \in {"activation_uncertain", "activated"} /\ agent.active
      BY <1>2, <1>5
    <3> QED
      BY <1>2, <1>5, <3>1 DEF IInv, RotationOK
  <2>9. Evolve
    <3>1. CredentialsEvolve
      <4>1. agent' = agent /\ \A d \in Creds : d = c \/ credentials'[d] = "revoked" \/ credentials'[d] = credentials[d]
        BY <2>2, <2>5
      <4>2. ~ Settled(c) /\ Settled(c)' /\ credentials'[c] # "absent"
        BY <2>4, <2>5 DEF Settled
      <4> QED
        BY <4>1, <4>2 DEF CredentialsEvolve, Settled, Issued
    <3>2. RecordsEvolve
      BY <2>1, <2>2, <2>8 DEF RecordsEvolve
    <3> QED
      BY <2>3, <3>1, <3>2 DEF Evolve, clock, ghost
  <2>10. \A d \in Creds : credentials'[d] = "active" => d = c
    BY <1>5, <2>1, <2>5
  <2>11. Issued' = Issued
    BY <2>4, <2>5 DEF Issued
  <2>12. ActiveOK' /\ RevokedHasNoActive'
    BY <2>2, <2>8, <2>10 DEF ActiveOK, RevokedHasNoActive
  <2>13. PendingOK'
    BY <1>1, <2>5, <2>7, <2>11 DEF TablesOK, PendingOK
  <2>14. \A d \in Creds, k \in Keys : <<d, k>> \in activated' /\ <<d, k>> \notin activated => created[k] = d /\ Settled(d)'
    BY <1>2, <2>1, <2>2, <2>5 DEF Settled
  <2>15. TablesOK'
    BY <2>2, <2>9, <2>11, <2>12, <2>13, <2>14, TablesStay
  <2>16. AcceptedOK'
    <3>1. identity' = identity /\ created' = created /\ created[identity.key] = c /\ identity.enrolled
      BY <1>2, <2>1, <2>2, <2>8, <2>9, DiskStays, KeyStays
    <3>2. \A d \in Active' : d = c
      BY <2>10 DEF Active
    <3> QED
      BY <2>2, <2>8, <3>1, <3>2 DEF AcceptedOK, Current
  <2>17. r.awaited /\ pc = r.op => ReplyOK'
    BY <1>1, <1>2, <2>1, <2>2, <2>3, <2>8 DEF ReplyOK, disk
  <2>18. RequestsOK' /\ ProcessOK' /\ requests' \subseteq Requests /\ reply' \in Answers
    BY <2>3, <2>9, <2>17, Answered
  <2>19. TypeOK'
    BY <1>1, <2>2, <2>3, <2>6, <2>18 DEF TypeOK, disk, clock, ghost
  <2> QED
    BY <2>9, <2>15, <2>16, <2>18, <2>19, BackendStep
<1>6. CASE Fails(r)
  BY <1>6, FailsStep
<1> QED
  BY <1>4, <1>5, <1>6 DEF Activate

-----------------------------------------------------------------------------
(* The administrator and the clock *)

\* A step of the administrator.
LEMMA AdministersStep ==
  ASSUME IInv, Administers, CredentialsEvolve, Issued' = Issued, agent'.install = agent.install,
         \A c \in Creds : c \in Active' => c \in Active,
         \A t \in Tokens : tokens[t] = "consumed" => tokens'[t] = "consumed",
         PendingOK', RevokedHasNoActive',
         agent' \in [exists : BOOLEAN, active : BOOLEAN, install : Installs \union {None}],
         credentials' \in [Creds -> CredentialStates],
         rotations' \in [Creds -> [state : {"none", "pending", "activated", "expired", "revoked"},
                                   previous : Creds \union {None}]],
         tokens' \in [Tokens -> {"unissued", "issued", "consumed", "void"}], admin' \in 0 .. MaxAdmin
  PROVE  IInv'
<1>1. /\ UNCHANGED <<disk, process, idempotency, requests, clock, drawn, faults, purge>>
      /\ created' = created /\ activated' = activated /\ registered' = registered
  BY DEF Administers, idempotency
<1>2. Evolve
  BY <1>1 DEF Evolve, RecordsEvolve, clock, process
<1>3. ActiveOK'
  BY DEF IInv, TablesOK, ActiveOK, Active
<1>4. TablesOK'
  BY <1>1, <1>2, <1>3, TablesStay
<1>5. AcceptedOK'
  BY <1>1, <1>2, AcceptedStays
<1>6. RequestsOK' /\ ProcessOK' /\ requests' \subseteq Requests
  BY <1>1, <1>2, RequestsEvolve DEF process
<1>7. TypeOK'
  BY <1>1, <1>6 DEF IInv, TypeOK, disk, process, clock
<1> QED
  BY <1>2, <1>4, <1>5, <1>6, <1>7, BackendStep

LEMMA MoreAdmin ==
  ASSUME TypeOK, admin < MaxAdmin, admin' = admin + 1
  PROVE  admin' \in 0 .. MaxAdmin
  BY CredentialAssumption DEF TypeOK

LEMMA TokenStep ==
  ASSUME IInv, NEW t \in Tokens, IssueToken(t) \/ VoidToken(t)
  PROVE  IInv'
<1>1. TypeOK /\ TablesOK
  BY DEF IInv
<1>2. /\ Administers /\ agent' = agent /\ credentials' = credentials /\ rotations' = rotations
      /\ tokens[t] # "consumed" /\ tokens' \in {[tokens EXCEPT ![t] = "issued"], [tokens EXCEPT ![t] = "void"]}
  BY DEF IssueToken, VoidToken
<1>3. admin' \in 0 .. MaxAdmin
  BY <1>1, MoreAdmin DEF IssueToken, VoidToken, TypeOK
<1>4. tokens' \in [Tokens -> {"unissued", "issued", "consumed", "void"}] /\ \A s \in Tokens : s # t => tokens'[s] = tokens[s]
  BY <1>1, <1>2 DEF TypeOK
<1>5. CredentialsEvolve /\ Issued' = Issued /\ Active' = Active
  BY <1>2 DEF CredentialsEvolve, Settled, Issued, Active
<1>6. PendingOK' /\ RevokedHasNoActive'
  BY <1>1, <1>2, <1>5 DEF TablesOK, PendingOK, RevokedHasNoActive
<1>7. /\ agent' \in [exists : BOOLEAN, active : BOOLEAN, install : Installs \union {None}]
      /\ credentials' \in [Creds -> CredentialStates]
      /\ rotations' \in [Creds -> [state : {"none", "pending", "activated", "expired", "revoked"},
                                   previous : Creds \union {None}]]
  BY <1>1, <1>2 DEF TypeOK
<1> QED
  BY <1>2, <1>3, <1>4, <1>5, <1>6, <1>7, AdministersStep

LEMMA RevokeAgentStep ==
  ASSUME IInv, RevokeAgent
  PROVE  IInv'
<1>1. TypeOK /\ TablesOK
  BY DEF IInv
<1>2. /\ Administers /\ tokens' = tokens /\ agent' = [agent EXCEPT !.active = FALSE]
      /\ credentials' = [c \in Creds |-> IF credentials[c] \in {"active", "pending"}
                                         THEN "revoked" ELSE credentials[c]]
      /\ rotations' = [c \in Creds |-> IF rotations[c].state = "pending"
                                       THEN [rotations[c] EXCEPT !.state = "revoked"] ELSE rotations[c]]
  BY DEF RevokeAgent
<1>3. admin' \in 0 .. MaxAdmin
  BY <1>1, MoreAdmin DEF RevokeAgent
<1>4. /\ agent' \in [exists : BOOLEAN, active : BOOLEAN, install : Installs \union {None}]
      /\ ~ agent'.active /\ agent'.install = agent.install
  BY <1>1, <1>2 DEF TypeOK
<1>5. /\ credentials' \in [Creds -> CredentialStates]
      /\ rotations' \in [Creds -> [state : {"none", "pending", "activated", "expired", "revoked"},
                                   previous : Creds \union {None}]]
      /\ \A c \in Creds : rotations'[c].state # "pending"
  BY <1>1, <1>2 DEF TypeOK, CredentialStates
<1>6. \A c \in Creds : /\ credentials'[c] \notin {"active", "pending"}
                       /\ credentials'[c] = "absent" <=> credentials[c] = "absent"
  BY <1>1, <1>2 DEF TypeOK
<1>7. CredentialsEvolve /\ Issued' = Issued /\ Active' = {}
  BY <1>4, <1>6 DEF CredentialsEvolve, Settled, Issued, Active
<1>8. PendingOK' /\ RevokedHasNoActive'
  BY <1>5, <1>6, <1>7 DEF PendingOK, RevokedHasNoActive
<1>9. tokens' \in [Tokens -> {"unissued", "issued", "consumed", "void"}]
  BY <1>1, <1>2 DEF TypeOK
<1> QED
  BY <1>2, <1>3, <1>4, <1>5, <1>7, <1>8, <1>9, AdministersStep

LEMMA RevokeCredentialStep ==
  ASSUME IInv, NEW c \in Creds, RevokeCredential(c)
  PROVE  IInv'
<1>1. TypeOK /\ TablesOK
  BY DEF IInv
<1>2. /\ Administers /\ tokens' = tokens /\ agent' = agent /\ rotations' = rotations
      /\ credentials[c] # "absent" /\ credentials' = [credentials EXCEPT ![c] = "revoked"]
  BY DEF RevokeCredential
<1>3. admin' \in 0 .. MaxAdmin
  BY <1>1, MoreAdmin DEF RevokeCredential
<1>4. credentials' \in [Creds -> CredentialStates]
  BY <1>1, <1>2 DEF TypeOK, CredentialStates
<1>5. credentials'[c] = "revoked" /\ \A d \in Creds : d # c => credentials'[d] = credentials[d]
  BY <1>1, <1>2 DEF TypeOK
<1>6. CredentialsEvolve /\ Issued' = Issued /\ \A d \in Creds : d \in Active' => d \in Active
  BY <1>2, <1>5 DEF CredentialsEvolve, Settled, Issued, Active
<1>7. PendingOK'
  BY <1>1, <1>2, <1>5, <1>6 DEF TablesOK, PendingOK
<1>8. RevokedHasNoActive'
  BY <1>1, <1>2, <1>5 DEF TablesOK, RevokedHasNoActive, Active
<1>9. /\ tokens' \in [Tokens -> {"unissued", "issued", "consumed", "void"}]
      /\ agent' \in [exists : BOOLEAN, active : BOOLEAN, install : Installs \union {None}]
      /\ rotations' \in [Creds -> [state : {"none", "pending", "activated", "expired", "revoked"},
                                   previous : Creds \union {None}]]
  BY <1>1, <1>2 DEF TypeOK
<1> QED
  BY <1>2, <1>3, <1>4, <1>6, <1>7, <1>8, <1>9, AdministersStep

LEMMA ClockStep ==
  ASSUME IInv, (\E c \in Creds : Lapse(c)) \/ (\E k \in Keys : ReplayCloses(k)) \/ (\E i \in Installs : Skew(i))
  PROVE  IInv'
<1>1. /\ UNCHANGED <<disk, process, database, requests, ghost, purge>>
      /\ lapsed \subseteq lapsed' /\ lapsed' \subseteq Creds /\ replayOver' \subseteq Keys /\ skewed' \subseteq Installs
  BY DEF IInv, TypeOK, Lapse, ReplayCloses, Skew, TimePasses
<1>2. Evolve
  BY <1>1, StillEvolves DEF ghost, process
<1>3. RequestsOK' /\ ProcessOK' /\ requests' \subseteq Requests
  BY <1>1, <1>2, RequestsEvolve DEF process
<1>4. TypeOK'
  BY <1>1, <1>3 DEF IInv, TypeOK, disk, process, database, idempotency, ghost
<1>5. TablesOK' /\ AcceptedOK'
  BY <1>1, TablesStill DEF ghost
<1> QED
  BY <1>2, <1>3, <1>4, <1>5, BackendStep

-----------------------------------------------------------------------------
(* Steps that issue a credential *)

LEMMA ImageBound ==
  ASSUME NEW S, IsFiniteSet(S), NEW f
  PROVE  IsFiniteSet({f[x] : x \in S}) /\ Cardinality({f[x] : x \in S}) <= Cardinality(S)
<1>1. PICK T : T = {f[x] : x \in S}
  OBVIOUS
<1>2. PICK g : g = [x \in S |-> f[x]]
  OBVIOUS
<1>3. g \in Surjection(S, T)
  BY <1>1, <1>2 DEF Surjection
<1> QED
  BY <1>1, <1>3, FS_Surjection

\* There are no more credentials than keys and tokens that have one.
LEMMA IssuedBound ==
  ASSUME IInv, NEW K, NEW T, IsFiniteSet(K), IsFiniteSet(T),
         \A k \in Keys : created[k] # None => k \in K,
         \A t \in Tokens : registered[t].cred # None => t \in T
  PROVE  IsFiniteSet(Issued) /\ Cardinality(Issued) \in Nat /\ Cardinality(Issued) <= Cardinality(K) + Cardinality(T)
<1>1. PICK g : g = [t \in T |-> registered[t].cred]
  OBVIOUS
<1>2. PICK A, B : A = {created[k] : k \in K} /\ B = {g[t] : t \in T}
  OBVIOUS
<1>3. IsFiniteSet(A) /\ Cardinality(A) <= Cardinality(K) /\ IsFiniteSet(B) /\ Cardinality(B) <= Cardinality(T)
  BY <1>2, ImageBound
<1>4. Issued \subseteq A \union B
  <2>1. Issued = ({created[k] : k \in Keys} \union {registered[t].cred : t \in Tokens}) \ {None}
    BY DEF IInv, TablesOK, OneCredentialPerRequest
  <2> QED
    BY <1>1, <1>2, <2>1
<1>5. /\ IsFiniteSet(A \union B) /\ Cardinality(A) \in Nat /\ Cardinality(B) \in Nat /\ Cardinality(A \cap B) \in Nat
      /\ Cardinality(A \union B) = Cardinality(A) + Cardinality(B) - Cardinality(A \cap B)
      /\ Cardinality(K) \in Nat /\ Cardinality(T) \in Nat
  BY <1>3, FS_Union, FS_CardinalityType, FS_Intersection
<1>6. IsFiniteSet(Issued) /\ Cardinality(Issued) <= Cardinality(A \union B) /\ Cardinality(Issued) \in Nat
  <2>1. Issued \in SUBSET (A \union B)
    BY <1>4
  <2>2. IsFiniteSet(Issued) /\ Cardinality(Issued) <= Cardinality(A \union B)
    BY <1>5, <2>1, FS_Subset
  <2> QED
    BY <2>2, FS_CardinalityType
<1> QED
  BY <1>3, <1>5, <1>6

\* A request that has no credential yet finds the next version free.
LEMMA NextIsFree ==
  ASSUME IInv, \/ \E k \in Keys : created[k] = None
               \/ \E t \in Tokens : registered[t].cred = None
  PROVE  /\ NextVersion \in Creds /\ NextVersion \notin Issued
         /\ \A S : S = Issued \union {NextVersion} => S = 1 .. Cardinality(S)
<1>1. /\ IsFiniteSet(Keys) /\ Cardinality(Keys) = MaxKeys /\ IsFiniteSet(Tokens) /\ Cardinality(Tokens) \in Nat
      /\ MaxKeys \in Nat
  <2>1. MaxKeys \in Nat /\ IsFiniteSet(Tokens)
    BY Bounds
  <2>2. IsFiniteSet(1 .. MaxKeys) /\ Cardinality(1 .. MaxKeys) = MaxKeys
    <3>1. 1 \in Int /\ MaxKeys \in Int
      BY <2>1
    <3>2. /\ IsFiniteSet(1 .. MaxKeys)
          /\ Cardinality(1 .. MaxKeys) = IF 1 > MaxKeys THEN 0 ELSE MaxKeys - 1 + 1
      BY <3>1, FS_Interval
    <3> QED
      BY <2>1, <3>2
  <2>3. Cardinality(Tokens) \in Nat
    BY <2>1, FS_CardinalityType
  <2> QED
    BY <2>1, <2>2, <2>3 DEF Keys
<1>2. PICK n : n = Cardinality(Issued)
  OBVIOUS
<1>3. IsFiniteSet(Issued) /\ n \in Nat /\ n < MaxKeys + Cardinality(Tokens)
  <2>1. ASSUME NEW k \in Keys, created[k] = None
        PROVE  IsFiniteSet(Issued) /\ n \in Nat /\ n < MaxKeys + Cardinality(Tokens)
    <3>1. IsFiniteSet(Keys \ {k}) /\ Cardinality(Keys \ {k}) = MaxKeys - 1
      BY <1>1, FS_RemoveElement
    <3>2. IsFiniteSet(Issued) /\ n \in Nat /\ n <= Cardinality(Keys \ {k}) + Cardinality(Tokens)
      BY <1>1, <1>2, <2>1, <3>1, IssuedBound
    <3> QED
      BY <1>1, <3>1, <3>2
  <2>2. ASSUME NEW t \in Tokens, registered[t].cred = None
        PROVE  IsFiniteSet(Issued) /\ n \in Nat /\ n < MaxKeys + Cardinality(Tokens)
    <3>1. IsFiniteSet(Tokens \ {t}) /\ Cardinality(Tokens \ {t}) = Cardinality(Tokens) - 1
      BY <1>1, FS_RemoveElement
    <3>2. IsFiniteSet(Issued) /\ n \in Nat /\ n <= Cardinality(Keys) + Cardinality(Tokens \ {t})
      BY <1>1, <1>2, <2>2, <3>1, IssuedBound
    <3> QED
      BY <1>1, <3>1, <3>2
  <2> QED
    BY <2>1, <2>2
<1>4. Issued = 1 .. n
  BY <1>2 DEF IInv, TablesOK, VersionsOK
<1>5. NextVersion = n + 1
  BY <1>2 DEF NextVersion
<1>6. NextVersion \in Creds /\ NextVersion \notin Issued
  BY <1>1, <1>3, <1>4, <1>5 DEF Creds
<1>7. ASSUME NEW S, S = Issued \union {NextVersion} PROVE S = 1 .. Cardinality(S)
  <2>1. Cardinality(S) = n + 1
    BY <1>2, <1>3, <1>6, <1>7, FS_AddElement
  <2> QED
    BY <1>3, <1>4, <1>5, <1>7, <2>1
<1> QED
  BY <1>6, <1>7

LEMMA RegisteredSettled ==
  ASSUME IInv, Evolve
  PROVE  \A t \in Tokens : registered[t].cred # None => credentials'[registered[t].cred] \notin {"absent", "pending"}
<1>1. \A t \in Tokens : registered[t].cred # None => registered[t].cred \in Creds /\ Settled(registered[t].cred)
  BY DEF IInv, TypeOK, TablesOK, RegisteredOK
<1>2. \A c \in Creds : Settled(c) => credentials'[c] \notin {"absent", "pending"}
  BY DEF Evolve, CredentialsEvolve, Settled
<1> QED
  BY <1>1, <1>2

LEMMA CreateRotationStep ==
  ASSUME IInv, NEW r \in requests, CreateRotation(r)
  PROVE  IInv'
<1>1. r \in Requests /\ RequestOK(r) /\ TypeOK /\ TablesOK /\ r.op = "create" /\ created[r.key] = None
  BY DEF IInv, RequestsOK, CreateRotation, TypeOK
<1>2. /\ r.key \in Keys /\ r.key <= drawn.key /\ r.key = identity.key /\ r.cred \in Issued /\ r.cred \in Creds
  BY <1>1 DEF RequestOK, CreateOK, Issued
<1>3. CASE Fails(r)
  BY <1>3, FailsStep
<1>4. CASE ~ Fails(r)
  <2>1. PICK n : n = NextVersion
    OBVIOUS
  <2>2. n \in Creds /\ n \notin Issued /\ n # None /\ \A S : S = Issued \union {n} => S = 1 .. Cardinality(S)
    BY <1>1, <1>2, <2>1, NextIsFree, Numbers
  <2>3. PICK answer \in Answers : answer = Answer("ok", n) /\ answer.cred = n
    BY <2>2, Replies
  <2>4. /\ \A c \in Creds : ExpiredRotations[c].state # "pending"
        /\ credentials' = [ExpiredCredentials EXCEPT ![n] = "pending"]
        /\ rotations' = [ExpiredRotations EXCEPT ![n] = [state |-> "pending", previous |-> r.cred]]
        /\ created' = [created EXCEPT ![r.key] = n]
        /\ Respond(r, answer) /\ UNCHANGED <<agent, activated, registered, tokens>>
    BY <1>4, <2>1, <2>3 DEF CreateRotation
  <2>5. /\ requests' = requests \ {r} /\ reply' = (IF r.awaited THEN answer ELSE reply)
        /\ UNCHANGED <<disk, pc, clock, ghost, purge>>
    BY <2>4 DEF Respond
  <2>6. /\ credentials'[n] = "pending" /\ credentials[n] = "absent"
        /\ \A c \in Creds : c # n => \/ credentials'[c] = credentials[c]
                                     \/ credentials[c] = "pending" /\ credentials'[c] = "expired"
    BY <1>1, <2>2, <2>4, Expired DEF Issued
  <2>7. /\ rotations'[n] = [state |-> "pending", previous |-> r.cred]
        /\ \A c \in Creds : c # n => rotations'[c].state # "pending"
    BY <1>1, <2>2, <2>4, Expired
  <2>8. /\ created'[r.key] = n /\ \A k \in Keys : k # r.key => created'[k] = created[k]
    BY <1>1, <1>2, <2>4 DEF TypeOK
  <2>9. identity.rotation = "requested"
    BY <1>1, <1>2, Numbers DEF IInv, RotationOK, Rotating, IdentityOK, TypeOK, Identity, RotationStates
  <2>10. Evolve
    <3>1. CredentialsEvolve
      BY <2>4, <2>6 DEF CredentialsEvolve, Settled, Issued
    <3>2. RecordsEvolve
      BY <1>1, <1>2, <2>4, <2>8, <2>9 DEF RecordsEvolve
    <3> QED
      BY <2>5, <3>1, <3>2 DEF Evolve, clock, ghost
  <2>11. Issued' = Issued \union {n}
    BY <2>2, <2>6 DEF Issued
  <2>12. \A c \in Creds : c \in Active' => c \in Active
    BY <2>6 DEF Active
  <2>13. TablesOK'
    <3>1. ActiveOK' /\ RevokedHasNoActive'
      BY <1>1, <2>4, <2>12 DEF TablesOK, ActiveOK, RevokedHasNoActive, Active
    <3>2. PendingOK'
      <4>1. \A c \in Creds : credentials'[c] = "pending" => c = n
        BY <1>1, <2>4, <2>6, Expired DEF TablesOK, PendingOK
      <4>2. rotations'[n].state = "pending" /\ rotations'[n].previous = r.cred
        BY <2>7
      <4> QED
        BY <1>2, <2>7, <2>11, <4>1, <4>2 DEF PendingOK
    <3>3. VersionsOK'
      BY <2>2, <2>11 DEF VersionsOK
    <3>4. OneCredentialPerRequest'
      <4>1. Issued = ({created[k] : k \in Keys} \union {registered[t].cred : t \in Tokens}) \ {None}
        BY <1>1 DEF TablesOK, OneCredentialPerRequest
      <4>2. \A k \in Keys : created'[k] # None =>
              (created'[k] = n /\ k = r.key) \/ (created'[k] = created[k] /\ created[k] \in Issued)
        <5>1. \A k \in Keys : created[k] # None => created[k] \in Issued
          BY CreatedIssued
        <5> QED
          BY <2>8, <5>1
      <4>3. Issued' = ({created'[k] : k \in Keys} \union {registered'[t].cred : t \in Tokens}) \ {None}
        BY <1>1, <1>2, <2>2, <2>4, <2>8, <2>11, <4>1
      <4>4. \A k1, k2 \in Keys : created'[k1] = created'[k2] /\ created'[k1] # None => k1 = k2
        BY <1>1, <2>2, <4>2 DEF TablesOK, OneCredentialPerRequest
      <4> QED
        BY <4>3, <4>4 DEF OneCredentialPerRequest
    <3>5. RegisteredOK'
      <4>1. \A t \in Tokens : registered[t].cred # None => credentials'[registered[t].cred] \notin {"absent", "pending"}
        BY <2>10, RegisteredSettled
      <4> QED
        BY <1>1, <2>4, <2>10, <4>1, DiskStays DEF TablesOK, RegisteredOK, Settled
    <3>6. CreatedOK'
      BY <1>1, <1>2, <2>4, <2>8, <2>10, DiskStays DEF TablesOK, CreatedOK
    <3>7. ActivatedOK'
      BY <1>1, <2>4, <2>8, <2>10, Numbers DEF TablesOK, ActivatedOK, Evolve, CredentialsEvolve
    <3> QED
      BY <1>1, <2>4, <2>10, <3>1, <3>2, <3>3, <3>4, <3>5, <3>6, <3>7, DiskStays DEF TablesOK
  <2>14. AcceptedOK'
    BY <2>4, <2>10, <2>12, AcceptedStays
  <2>15. r.awaited /\ pc = r.op => ReplyOK'
    BY <1>1, <1>2, <2>2, <2>3, <2>5, <2>8 DEF ReplyOK, disk
  <2>16. RequestsOK' /\ ProcessOK' /\ requests' \subseteq Requests /\ reply' \in Answers
    BY <2>5, <2>10, <2>15, Answered
  <2>17. /\ credentials' \in [Creds -> CredentialStates]
         /\ rotations' \in [Creds -> [state : {"none", "pending", "activated", "expired", "revoked"},
                                      previous : Creds \union {None}]]
         /\ created' \in [Keys -> Creds \union {None}]
    BY <1>1, <1>2, <2>2, <2>4, Expired DEF TypeOK, CredentialStates
  <2>18. TypeOK'
    BY <1>1, <2>4, <2>5, <2>16, <2>17 DEF TypeOK, disk, clock, ghost
  <2> QED
    BY <2>10, <2>13, <2>14, <2>16, <2>18, BackendStep
<1> QED
  BY <1>3, <1>4

LEMMA RegisterStep ==
  ASSUME IInv, NEW r \in requests, Register(r)
  PROVE  IInv'
<1>1. r \in Requests /\ RequestOK(r) /\ TypeOK /\ TablesOK /\ r.op = "register"
  BY DEF IInv, RequestsOK, Register, TypeOK
<1>2. PICK t \in Tokens : t = r.token
  BY <1>1 DEF RequestOK, RegisterOK
<1>3. PICK i \in Installs : i = r.install /\ i <= drawn.install /\ (r.awaited => i = identity.install)
  BY <1>1 DEF RequestOK, RegisterOK, AwaitedOK
<1>4. CASE Fails(r)
  BY <1>4, FailsStep
<1>5. ASSUME registered[t].cred # None, registered[t].install = i, Respond(r, Answer("ok", registered[t].cred)),
             UNCHANGED database
      PROVE  IInv'
  <2>1. PICK answer \in Answers : answer = Answer("ok", registered[t].cred) /\ answer.cred = registered[t].cred
    BY <1>1, Replies DEF TypeOK
  <2>2. ASSUME r.awaited, pc = r.op, reply' = answer PROVE ReplyOK'
    <3>1. pc' = "register" /\ identity' = identity /\ registered' = registered
      BY <1>1, <1>5, <2>2, Database DEF Respond, disk
    <3> QED
      BY <1>3, <1>5, <2>1, <2>2, <3>1 DEF ReplyOK, RegisteredHere
  <2> QED
    BY <1>5, <2>1, <2>2, RespondStep
<1>6. ASSUME tokens[t] = "issued",
             agent' = [exists |-> TRUE, active |-> TRUE, install |-> i],
             credentials' = [c \in Creds |-> CASE c = NextVersion -> "active"
                                               [] c # NextVersion /\ credentials[c] = "active" -> "revoked"
                                               [] OTHER -> credentials[c]],
             registered' = [registered EXCEPT ![t] = [install |-> i, cred |-> NextVersion]],
             tokens' = [tokens EXCEPT ![t] = "consumed"],
             Respond(r, Answer("ok", NextVersion)), UNCHANGED <<rotations, created, activated>>
      PROVE  IInv'
  <2>1. PICK n : n = NextVersion
    OBVIOUS
  <2>2. registered[t].cred = None /\ registered[t].install = None
    BY <1>1, <1>6 DEF TablesOK, RegisteredOK
  <2>3. n \in Creds /\ n \notin Issued /\ n # None /\ \A S : S = Issued \union {n} => S = 1 .. Cardinality(S)
    BY <2>1, <2>2, NextIsFree, Numbers
  <2>4. PICK answer \in Answers : answer = Answer("ok", n) /\ answer.cred = n
    BY <2>3, Replies
  <2>5. /\ requests' = requests \ {r} /\ reply' = (IF r.awaited THEN answer ELSE reply)
        /\ UNCHANGED <<disk, pc, clock, ghost, purge>>
    BY <1>6, <2>1, <2>4 DEF Respond
  <2>6. /\ credentials'[n] = "active" /\ credentials[n] = "absent"
        /\ \A c \in Creds : c # n => credentials'[c] = IF credentials[c] = "active" THEN "revoked" ELSE credentials[c]
        /\ credentials' \in [Creds -> CredentialStates]
    BY <1>1, <1>6, <2>1, <2>3 DEF Issued, TypeOK, CredentialStates
  <2>7. /\ registered'[t] = [install |-> i, cred |-> n] /\ registered'[t].install = i /\ registered'[t].cred = n
        /\ \A s \in Tokens : s # t => registered'[s] = registered[s] /\ tokens'[s] = tokens[s]
        /\ tokens'[t] = "consumed"
    BY <1>1, <1>6, <2>1 DEF TypeOK
  <2>8. agent'.active /\ agent'.exists /\ agent'.install = i
    BY <1>6
  <2>9. Evolve
    <3>1. CredentialsEvolve
      BY <2>6, <2>8 DEF CredentialsEvolve, Settled, Issued
    <3>2. RecordsEvolve
      BY <1>6, <2>2, <2>7 DEF RecordsEvolve
    <3> QED
      BY <2>5, <3>1, <3>2 DEF Evolve, clock, ghost
  <2>10. Issued' = Issued \union {n}
    BY <2>3, <2>6 DEF Issued
  <2>11. \A c \in Creds : credentials'[c] = "active" => c = n
    BY <2>6
  <2>12. TablesOK'
    <3>1. ActiveOK' /\ RevokedHasNoActive'
      BY <2>8, <2>11 DEF ActiveOK, RevokedHasNoActive
    <3>2. PendingOK'
      <4>1. \A c \in Creds : credentials'[c] = "pending" => credentials[c] = "pending"
        BY <2>6
      <4> QED
        BY <1>1, <1>6, <2>10, <4>1 DEF TablesOK, PendingOK
    <3>3. VersionsOK'
      BY <2>3, <2>10 DEF VersionsOK
    <3>4. OneCredentialPerRequest'
      <4>1. Issued = ({created[k] : k \in Keys} \union {registered[s].cred : s \in Tokens}) \ {None}
        BY <1>1 DEF TablesOK, OneCredentialPerRequest
      <4>2. {registered'[s].cred : s \in Tokens} \ {None} = ({registered[s].cred : s \in Tokens} \ {None}) \union {n}
        BY <2>2, <2>3, <2>7
      <4>3. Issued' = ({created'[k] : k \in Keys} \union {registered'[s].cred : s \in Tokens}) \ {None}
        BY <1>6, <2>10, <4>1, <4>2
      <4> QED
        BY <1>1, <1>6, <4>3 DEF TablesOK, OneCredentialPerRequest
    <3>5. RegisteredOK'
      <4>1. \A s \in Tokens : registered[s].cred # None => credentials'[registered[s].cred] \notin {"absent", "pending"}
        BY <2>9, RegisteredSettled
      <4>2. drawn' = drawn /\ drawn.install \in Nat /\ i \in 1 .. drawn.install
        BY <1>1, <1>3, <2>9, DiskStays, Bounds DEF TypeOK, Installs
      <4>3. ASSUME NEW s \in Tokens, s # t
            PROVE  IF registered'[s].cred = None THEN registered'[s].install = None
                   ELSE /\ registered'[s].install \in 1 .. drawn'.install
                        /\ credentials'[registered'[s].cred] \notin {"absent", "pending"} /\ tokens'[s] = "consumed"
        BY <1>1, <2>7, <4>1, <4>2, <4>3 DEF TablesOK, RegisteredOK
      <4>4. registered'[t].install \in 1 .. drawn'.install /\ credentials'[registered'[t].cred] \notin {"absent", "pending"}
        BY <2>6, <2>7, <4>2
      <4> QED
        BY <2>3, <2>7, <4>3, <4>4 DEF RegisteredOK, Settled
    <3>6. CreatedOK' /\ ActivatedOK'
      BY <1>1, <1>6, <2>9, DiskStays DEF TablesOK, CreatedOK, ActivatedOK, Evolve, CredentialsEvolve
    <3>7. agent'.install <= drawn'.install
      BY <1>3, <2>8, <2>9, DiskStays
    <3> QED
      BY <3>1, <3>2, <3>3, <3>4, <3>5, <3>6, <3>7 DEF TablesOK
  <2>13. AcceptedOK'
    <3>1. identity' = identity
      BY <2>9, DiskStays
    <3> SUFFICES ASSUME identity.exists, i = identity.install, AtMostOneToken', NEW c \in Active' PROVE Current(c)'
      BY <2>8, <3>1 DEF AcceptedOK
    <3>2. c = n
      BY <2>11 DEF Active
    <3>3. RegisteredHere(t)' /\ ~ RegisteredHere(t)
      BY <1>3, <2>2, <2>7, <3>1, Numbers DEF RegisteredHere
    <3>4. ~ identity.enrolled
      <4> SUFFICES ASSUME identity.enrolled PROVE FALSE
        OBVIOUS
      <4>1. PICK s \in Tokens : RegisteredHere(s)
        BY DEF IInv, IdentityOK
      <4>2. RegisteredHere(s)'
        BY <2>9, <4>1, RegisteredStays
      <4> QED
        BY <3>3, <4>1, <4>2 DEF AtMostOneToken
    <3> QED
      BY <2>7, <3>1, <3>2, <3>3, <3>4 DEF Current
  <2>14. r.awaited /\ pc = r.op => ReplyOK'
    BY <1>1, <1>3, <2>3, <2>4, <2>5, <2>7 DEF ReplyOK, RegisteredHere, disk
  <2>15. RequestsOK' /\ ProcessOK' /\ requests' \subseteq Requests /\ reply' \in Answers
    BY <2>5, <2>9, <2>14, Answered
  <2>16. /\ registered' \in [Tokens -> [install : Installs \union {None}, cred : Creds \union {None}]]
         /\ tokens' \in [Tokens -> {"unissued", "issued", "consumed", "void"}]
         /\ agent' \in [exists : BOOLEAN, active : BOOLEAN, install : Installs \union {None}]
    BY <1>1, <1>6, <2>1, <2>3 DEF TypeOK
  <2>17. TypeOK'
    BY <1>1, <1>6, <2>5, <2>6, <2>15, <2>16 DEF TypeOK, disk, clock, ghost
  <2> QED
    BY <2>9, <2>12, <2>13, <2>15, <2>17, BackendStep
<1> QED
  BY <1>2, <1>3, <1>4, <1>5, <1>6 DEF Register

-----------------------------------------------------------------------------
(* The specification *)

LEMMA InitStep ==
  ASSUME Init
  PROVE  IInv
<1>1. TypeOK
  <2>1. NoIdentity \in Identity
    BY DEF NoIdentity, Identity, RotationStates
  <2>2. /\ drawn \in [key : 0 .. MaxKeys, install : 0 .. MaxInstalls] /\ faults \in 0 .. MaxFaults /\ admin \in 0 .. MaxAdmin
    BY CredentialAssumption DEF Init
  <2> QED
    BY <2>1, <2>2, Replies DEF Init, TypeOK, Labels, CredentialStates
<1>2. TablesOK
  <2>1. Issued = {} /\ Active = {}
    BY DEF Init, Issued, Active
  <2>2. VersionsOK
    <3>1. Cardinality({}) = 0
      BY FS_EmptySet
    <3> QED
      BY <2>1, <3>1 DEF VersionsOK
  <2>3. OneCredentialPerRequest
    BY <2>1 DEF Init, OneCredentialPerRequest
  <2>4. ActiveOK /\ PendingOK /\ RevokedHasNoActive /\ RegisteredOK /\ CreatedOK /\ ActivatedOK
    BY <2>1 DEF Init, ActiveOK, PendingOK, RevokedHasNoActive, RegisteredOK, CreatedOK, ActivatedOK
  <2>5. agent.install <= drawn.install
    BY DEF Init, None
  <2> QED
    BY <2>2, <2>3, <2>4, <2>5 DEF TablesOK
<1>3. RequestsOK
  BY DEF Init, RequestsOK
<1>4. IdentityOK /\ RotationOK
  BY DEF Init, NoIdentity, IdentityOK, RotationOK, Rotating
<1>5. ProcessOK
  BY DEF Init, ProcessOK, EnrollingOK, CreatingOK, ActivatingOK, FinishingOK, BeatingOK, ErasingOK, Enrolling, Creating
<1>6. HeldOK /\ SecretsOK /\ AcceptedOK
  BY DEF Init, NoIdentity, HeldOK, SecretsOK, AcceptedOK
<1> QED
  BY <1>1, <1>2, <1>3, <1>4, <1>5, <1>6 DEF IInv

LEMMA NextStep ==
  ASSUME IInv, [Next]_vars
  PROVE  IInv'
<1>1. CASE RotateStep
  BY <1>1, RequestRotationStep, RotationRaisesStep, CreateReplyStep, KeepPendingStep, RecordPendingStep,
     RequestActivationStep, ActivateReplyStep, CutoverStep, ResumeActivatedStep, DropPreviousStep, ClearRotationStep
     DEF RotateStep
<1>2. CASE OtherStep
  BY <1>2, RegisterReplyStep, KeepActiveStep, RecordActiveStep, BeatReplyStep, EraseStep, ForgetRowStep, PurgeStep
     DEF OtherStep
<1>3. CASE Backend
  BY <1>3, LoseRequestStep, AdmitStep, ReplayCreateStep, CreateRotationStep, ActivateStep, RegisterStep DEF Backend
<1>4. CASE StartRun \/ BeginRotation \/ Beat \/ BeginPurge \/ Crash \/ TimesOut \/ RevokeAgent
  BY <1>4, StartRunStep, BeginRotationStep, BeatStep, BeginPurgeStep, CrashStep, TimesOutStep, RevokeAgentStep
<1>5. CASE \E t \in Tokens : Enroll(t) \/ IssueToken(t) \/ VoidToken(t)
  BY <1>5, EnrollStep, TokenStep
<1>6. CASE \E c \in Creds : RevokeCredential(c)
  BY <1>6, RevokeCredentialStep
<1>7. CASE (\E c \in Creds : Lapse(c)) \/ (\E k \in Keys : ReplayCloses(k)) \/ (\E i \in Installs : Skew(i))
  BY <1>7, ClockStep
<1>8. CASE UNCHANGED vars
  <2>1. /\ UNCHANGED <<disk, process, database, requests, clock, ghost, purge>>
    BY <1>8 DEF vars
  <2>2. Evolve
    BY <2>1, StillEvolves DEF ghost, process, clock
  <2>3. RequestsOK' /\ ProcessOK' /\ requests' \subseteq Requests
    BY <2>1, <2>2, RequestsEvolve DEF process
  <2>4. TypeOK'
    BY <2>1, <2>3 DEF IInv, TypeOK, disk, process, database, idempotency, clock, ghost
  <2>5. TablesOK' /\ AcceptedOK'
    BY <2>1, TablesStill DEF ghost
  <2> QED
    BY <2>2, <2>3, <2>4, <2>5, BackendStep
<1> QED
  BY <1>1, <1>2, <1>3, <1>4, <1>5, <1>6, <1>7, <1>8 DEF Next

\* The tables, the requests under way, the row, the process and the secret store
\* agree in every reachable state, whatever crashes, is lost or is revoked.
THEOREM Invariance == Spec => []IInv
<1>1. Init => IInv
  BY InitStep
<1>2. IInv /\ [Next]_vars => IInv'
  BY NextStep
<1> QED
  BY <1>1, <1>2, PTL DEF Spec

LEMMA AtMostOne ==
  ASSUME NEW S, S \subseteq Creds, \A c, d \in S : c = d
  PROVE  Cardinality(S) <= 1
<1>1. CASE S = {}
  BY <1>1, FS_EmptySet
<1>2. CASE S # {}
  <2>1. PICK c : S = {c}
    BY <1>2
  <2> QED
    BY <2>1, FS_Singleton
<1> QED
  BY <1>1, <1>2

\* At most one credential of the agent authenticates and at most one rotation is
\* pending, in every order in which creations, activations, recoveries and
\* revocations commit (agent_credentials.py, enrollment.py).
THEOREM OneActiveTheorem == Spec => []OneActiveOnePending
<1>1. IInv => OneActiveOnePending
  <2> SUFFICES ASSUME IInv PROVE OneActiveOnePending
    OBVIOUS
  <2>1. ActiveOK /\ PendingOK
    BY DEF IInv, TablesOK
  <2>2. Cardinality(Active) <= 1
    BY <2>1, AtMostOne DEF ActiveOK, Active
  <2>3. Cardinality(PendingRotations) <= 1
    BY <2>1, AtMostOne DEF PendingOK, PendingRotations
  <2> QED
    BY <2>1, <2>2, <2>3 DEF OneActiveOnePending, PendingOK
<1> QED
  BY <1>1, Invariance, PTL

LEMMA OneTokenAtMost ==
  ASSUME OneToken
  PROVE  AtMostOneToken
<1>1. PICK S : S = {t \in Tokens : registered[t].install = identity.install}
  OBVIOUS
<1>2. IsFiniteSet(S)
  BY <1>1, Bounds, FS_Subset
<1>3. PICK x : S = {x}
  BY <1>1, <1>2, FS_Singleton DEF OneToken
<1> QED
  BY <1>1, <1>3 DEF AtMostOneToken, RegisteredHere

\* At every crash point of enroll, rotate and _finalize_activated the agent holds
\* the secret its row names and the one the backend accepts (identity.py).
THEOREM KeptTheorem == Spec => []CredentialKept
<1>1. IInv => CredentialKept
  <2> SUFFICES ASSUME IInv PROVE CredentialKept
    OBVIOUS
  <2>1. TypeOK /\ IdentityOK /\ RotationOK /\ HeldOK /\ AcceptedOK
    BY DEF IInv
  <2>2. ActiveSecretHeld
    BY <2>1 DEF ActiveSecretHeld, Local, HeldOK
  <2>3. NeverLockedOut
    <3> SUFFICES ASSUME Local, agent.install = identity.install, OneToken, NEW c \in Active
                 PROVE  \E ref \in {identity.active, identity.pending} : ref.cred = c /\ ref \in secrets
      BY DEF NeverLockedOut
    <3>1. identity.enrolled /\ identity.exists /\ ~ identity.revoked /\ identity.active \in secrets
      BY <2>1, <2>2 DEF Local, ActiveSecretHeld, IdentityOK
    <3>2. Current(c)
      BY <2>1, <3>1, OneTokenAtMost DEF AcceptedOK
    <3>3. CASE identity.rotation = "activation_uncertain" /\ c = created[identity.key]
      <4>1. identity.pending \in secrets /\ identity.pending = Ref("pending", created[identity.key])
        BY <2>1, <3>3 DEF HeldOK, RotationOK, Local
      <4> QED
        BY <3>3, <4>1, References
    <3>4. CASE c = identity.active.cred
      BY <3>1, <3>4
    <3> QED
      BY <3>1, <3>2, <3>3, <3>4 DEF Current
  <2> QED
    BY <2>1, <2>2, <2>3 DEF CredentialKept
<1> QED
  BY <1>1, Invariance, PTL

\* Retries, replays and late requests never make a second credential for one
\* idempotency key or one token (agent_credentials.py, enrollment.py).
THEOREM OneCredentialTheorem == Spec => []OneCredentialPerRequest
<1>1. IInv => OneCredentialPerRequest
  BY DEF IInv, TablesOK
<1> QED
  BY <1>1, Invariance, PTL

\* A completed revocation leaves no secret on the agent and no active credential
\* at the backend, even if an activation was under way (identity.py:315).
THEOREM RevocationTheorem == Spec => []RevokedKeepsNothing
<1>1. IInv => RevokedKeepsNothing
  <2> SUFFICES ASSUME IInv PROVE RevokedKeepsNothing
    OBVIOUS
  <2>1. TypeOK /\ IdentityOK /\ RotationOK /\ SecretsOK /\ RevokedHasNoActive
    BY DEF IInv, TablesOK
  <2>2. RevocationErases
    <3> SUFFICES ASSUME identity.revoked, ~ HasRefs, purge = "never", OneToken, NEW ref \in secrets PROVE FALSE
      BY DEF RevocationErases
    <3>1. Accounted(ref) /\ ref \in Refs /\ ref # NoRef
      BY <2>1, OneTokenAtMost, References DEF SecretsOK, TypeOK
    <3>2. identity.enrolled /\ identity.rotation = "revoked"
      BY <2>1 DEF IdentityOK
    <3> QED
      BY <3>1, <3>2 DEF Accounted, HasRefs
  <2> QED
    BY <2>1, <2>2 DEF RevokedKeepsNothing
<1> QED
  BY <1>1, Invariance, PTL

\* The agent gives its identity up only when the credential it used was not
\* acceptable to the backend at that moment (runtime.py:74).
THEOREM CauseTheorem == Spec => RevokedForCause
<1> DEFINE Cause == identity'.revoked /\ ~ identity.revoked =>
       \/ ~ agent.active
       \/ credentials[identity.active.cred] # "active"
       \/ identity.active.cred \in lapsed
<1>1. IInv /\ IInv' /\ [Next]_vars => [Cause]_vars
  <2> SUFFICES ASSUME IInv, IInv', Next, identity'.revoked, ~ identity.revoked PROVE Cause
    OBVIOUS
  <2>1. identity \in Identity
    BY DEF IInv, TypeOK
  <2>2. BeatReply
    <3>1. ~ (identity' = identity)
      OBVIOUS
    <3>2. CASE RotateStep
      <4>1. RecordPending \/ RequestActivation \/ Cutover \/ ClearRotation => identity'.revoked = identity.revoked
        <5>1. RecordPending => identity'.revoked = identity.revoked
          BY <2>1 DEF RecordPending, Identity
        <5>2. RequestActivation => identity'.revoked = identity.revoked
          BY <2>1 DEF RequestActivation, Identity
        <5>3. Cutover => identity'.revoked = identity.revoked
          BY <2>1 DEF Cutover, Identity
        <5>4. ClearRotation => identity'.revoked = identity.revoked
          BY <2>1 DEF ClearRotation, Identity
        <5> QED
          BY <5>1, <5>2, <5>3, <5>4
      <4>2. RequestRotation \/ RotationRaises \/ CreateReply \/ KeepPending \/ ActivateReply \/ ResumeActivated
              \/ DropPrevious => identity' = identity
        BY DEF RequestRotation, RotationRaises, CreateReply, KeepPending, ActivateReply, ResumeActivated, DropPrevious, disk
      <4> QED
        BY <3>1, <3>2, <4>1, <4>2 DEF RotateStep
    <3>3. CASE OtherStep
      <4>1. RecordActive => identity'.revoked = identity.revoked
        BY <2>1 DEF RecordActive, Identity
      <4>2. Forget => identity'.revoked = identity.revoked
        BY <2>1 DEF Forget, Identity
      <4>3. Purge => identity' = identity \/ ~ identity'.revoked
        BY DEF Purge, NoIdentity
      <4>4. RegisterReply \/ KeepActive \/ Erase => identity' = identity
        BY DEF RegisterReply, KeepActive, Erase, disk
      <4> QED
        BY <3>1, <3>3, <4>1, <4>2, <4>3, <4>4 DEF OtherStep
    <3>4. CASE Backend
      BY <3>1, <3>4 DEF Backend, LoseRequest, Admit, ReplayCreate, CreateRotation, Activate, Register, Fails, Respond, disk
    <3>5. CASE StartRun \/ BeginRotation \/ Beat \/ BeginPurge \/ Crash \/ TimesOut \/ RevokeAgent
      <4>1. BeginRotation => identity'.revoked = identity.revoked
        BY <2>1 DEF BeginRotation, Identity
      <4> QED
        BY <3>1, <3>5, <4>1 DEF StartRun, Beat, BeginPurge, Crash, TimesOut, RevokeAgent, Administers, disk
    <3>6. CASE \E t \in Tokens : Enroll(t) \/ IssueToken(t) \/ VoidToken(t)
      <4>1. \A t \in Tokens : Enroll(t) => identity' = identity \/ ~ identity'.revoked
        BY DEF Enroll, NoIdentity
      <4> QED
        BY <3>1, <3>6, <4>1 DEF IssueToken, VoidToken, Administers, disk
    <3>7. CASE \/ \E c \in Creds : RevokeCredential(c) \/ Lapse(c)
               \/ \E k \in Keys : ReplayCloses(k)
               \/ \E i \in Installs : Skew(i)
      BY <3>1, <3>7 DEF RevokeCredential, Administers, Lapse, ReplayCloses, Skew, TimePasses, disk
    <3> QED
      BY <3>2, <3>3, <3>4, <3>5, <3>6, <3>7 DEF Next
  <2>3. pc = "beat" /\ reply.kind = "rejected"
    BY <2>2 DEF BeatReply
  <2> QED
    BY <2>3 DEF IInv, ProcessOK, BeatingOK
<1>2. Spec => [][Cause]_vars
  BY <1>1, Invariance, PTL DEF Spec
<1> QED
  BY <1>2 DEF RevokedForCause
=============================================================================
