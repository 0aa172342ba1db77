-------------------------- MODULE CredentialRotation --------------------------
(***************************************************************************)
(* One agent's identity from enrolment to revocation: IdentityManager with  *)
(* its agent_identity row and SecretStore on the agent, EnrollmentService,  *)
(* AgentCredentialService and IdempotencyService on the backend.            *)
(*                                                                         *)
(* Every action is one committed transaction, one SecretStore mutation or   *)
(* one message.  A request the agent no longer waits for (timeout, crash)   *)
(* may still be processed later; an answer may be lost.  A credential's id, *)
(* version and secret are one number, a rotation is named by its pending    *)
(* credential, and a rotation's two idempotency keys by one number.         *)
(***************************************************************************)
EXTENDS Integers, FiniteSets

CONSTANTS
  EnrollToken,     \* the token of scope agent.enroll that makes the agent
  RecoverTokens,   \* tokens of scope agent.recover, bound to the agent
  MaxKeys,         \* bound: rotations the agent ever begins
  MaxInstalls,     \* bound: installation_id values ever drawn
  MaxAdmin,        \* bound: revocations by an administrator
  MaxFaults,       \* bound: crashes, timeouts, lost messages, failed secrets
  Lapses           \* whether expiry times can pass

Tokens == {EnrollToken} \union RecoverTokens
\* A credential is issued once per token and once per rotation key.
Creds == 1 .. MaxKeys + Cardinality(Tokens)
Keys == 1 .. MaxKeys
Installs == 1 .. MaxInstalls

ASSUME CredentialAssumption ==
  /\ EnrollToken \notin RecoverTokens /\ IsFiniteSet(RecoverTokens)
  /\ MaxKeys \in Nat /\ MaxInstalls \in Nat
  /\ MaxAdmin \in Nat /\ MaxFaults \in Nat
  /\ Lapses \in BOOLEAN

VARIABLES
  \* the agent's disk
  identity,        \* the agent_identity row
  secrets,         \* SecretStore: the references that hold a secret
  \* the agent's process
  pc,              \* the step of enroll / rotate / mark_revoked / cycle
  reply,           \* the answer the process is about to handle
  \* the backend's database
  agent,           \* the agents row
  credentials,     \* agent_credentials.state per credential
  rotations,       \* agent_credential_rotations per pending credential
  created,         \* completed agent.credential.rotate records, per key
  activated,       \* completed agent.credential.activate records
  registered,      \* completed agent.register records, per token
  tokens,          \* enrollment_tokens
  \* network and time
  requests,        \* requests sent and not yet answered
  lapsed,          \* credentials whose expires_at has passed
  replayOver,      \* keys whose secret replay has expired
  skewed,          \* installations whose agent_reported_at is too old
  drawn,           \* uuids drawn: [key, install]
  faults, admin,   \* how much has gone wrong, how often the admin revoked
  purge            \* ghost: "never", "begun" on this identity, or "done" before

disk == <<identity, secrets>>
process == <<pc, reply>>
idempotency == <<created, activated, registered>>
database == <<agent, credentials, rotations, idempotency, tokens>>
clock == <<lapsed, replayOver, skewed>>
ghost == <<drawn, faults, admin>>
vars == <<disk, process, database, requests, clock, ghost, purge>>

None == 0
NoRef == [kind |-> "none", cred |-> None]
Refs == [kind : {"active", "pending"}, cred : Creds]
Ref(kind, c) == [kind |-> kind, cred |-> c]
RotationStates == {"none", "requested", "pending_stored",
                   "activation_uncertain", "activated", "revoked"}
Identity == [exists : BOOLEAN, install : Installs \union {None},
             enrolled : BOOLEAN, revoked : BOOLEAN,
             active : Refs \union {NoRef}, pending : Refs \union {NoRef},
             previous : Refs \union {NoRef},
             rotation : RotationStates, key : Keys \union {None}]
NoIdentity == [exists |-> FALSE, install |-> None, enrolled |-> FALSE,
               revoked |-> FALSE, active |-> NoRef, pending |-> NoRef,
               previous |-> NoRef, rotation |-> "none", key |-> None]
Answers == [kind : {"none", "ok", "rejected", "error"}, cred : Creds \union {None}]
Answer(kind, c) == [kind |-> kind, cred |-> c]
NoAnswer == Answer("none", None)

Waiting == {"register", "create", "activate", "beat"}
Labels == Waiting \union
  {"down", "ready", "keep_active", "record_active", "rotate", "keep_pending",
   "record_pending", "cutover", "drop_previous", "clear", "erase", "forget",
   "purge"}
CredentialStates == {"absent", "pending", "active", "revoked", "expired"}
Requests == [op : Waiting, cred : Creds \union {None}, key : Keys \union {None},
             token : Tokens \union {None}, install : Installs \union {None},
             admitted : BOOLEAN, awaited : BOOLEAN]

TypeOK ==
  /\ identity \in Identity
  /\ secrets \subseteq Refs
  /\ pc \in Labels
  /\ reply \in Answers
  /\ agent \in [exists : BOOLEAN, active : BOOLEAN, install : Installs \union {None}]
  /\ credentials \in [Creds -> CredentialStates]
  /\ rotations \in [Creds -> [state : {"none", "pending", "activated", "expired",
                                       "revoked"}, previous : Creds \union {None}]]
  /\ created \in [Keys -> Creds \union {None}]
  /\ activated \subseteq Creds \X Keys
  /\ registered \in [Tokens -> [install : Installs \union {None},
                                cred : Creds \union {None}]]
  /\ tokens \in [Tokens -> {"unissued", "issued", "consumed", "void"}]
  /\ requests \subseteq Requests
  /\ lapsed \subseteq Creds
  /\ replayOver \subseteq Keys
  /\ skewed \subseteq Installs
  /\ drawn \in [key : 0 .. MaxKeys, install : 0 .. MaxInstalls]
  /\ faults \in 0 .. MaxFaults
  /\ admin \in 0 .. MaxAdmin
  /\ purge \in {"never", "begun", "done"}

Init ==
  /\ identity = NoIdentity
  /\ secrets = {}
  /\ pc = "down"
  /\ reply = NoAnswer
  /\ agent = [exists |-> FALSE, active |-> FALSE, install |-> None]
  /\ credentials = [c \in Creds |-> "absent"]
  /\ rotations = [c \in Creds |-> [state |-> "none", previous |-> None]]
  /\ created = [k \in Keys |-> None]
  /\ activated = {}
  /\ registered = [t \in Tokens |-> [install |-> None, cred |-> None]]
  /\ tokens = [t \in Tokens |-> "unissued"]
  /\ requests = {}
  /\ lapsed = {}
  /\ replayOver = {}
  /\ skewed = {}
  /\ drawn = [key |-> 0, install |-> 0]
  /\ faults = 0
  /\ admin = 0
  /\ purge = "never"

-----------------------------------------------------------------------------
(* The agent's process *)

Goto(label) == pc' = label /\ reply' = NoAnswer

\* An exception leaves the coroutine: enroll's CLI or start() ends the process.
Raises == Goto("down")

Send(op, c, k, t, i) ==
  requests' = requests \union
    {[op |-> op, cred |-> c, key |-> k, token |-> t, install |-> i,
      admitted |-> FALSE, awaited |-> TRUE]}

\* No more requests than this are ever in flight: one awaited, one forgotten.
Room == Cardinality(requests) < 2

\* The agent stops waiting; the request itself goes on.
Forgotten == {[r EXCEPT !.awaited = FALSE] : r \in requests}

Crash ==
  /\ pc # "down"
  /\ faults < MaxFaults
  /\ faults' = faults + 1
  /\ pc' = "down" /\ reply' = NoAnswer
  /\ requests' = Forgotten
  /\ UNCHANGED <<disk, database, clock, drawn, admin, purge>>

\* request_timeout_seconds passed: TransportError, the backend may still act.
TimesOut ==
  /\ pc \in Waiting /\ reply = NoAnswer
  /\ faults < MaxFaults
  /\ faults' = faults + 1
  /\ requests' = Forgotten
  /\ reply' = Answer("error", None)
  /\ UNCHANGED <<disk, pc, database, clock, drawn, admin, purge>>

HasRefs == \E ref \in {identity.active, identity.pending, identity.previous} :
             ref # NoRef

\* AgentRuntime.start: finish an interrupted revocation or rotation first.
StartRun ==
  /\ pc = "down" /\ identity.exists
  /\ \/ identity.rotation = "revoked" /\ HasRefs /\ pc' = "erase"
     \/ identity.rotation = "revoked" /\ ~ HasRefs /\ pc' = "ready"
     \/ identity.rotation = "none" /\ pc' = "ready"
     \/ identity.rotation \notin {"none", "revoked"} /\ pc' = "rotate"
 
  /\ UNCHANGED <<disk, reply, database, requests, clock, ghost, purge>>

-----------------------------------------------------------------------------
(* IdentityManager.enroll *)

\* ensure_identity commits the installation before anything is sent; a retry
\* repeats installation, key and agent_reported_at of the first attempt.
Enroll(t) ==
  /\ pc = "down" /\ ~ identity.enrolled
  /\ tokens[t] # "unissued"
  /\ Room
  /\ IF identity.exists
     THEN UNCHANGED <<identity, drawn>>
     ELSE /\ drawn.install < MaxInstalls
          /\ drawn' = [drawn EXCEPT !.install = @ + 1]
          /\ identity' = [NoIdentity EXCEPT !.exists = TRUE,
                                            !.install = drawn.install + 1]
  /\ Send("register", None, None, t, identity'.install)
  /\ Goto("register")
  /\ UNCHANGED <<secrets, database, clock, faults, admin, purge>>

RegisterReply ==
  /\ pc = "register" /\ reply # NoAnswer
  /\ IF reply.kind = "ok" THEN pc' = "keep_active" /\ UNCHANGED reply
                          ELSE pc' = "down" /\ reply' = NoAnswer
  /\ UNCHANGED <<disk, database, requests, clock, ghost, purge>>

\* _ensure_secret_value, then the next step; the store may fail before or after
\* the mutation (MutationCommitIndeterminateError), which raises.
Keep(ref, next) ==
  \/ /\ secrets' = secrets \union {ref}
     /\ pc' = next
     /\ UNCHANGED <<reply, faults>>
  \/ /\ faults < MaxFaults
     /\ faults' = faults + 1
     /\ secrets' \in {secrets, secrets \union {ref}}
     /\ Raises

KeepActive ==
  /\ pc = "keep_active"
  /\ Keep(Ref("active", reply.cred), "record_active")
  /\ UNCHANGED <<identity, database, requests, clock, drawn, admin, purge>>

RecordActive ==
  /\ pc = "record_active"
  /\ identity' = [identity EXCEPT !.enrolled = TRUE, !.rotation = "none",
                                  !.active = Ref("active", reply.cred)]
  /\ Goto("down")
  /\ UNCHANGED <<secrets, database, requests, clock, ghost, purge>>

-----------------------------------------------------------------------------
(* IdentityManager.rotate *)

\* active_credential_async: a recorded reference whose secret is there.
ActiveUsable ==
  /\ identity.enrolled /\ ~ identity.revoked
  /\ identity.active # NoRef
  /\ identity.active \in secrets

\* The two idempotency keys are committed before anything is sent.
BeginRotation ==
  /\ pc = "ready" /\ identity.enrolled
  /\ identity.rotation = "none"
  /\ drawn.key < MaxKeys
  /\ drawn' = [drawn EXCEPT !.key = @ + 1]
  /\ identity' = [identity EXCEPT !.rotation = "requested", !.key = drawn.key + 1]
  /\ Goto("rotate")
  /\ UNCHANGED <<secrets, database, requests, clock, faults, admin, purge>>

RequestRotation ==
  /\ pc = "rotate" /\ identity.rotation = "requested"
  /\ IF ActiveUsable
     THEN /\ Room
          /\ Send("create", identity.active.cred, identity.key, None, None)
          /\ Goto("create")
     ELSE Raises /\ UNCHANGED requests
  /\ UNCHANGED <<disk, database, clock, ghost, purge>>

\* An answer that is not a success raises.
RotationRaises ==
  /\ pc \in {"create", "activate"}
  /\ reply.kind \in {"rejected", "error"}
  /\ pc' = "down" /\ reply' = NoAnswer
  /\ UNCHANGED <<disk, database, requests, clock, ghost, purge>>

CreateReply ==
  /\ pc = "create" /\ reply.kind = "ok"
  /\ pc' = "keep_pending"
  /\ UNCHANGED <<disk, reply, database, requests, clock, ghost, purge>>

KeepPending ==
  /\ pc = "keep_pending"
  /\ Keep(Ref("pending", reply.cred), "record_pending")
  /\ UNCHANGED <<identity, database, requests, clock, drawn, admin, purge>>

RecordPending ==
  /\ pc = "record_pending"
  /\ identity' = [identity EXCEPT !.rotation = "pending_stored",
                                  !.pending = Ref("pending", reply.cred)]
  /\ Goto("rotate")
  /\ UNCHANGED <<secrets, database, requests, clock, ghost, purge>>

\* activation_uncertain is committed before the activation is sent.
RequestActivation ==
  /\ pc = "rotate"
  /\ identity.rotation \in {"pending_stored", "activation_uncertain"}
  /\ IF identity.pending \in secrets
     THEN /\ Room
          /\ identity' = [identity EXCEPT !.rotation = "activation_uncertain"]
          /\ Send("activate", identity.pending.cred, identity.key, None, None)
          /\ Goto("activate")
     ELSE Raises /\ UNCHANGED <<identity, requests>>
  /\ UNCHANGED <<secrets, database, clock, ghost, purge>>

ActivateReply ==
  /\ pc = "activate" /\ reply.kind = "ok"
  /\ Goto("cutover")
  /\ UNCHANGED <<disk, database, requests, clock, ghost, purge>>

\* Variant: the row keeps pointing to the previous credential.
Cutover_KeepsActive ==
  /\ pc = "cutover"
  /\ identity' = [identity EXCEPT !.previous = identity.active,
                                  !.rotation = "activated"]
  /\ Goto("drop_previous")
  /\ UNCHANGED <<secrets, database, requests, clock, ghost, purge>>

Cutover ==
  /\ pc = "cutover"
  /\ identity' = [identity EXCEPT !.previous = identity.active,
                                  !.active = identity.pending,
                                  !.rotation = "activated"]
  /\ Goto("drop_previous")
  /\ UNCHANGED <<secrets, database, requests, clock, ghost, purge>>

\* rotate() found "activated" at start: only the clean-up is left.
ResumeActivated ==
  /\ pc = "rotate" /\ identity.rotation = "activated"
  /\ Goto("drop_previous")
  /\ UNCHANGED <<disk, database, requests, clock, ghost, purge>>

\* _ensure_secret_absent; like Keep, it may fail before or after the deletion.
Drop(ref, next, failed) ==
  \/ /\ secrets' = secrets \ {ref}
     /\ Goto(next)
     /\ UNCHANGED faults
  \/ /\ ref \in secrets
     /\ faults < MaxFaults
     /\ faults' = faults + 1
     /\ secrets' \in {secrets, secrets \ {ref}}
     /\ Goto(failed)

\* _finalize_activated: the previous secret, then the transitional columns.
DropPrevious ==
  /\ pc = "drop_previous"
  /\ IF identity.previous \notin {NoRef, identity.active}
     THEN Drop(identity.previous, "clear", "down")
     ELSE pc' = "clear" /\ UNCHANGED <<secrets, reply, faults>>
  /\ UNCHANGED <<identity, database, requests, clock, drawn, admin, purge>>

ClearRotation ==
  /\ pc = "clear"
  /\ identity' = [identity EXCEPT !.previous = NoRef, !.pending = NoRef,
                                  !.key = None, !.rotation = "none"]
  /\ Goto("ready")
  /\ UNCHANGED <<secrets, database, requests, clock, ghost, purge>>

-----------------------------------------------------------------------------
(* AgentRuntime.cycle, mark_revoked_async and purge_local_identity *)

\* cycle: the heartbeat stands for every authenticated request of a cycle.
\* IdentityNotEnrolledError is no TransportError: run() ends.
Beat ==
  /\ pc = "ready"
  /\ IF ActiveUsable
     THEN /\ Room
          /\ Send("beat", identity.active.cred, None, None, None)
          /\ Goto("beat")
     ELSE Raises /\ UNCHANGED requests
  /\ UNCHANGED <<disk, database, clock, ghost, purge>>

\* Variant: every failed request counts as a rejection.
BeatReply_AnyError ==
  /\ pc = "beat" /\ reply # NoAnswer
  /\ IF reply.kind # "ok"
     THEN /\ identity' = [identity EXCEPT !.revoked = TRUE, !.rotation = "revoked"]
          /\ Goto("erase")
     ELSE Goto("ready") /\ UNCHANGED identity
  /\ UNCHANGED <<secrets, database, requests, clock, ghost, purge>>

\* Variant: the references are cleared before the secrets are deleted.
BeatReply_ForgetsFirst ==
  /\ pc = "beat" /\ reply # NoAnswer
  /\ IF reply.kind = "rejected"
     THEN /\ identity' = [identity EXCEPT !.revoked = TRUE, !.rotation = "revoked"]
          /\ Goto("forget")
     ELSE Goto("ready") /\ UNCHANGED identity
  /\ UNCHANGED <<secrets, database, requests, clock, ghost, purge>>

\* AgentAuthenticationFailed commits the revocation before any secret goes.
BeatReply ==
  /\ pc = "beat" /\ reply # NoAnswer
  /\ IF reply.kind = "rejected"
     THEN /\ identity' = [identity EXCEPT !.revoked = TRUE, !.rotation = "revoked"]
          /\ Goto("erase")
     ELSE Goto("ready") /\ UNCHANGED identity
  /\ UNCHANGED <<secrets, database, requests, clock, ghost, purge>>

\* The references in the order both clean-ups follow, those still held.
FirstHeld ==
  IF identity.active \in secrets THEN identity.active
  ELSE IF identity.pending \in secrets THEN identity.pending
  ELSE IF identity.previous \in secrets THEN identity.previous
  ELSE NoRef

Erase ==
  /\ pc = "erase"
  /\ IF FirstHeld = NoRef
     THEN Goto("forget") /\ UNCHANGED <<secrets, faults>>
     ELSE Drop(FirstHeld, "erase", "down")
  /\ UNCHANGED <<identity, database, requests, clock, drawn, admin, purge>>

Forget ==
  /\ pc = "forget"
  /\ identity' = [identity EXCEPT !.active = NoRef, !.pending = NoRef,
                                  !.previous = NoRef]
  /\ Goto("ready")
  /\ UNCHANGED <<secrets, database, requests, clock, ghost, purge>>

\* The service runs a requested purge between two cycles and goes on after it.
BeginPurge ==
  /\ pc = "ready" /\ identity.exists
  /\ purge' = "begun"
  /\ Goto("purge")
  /\ UNCHANGED <<disk, database, requests, clock, ghost>>

Purge ==
  /\ pc = "purge"
  /\ IF FirstHeld = NoRef
     THEN /\ identity' = NoIdentity /\ purge' = "done"
          /\ Goto("ready")
          /\ UNCHANGED <<secrets, faults>>
     ELSE Drop(FirstHeld, "purge", "ready") /\ UNCHANGED <<identity, purge>>
  /\ UNCHANGED <<database, requests, clock, drawn, admin>>

-----------------------------------------------------------------------------
(* The backend: one action per committed transaction *)

\* The answer reaches the agent only if it still waits for it.
Respond(r, answer) ==
  /\ requests' = requests \ {r}
  /\ reply' = IF r.awaited THEN answer ELSE reply
  /\ UNCHANGED <<disk, pc, clock, ghost, purge>>

Fails(r) == Respond(r, Answer("error", None)) /\ UNCHANGED database

LoseRequest(r) ==
  /\ ~ r.awaited
  /\ requests' = requests \ {r}
  /\ UNCHANGED <<disk, process, database, clock, ghost, purge>>

\* _authenticate: agent, credential state and expiry.  It keeps the rows it
\* read: expire_on_commit is off and FOR UPDATE does not refresh them.
Authenticated(r) ==
  /\ agent.active
  /\ credentials[r.cred] \in
       IF r.op = "activate" THEN {"pending", "active"} ELSE {"active"}
  /\ r.cred \notin lapsed

Admit(r) ==
  /\ r.op \in {"create", "activate", "beat"} /\ ~ r.admitted
  /\ \/ ~ Authenticated(r) /\ Respond(r, Answer("rejected", None))
     \/ Authenticated(r) /\ r.op = "beat" /\ Respond(r, Answer("ok", None))
     \/ /\ Authenticated(r) /\ r.op # "beat"
        /\ requests' = (requests \ {r}) \union {[r EXCEPT !.admitted = TRUE]}
        /\ UNCHANGED <<disk, process, clock, ghost, purge>>
  /\ UNCHANGED database

Issued == {c \in Creds : credentials[c] # "absent"}
NextVersion == Cardinality(Issued) + 1
PendingRotations == {c \in Creds : rotations[c].state = "pending"}

\* Variant: the credential of an expired rotation stays pending.
ExpiredCredentials_Unchanged == credentials

\* _expire_pending, on the credential and rotation tables.
ExpiredCredentials ==
  [c \in Creds |-> IF c \in PendingRotations \intersect lapsed
                      /\ credentials[c] = "pending"
                   THEN "expired" ELSE credentials[c]]
ExpiredRotations ==
  [c \in Creds |-> IF c \in PendingRotations \intersect lapsed
                   THEN [rotations[c] EXCEPT !.state = "expired"]
                   ELSE rotations[c]]

\* Variant: a known key is refused instead of answered again.
ReplayCreate_Refused(r) ==
  r.op = "create" /\ r.admitted /\ created[r.key] # None /\ Fails(r)

\* create_rotation under the same key: the stored response, while it lasts;
\* afterwards the pending expires in the transaction that reports it.
ReplayCreate(r) ==
  /\ r.op = "create" /\ r.admitted
  /\ created[r.key] # None
  /\ IF r.key \notin replayOver
     THEN /\ Respond(r, Answer("ok", created[r.key]))
          /\ UNCHANGED <<credentials, rotations>>
     ELSE /\ Respond(r, Answer("error", None))
          /\ credentials' = ExpiredCredentials
          /\ rotations' = ExpiredRotations
  /\ UNCHANGED <<agent, idempotency, tokens>>

\* Variant: a retry makes another credential.
CreateRotation_EveryTime(r) ==
  /\ r.op = "create" /\ r.admitted
  /\ NextVersion \in Creds
  /\ credentials' = [credentials EXCEPT ![NextVersion] = "pending"]
  /\ rotations' = [rotations EXCEPT ![NextVersion] =
                      [state |-> "pending", previous |-> r.cred]]
  /\ created' = [created EXCEPT ![r.key] = NextVersion]
  /\ Respond(r, Answer("ok", NextVersion))
  /\ UNCHANGED <<agent, activated, registered, tokens>>

\* A new key: the agent and credential checks see the rows of _authenticate,
\* so what was revoked since is not noticed.  A pending rotation that has not
\* expired is a ConflictError, which rolls everything back.
CreateRotation(r) ==
  /\ r.op = "create" /\ r.admitted
  /\ created[r.key] = None
  /\ IF \E c \in Creds : ExpiredRotations[c].state = "pending"
     THEN Fails(r)
     ELSE /\ credentials' = [ExpiredCredentials EXCEPT ![NextVersion] = "pending"]
          /\ rotations' = [ExpiredRotations EXCEPT ![NextVersion] =
                             [state |-> "pending", previous |-> r.cred]]
          /\ created' = [created EXCEPT ![r.key] = NextVersion]
          /\ Respond(r, Answer("ok", NextVersion))
          /\ UNCHANGED <<agent, activated, registered, tokens>>

\* activate_rotation: a known key is answered again; a new one needs the
\* rotation pending, in time, its credential unchanged (version_id) and no
\* third credential active (uq_agent_credentials_one_active).
Activate(r) ==
  /\ r.op = "activate" /\ r.admitted
  /\ LET c == r.cred
         previous == rotations[c].previous
         others == {d \in Creds \ {c, previous} : credentials[d] = "active"}
     IN CASE <<c, r.key>> \in activated ->
               Respond(r, Answer("ok", None)) /\ UNCHANGED database
          [] /\ <<c, r.key>> \notin activated
             /\ rotations[c].state = "pending" /\ c \notin lapsed
             /\ credentials[c] = "pending" /\ others = {} ->
               /\ credentials' = [credentials EXCEPT ![previous] = "revoked",
                                                     ![c] = "active"]
               /\ rotations' = [rotations EXCEPT ![c].state = "activated"]
               /\ activated' = activated \union {<<c, r.key>>}
               /\ Respond(r, Answer("ok", None))
               /\ UNCHANGED <<agent, created, registered, tokens>>
          [] OTHER -> Fails(r)

\* register: the reported time is checked before the stored response.
Register(r) ==
  /\ r.op = "register"
  /\ LET t == r.token
         recovers == t \in RecoverTokens
         known == registered[t].cred # None /\ registered[t].install = r.install
         refused == \/ tokens[t] # "issued"
                    \/ ~ recovers /\ agent.install = r.install
     IN CASE r.install \in skewed -> Fails(r)
          [] r.install \notin skewed /\ known ->
               Respond(r, Answer("ok", registered[t].cred)) /\ UNCHANGED database
          [] r.install \notin skewed /\ ~ known /\ refused -> Fails(r)
          [] OTHER ->
               /\ agent' = [exists |-> TRUE, active |-> TRUE, install |-> r.install]
               /\ credentials' = [c \in Creds |->
                     CASE c = NextVersion -> "active"
                       [] c # NextVersion /\ credentials[c] = "active" -> "revoked"
                       [] OTHER -> credentials[c]]
               /\ registered' = [registered EXCEPT ![t] =
                     [install |-> r.install, cred |-> NextVersion]]
               /\ tokens' = [tokens EXCEPT ![t] = "consumed"]
               /\ Respond(r, Answer("ok", NextVersion))
               /\ UNCHANGED <<rotations, created, activated>>

-----------------------------------------------------------------------------
(* The administrator and the clock *)

Administers ==
  UNCHANGED <<disk, process, idempotency, requests, clock, drawn, faults, purge>>

\* create_token: a recovery token is bound to an agent that exists.
IssueToken(t) ==
  /\ tokens[t] = "unissued"
  /\ t \in RecoverTokens => agent.exists
  /\ tokens' = [tokens EXCEPT ![t] = "issued"]
  /\ Administers /\ UNCHANGED <<agent, credentials, rotations, admin>>

\* revoke_token, or the token's expiry.
VoidToken(t) ==
  /\ tokens[t] = "issued"
  /\ admin < MaxAdmin /\ admin' = admin + 1
  /\ tokens' = [tokens EXCEPT ![t] = "void"]
  /\ Administers /\ UNCHANGED <<agent, credentials, rotations>>

RevokeAgent ==
  /\ agent.exists
  /\ admin < MaxAdmin /\ admin' = admin + 1
  /\ agent' = [agent EXCEPT !.active = FALSE]
  /\ credentials' = [c \in Creds |-> IF credentials[c] \in {"active", "pending"}
                                     THEN "revoked" ELSE credentials[c]]
  /\ rotations' = [c \in Creds |-> IF rotations[c].state = "pending"
                                   THEN [rotations[c] EXCEPT !.state = "revoked"]
                                   ELSE rotations[c]]
  /\ Administers /\ UNCHANGED tokens

\* revoke_credential: any credential; its rotation stays as it is.
RevokeCredential(c) ==
  /\ credentials[c] \notin {"absent", "revoked"}
  /\ admin < MaxAdmin /\ admin' = admin + 1
  /\ credentials' = [credentials EXCEPT ![c] = "revoked"]
  /\ Administers /\ UNCHANGED <<agent, rotations, tokens>>

TimePasses == Lapses /\ UNCHANGED <<disk, process, database, requests, ghost, purge>>

\* expires_at of a credential and of the rotation that waits for it.
Lapse(c) ==
  /\ TimePasses
  /\ credentials[c] \in {"pending", "active"} /\ c \notin lapsed
  /\ lapsed' = lapsed \union {c}
  /\ UNCHANGED <<replayOver, skewed>>

\* The secret replay outlives the pending credential it carries by an instant.
ReplayCloses(k) ==
  /\ TimePasses
  /\ created[k] # None /\ k \notin replayOver
  /\ credentials[created[k]] # "pending" \/ created[k] \in lapsed
  /\ replayOver' = replayOver \union {k}
  /\ UNCHANGED <<lapsed, skewed>>

\* agent_clock_skew_seconds have passed since the first enrolment attempt.
Skew(i) ==
  /\ TimePasses
  /\ i <= drawn.install /\ i \notin skewed
  /\ skewed' = skewed \union {i}
  /\ UNCHANGED <<lapsed, replayOver>>

-----------------------------------------------------------------------------
RotateStep ==
  \/ RequestRotation \/ RotationRaises \/ CreateReply
  \/ KeepPending \/ RecordPending
  \/ RequestActivation \/ ActivateReply
  \/ Cutover \/ ResumeActivated \/ DropPrevious \/ ClearRotation

OtherStep ==
  \/ RegisterReply \/ KeepActive \/ RecordActive
  \/ BeatReply \/ Erase \/ Forget \/ Purge

Backend ==
  \E r \in requests : \/ LoseRequest(r) \/ Admit(r)
                      \/ ReplayCreate(r) \/ CreateRotation(r)
                      \/ Activate(r) \/ Register(r)

Next ==
  \/ RotateStep \/ OtherStep \/ Backend
  \/ StartRun \/ BeginRotation \/ Beat \/ BeginPurge
  \/ Crash \/ TimesOut
  \/ RevokeAgent
  \/ \E t \in Tokens : Enroll(t) \/ IssueToken(t) \/ VoidToken(t)
  \/ \E c \in Creds : RevokeCredential(c) \/ Lapse(c)
  \/ \E k \in Keys : ReplayCloses(k)
  \/ \E i \in Installs : Skew(i)

Spec == Init /\ [][Next]_vars

\* The event loop runs the coroutine it started, the backend works off what
\* reaches it, and the service manager restarts a failed agent
\* (Restart=on-failure).  Nothing is assumed of operators, clocks and faults.
FairSpec == Spec /\ WF_vars(RotateStep) /\ WF_vars(OtherStep)
                 /\ WF_vars(Backend) /\ WF_vars(StartRun)

-----------------------------------------------------------------------------
(* Properties *)

Active == {c \in Creds : credentials[c] = "active"}
OneToken ==
  Cardinality({t \in Tokens : registered[t].install = identity.install}) = 1
Local == identity.enrolled /\ ~ identity.revoked /\ purge # "begun"

\* At most one credential of the agent authenticates requests, whatever order
\* activations, recoveries and revocations commit in; and a pending credential
\* always belongs to a pending rotation, so uq_agent_credentials_one_pending
\* never stops create_rotation (agent_credentials.py, enrollment.py).
OneActiveOnePending ==
  /\ Cardinality(Active) <= 1
  /\ \A c \in Creds : credentials[c] = "pending" => rotations[c].state = "pending"
  /\ Cardinality(PendingRotations) <= 1

\* An enrolled agent whose identity is neither revoked nor being purged has the
\* secret its row points to, at every crash point of enroll, rotate and
\* _finalize_activated (identity.py).
ActiveSecretHeld == Local => identity.active \in secrets

\* The credential the backend accepts is never one the agent has lost: while
\* its installation is the registered one, the agent holds the secret of the
\* active credential under the active or the pending reference of its row.
\* (An installation registered with two tokens is left out: a retry with the
\* older token replays a credential that the newer one has revoked.)
NeverLockedOut ==
  Local /\ agent.install = identity.install /\ OneToken =>
    \A c \in Active : \E ref \in {identity.active, identity.pending} :
                        ref.cred = c /\ ref \in secrets

\* Over all crash points of a rotation the agent keeps what it needs to be
\* accepted: the secret its row names and that of the backend's credential.
CredentialKept == TypeOK /\ ActiveSecretHeld /\ NeverLockedOut

\* Once a revocation has been recorded and its references cleared, no secret
\* is left behind, unless an earlier identity was purged or the installation
\* was registered with two tokens (identity.py:315).
RevocationErases ==
  identity.revoked /\ ~ HasRefs /\ purge = "never" /\ OneToken => secrets = {}

\* The agent gives its identity up only for good reason: the credential it used
\* was not acceptable to the backend when it was refused (runtime.py:74).
RevokedForCause ==
  [][identity'.revoked /\ ~ identity.revoked =>
       \/ ~ agent.active
       \/ credentials[identity.active.cred] # "active"
       \/ identity.active.cred \in lapsed]_vars

\* A revoked agent has no active credential until a recovery, even when an
\* activation was authenticated before the revocation and commits after it.
RevokedHasNoActive == agent.exists /\ ~ agent.active => Active = {}

\* A revocation is complete on both sides: no secret stays on the agent, no
\* credential stays active at the backend.
RevokedKeepsNothing == RevocationErases /\ RevokedHasNoActive

\* Retries never multiply credentials: what the backend issued is what its
\* idempotency records name, one each (agent_credentials.py:55, enrollment.py:154).
OneCredentialPerRequest ==
  /\ Issued = ({created[k] : k \in Keys} \union {registered[t].cred : t \in Tokens})
                \ {None}
  /\ \A k1, k2 \in Keys : created[k1] = created[k2] /\ created[k1] # None => k1 = k2

\* A rotation that was begun ends, in a new credential or in a revoked
\* identity, whatever crashes, timeouts and lost answers interrupt it; only a
\* purge that failed half way takes away the secrets it needs.
RotationEnds ==
  identity.rotation \notin {"none", "revoked"}
    ~> identity.rotation \in {"none", "revoked"} \/ purge # "never"
=============================================================================
