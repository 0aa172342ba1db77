----------------------------- MODULE AuthSessions -----------------------------
(***************************************************************************)
(* The backend's human sessions and administration: AuthService (login,     *)
(* refresh, logout, logout_all, change_password), UserAdministrationService *)
(* (create, disable, roles, revoke_sessions) and bootstrap_administrator,   *)
(* as concurrent PostgreSQL transactions under READ COMMITTED.              *)
(*                                                                         *)
(* A request first authenticates (an unlocked read of the user and session  *)
(* rows), then takes row locks one at a time in the order of its statements *)
(* and commits.  Its writes are invisible and its rows locked until then,   *)
(* so they are applied in the commit step.  The session re-reads rows FOR   *)
(* UPDATE without refreshing those it has loaded already: what a request    *)
(* saw at authentication is what it computes with, and the version_id in    *)
(* the WHERE of its UPDATE finds out (StaleDataError).  The bulk UPDATEs of *)
(* sessions and refresh tokens neither look at version_id nor raise it.     *)
(* When requests wait for each other PostgreSQL aborts one of them.         *)
(*                                                                         *)
(* Only the administrator role carries the permissions of these operations  *)
(* (services/seeds.py), so a user's roles are one Boolean.  A password is a *)
(* number; an access token stands for its session, whose auth_version it    *)
(* carries.                                                                 *)
(***************************************************************************)
EXTENDS Integers, Sequences, FiniteSets

CONSTANTS
  Users,           \* usernames
  Root,            \* the bootstrap administrator's username
  MaxRequests,     \* bound: requests ever made
  MaxAdmin,        \* bound: the first requests, which may be administration
  MaxSessions,     \* bound: sessions ever opened
  MaxTokens,       \* bound: refresh tokens ever issued
  Aging            \* bound: the sessions whose expiry times may pass

\* The bounds leave room for one session of every user.
ASSUME AuthAssumption ==
  /\ IsFiniteSet(Users) /\ Root \in Users
  /\ MaxRequests \in Nat /\ MaxAdmin \in Nat /\ MaxSessions \in Nat /\ MaxTokens \in Nat
  /\ Cardinality(Users) <= MaxSessions /\ Cardinality(Users) <= MaxTokens
  /\ Aging \subseteq Nat

Requests == 1 .. MaxRequests
Sessions == 1 .. MaxSessions
Tokens == 1 .. MaxTokens

VARIABLES
  users,      \* the users rows, with the administrator row of user_roles
  sessions,   \* the sessions rows, in the order they were opened
  tokens,     \* the refresh_tokens rows, in the order they were issued
  requests,   \* the requests made, and what each holds in its session
  locks       \* <<row, request, mode>>: the row locks held

authVars == <<users, sessions, tokens, requests, locks>>

AbsentUser == [exists |-> FALSE, active |-> FALSE, admin |-> FALSE,
           auth |-> 0, row |-> 0, password |-> 0]
User == [exists : BOOLEAN, active : BOOLEAN, admin : BOOLEAN,
         auth : Nat, row : Nat, password : 0 .. MaxRequests]
NewUser(admin) == [exists |-> TRUE, active |-> TRUE, admin |-> admin,
                   auth |-> 1, row |-> 1, password |-> 0]
\* Reasons that only revoke the sessions rows, and those of _revoke_family.
BulkReasons == {"logout_all", "password_change", "user_disabled",
                "administrator_revocation"}
FamilyReasons == {"logout", "refresh_reuse", "session_invalid"}
Session == [user : Users, auth : Nat, row : Nat,
            time : {"fresh", "idle", "over"},
            reason : BulkReasons \union FamilyReasons \union {"live"}]
Token == [session : Sessions, consumed : BOOLEAN, revoked : BOOLEAN]


Ops == {"login", "refresh", "logout", "logout_all", "change_password",
        "create_user", "disable_user", "assign_role", "remove_role",
        "revoke_sessions", "bootstrap"}

(***************************************************************************)
(* Row locks: FOR UPDATE ("exclusive"), UPDATE ("update"), and the KEY SHARE *)
(* ("share") a foreign key takes on the row it refers to.                   *)
(***************************************************************************)
Modes == {"share", "update", "exclusive"}
AdminLock == <<"admin_lock", 0>>
UserRow(u) == <<"user", u>>
SessionRow(s) == <<"session", s>>
TokenRow(t) == <<"token", t>>
Rows == {AdminLock} \union {UserRow(u) : u \in Users}
          \union {SessionRow(s) : s \in Sessions}
          \union {TokenRow(t) : t \in Tokens}
Lock(row, mode) == [row |-> row, mode |-> mode]
Conflict(m, n) == {m, n} \notin {{"share"}, {"share", "update"}}

\* The locks of the statement r executes: the first of those ahead of it.
Wanted(r) == IF requests[r].want = <<>> THEN {} ELSE Head(requests[r].want)

\* The locks of others that w has to wait for.
Against(r, w) == {l \in locks : l[2] # r /\ l[1] = w.row /\ Conflict(l[3], w.mode)}
Free(r, w) == Against(r, w) = {}

\* The requests that r waits for.
Blockers(r) == {l[2] : l \in UNION {Against(r, w) : w \in Wanted(r)}}

\* r waits, directly or through others, for itself.
Deadlocked(r) ==
  /\ Blockers(r) # {}
  /\ \A X \in SUBSET Requests :
       (Blockers(r) \subseteq X /\ \A q \in X : Blockers(q) \subseteq X) => r \in X

Idle == [op |-> "none", pc |-> "done", want |-> <<>>]
Unused(r) == requests[r].pc = "unused" /\ \A q \in 1 .. r - 1 : requests[q].pc # "unused"

Taken(r, want) == {<<w.row, r, w.mode>> : w \in want}

\* A statement that is not the request's last locks its rows, or those it can.
Acquire(r) ==
  LET free == {w \in Wanted(r) : Free(r, w)}
      others == Tail(requests[r].want) IN
  /\ free # {}
  /\ IF free = Wanted(r)
       THEN /\ others # <<>>
            /\ locks' = locks \union Taken(r, free)
            /\ requests' = [requests EXCEPT ![r].want = others]
       ELSE \E w \in free :
            /\ locks' = locks \union Taken(r, {w})
            /\ requests' = [requests EXCEPT ![r].want = <<Wanted(r) \ {w}>> \o others]
  /\ UNCHANGED <<users, sessions, tokens>>

\* The request executes the last statement before its code at pc.
Reached(r, pc) ==
  /\ requests[r].pc = pc /\ Len(requests[r].want) <= 1
  /\ \A w \in Wanted(r) : Free(r, w)
LocksWith(r) == locks \union Taken(r, Wanted(r))

\* Two statements that lock rows; one that locks none does not count.
Statements(first, second) ==
  (IF first = {} THEN <<>> ELSE <<first>>) \o (IF second = {} THEN <<>> ELSE <<second>>)

\* What the request does next, after the statements that lock rows.
Continue(r, request, first, second) ==
  /\ requests' = [requests EXCEPT ![r] = [request EXCEPT !.want = Statements(first, second)]]
  /\ locks' = LocksWith(r)

\* Mutant: an advisory lock of the session (pg_advisory_lock), not the transaction.
End_KeepsAdvisoryLock(r) ==
  /\ requests' = [requests EXCEPT ![r] = Idle]
  /\ locks' = {l \in LocksWith(r) : l[2] # r \/ l[1] = AdminLock}

\* The transaction is over, committed or rolled back: its locks are free.
End(r) ==
  /\ requests' = [requests EXCEPT ![r] = Idle]
  /\ locks' = {l \in locks : l[2] # r}

\* PostgreSQL aborts a transaction that waits for itself.
DeadlockVictim(r) ==
  /\ Deadlocked(r)
  /\ End(r)
  /\ UNCHANGED <<users, sessions, tokens>>

(***************************************************************************)
(* What the code computes from rows.                                        *)
(***************************************************************************)
ActiveAdministrators == {u \in Users : users[u].active /\ users[u].admin}
LiveSessions(u) ==
  {s \in 1 .. Len(sessions) : sessions[s].user = u /\ sessions[s].reason = "live"}
LiveTokens(s) ==
  {t \in 1 .. Len(tokens) : tokens[t].session = s /\ ~tokens[t].revoked}
ValidFamily(family, user) ==
  /\ family.reason = "live" /\ family.time = "fresh"
  /\ user.active /\ family.auth = user.auth

Touched(user) == [user EXCEPT !.row = @ + 1]

(***************************************************************************)
(* Sessions.                                                                *)
(***************************************************************************)
\* Room for what the refreshes under way may still insert.
RoomForToken ==
  Len(tokens) + Cardinality({r \in Requests : requests[r].op = "refresh"}) < MaxTokens

\* Mutant: the user row is not locked.
Login_NoLock(r, u) ==
  /\ Unused(r) /\ users[u].active
  /\ Len(sessions) < MaxSessions /\ RoomForToken
  /\ sessions' = Append(sessions, [user |-> u, auth |-> users[u].auth, row |-> 1,
                                   time |-> "fresh", reason |-> "live"])
  /\ tokens' = Append(tokens, [session |-> Len(sessions) + 1,
                               consumed |-> FALSE, revoked |-> FALSE])
  /\ End(r)
  /\ UNCHANGED users

\* login: the user row is locked before it is read, and everything else it
\* writes is new: one step, once the row is free.
Login(r, u) ==
  /\ Unused(r) /\ Free(r, Lock(UserRow(u), "exclusive"))
  /\ Len(sessions) < MaxSessions /\ RoomForToken
  /\ users[u].active
  /\ sessions' = Append(sessions, [user |-> u, auth |-> users[u].auth, row |-> 1,
                                   time |-> "fresh", reason |-> "live"])
  /\ tokens' = Append(tokens, [session |-> Len(sessions) + 1,
                               consumed |-> FALSE, revoked |-> FALSE])
  /\ users' = [users EXCEPT ![u] = Touched(@)]
  /\ End(r)

\* refresh: the token row is locked; its session and user are read without a
\* lock.  If all is well the replacement is inserted (it refers to the session)
\* and the session and the audit row are flushed at the commit.
Refresh(r, t) ==
  LET s == tokens[t].session
      u == sessions[s].user
      accepted == ValidFamily(sessions[s], users[u]) /\ ~tokens[t].revoked
      update == Lock(SessionRow(s), "update") IN
  /\ Unused(r) /\ t \in 1 .. Len(tokens) /\ RoomForToken
  /\ Free(r, Lock(TokenRow(t), "exclusive"))
  /\ requests' = [requests EXCEPT ![r] =
       [op |-> IF tokens[t].consumed \/ ~accepted THEN "revoke" ELSE "refresh",
        pc |-> IF tokens[t].consumed \/ ~accepted THEN "family" ELSE "refreshed",
        session |-> s, user |-> u, token |-> t, saw |-> sessions[s],
        reason |-> IF tokens[t].consumed THEN "refresh_reuse" ELSE "session_invalid",
        want |-> IF ~tokens[t].consumed /\ accepted
                   THEN <<{Lock(SessionRow(s), "share")}, {update, Lock(UserRow(u), "share")}>>
                   ELSE IF sessions[s].reason = "live" THEN <<{update}>> ELSE <<>>]]
  /\ locks' = locks \union Taken(r, {Lock(TokenRow(t), "exclusive")})
  /\ UNCHANGED <<users, sessions, tokens>>

\* Mutant: the rows have no version column.
Fresh_Always(seen, row) == TRUE

\* UPDATE ... WHERE version_id: the row is the one the request read.
Fresh(seen, row) == seen.row = row.row

\* The session moves its inactivity limit.
Prolonged(session) ==
  [session EXCEPT !.row = @ + 1, !.time = IF @ = "idle" THEN "fresh" ELSE @]

\* The parent is consumed, its replacement appears, the inactivity limit moves;
\* or the session row was written since it was read and all is rolled back.
RefreshCommits(r) ==
  LET q == requests[r] IN
  /\ Reached(r, "refreshed")
  /\ IF Fresh(q.saw, sessions[q.session])
       THEN /\ tokens' = Append([tokens EXCEPT ![q.token].consumed = TRUE],
                                [session |-> q.session, consumed |-> FALSE,
                                 revoked |-> FALSE])
            /\ sessions' = [sessions EXCEPT ![q.session] = Prolonged(@)]
       ELSE UNCHANGED <<tokens, sessions>>
  /\ End(r)
  /\ UNCHANGED users

\* logout: the session row was loaded by the authentication, then locked.
Logout(r, s) ==
  /\ Unused(r) /\ s \in 1 .. Len(sessions)
  /\ ValidFamily(sessions[s], users[sessions[s].user])
  /\ requests' = [requests EXCEPT ![r] =
       [op |-> "revoke", pc |-> "family", session |-> s,
        user |-> sessions[s].user, token |-> 0, saw |-> sessions[s], reason |-> "logout",
        want |-> <<{Lock(SessionRow(s), "exclusive")}>>]]
  /\ UNCHANGED <<users, sessions, tokens, locks>>

\* Mutant: only the tokens no other request has locked (SKIP LOCKED).
FamilyFlushed_SkipsLocked(r) ==
  LET q == requests[r] IN
  /\ Reached(r, "family")
  /\ IF q.saw.reason # "live" \/ Fresh(q.saw, sessions[q.session])
       THEN Continue(r, [q EXCEPT !.pc = "revoked"],
              {w \in {Lock(TokenRow(t), "update") : t \in LiveTokens(q.session)} :
                 Free(r, w)},
              IF q.reason = "session_invalid" THEN {} ELSE {Lock(UserRow(q.user), "share")})
       ELSE End(r)
  /\ UNCHANGED <<users, sessions, tokens>>

\* _revoke_family: the session row is flushed if it changed, then the family's tokens are updated in bulk
\* and the audit row, if any, refers to the user.
FamilyFlushed(r) ==
  LET q == requests[r] IN
  /\ Reached(r, "family")
  /\ IF q.saw.reason # "live" \/ Fresh(q.saw, sessions[q.session])
       THEN Continue(r, [q EXCEPT !.pc = "revoked"],
              {Lock(TokenRow(t), "update") : t \in LiveTokens(q.session)},
              IF q.reason = "session_invalid" THEN {} ELSE {Lock(UserRow(q.user), "share")})
       ELSE End(r)
  /\ UNCHANGED <<users, sessions, tokens>>

LockedTokens(r) == {t \in 1 .. Len(tokens) : \E m \in Modes : <<TokenRow(t), r, m>> \in LocksWith(r)}

Revoked(session, reason) == [session EXCEPT !.row = @ + 1, !.reason = reason]

FamilyCommits(r) ==
  LET q == requests[r] IN
  /\ Reached(r, "revoked")
  /\ sessions' = IF q.saw.reason = "live"
                   THEN [sessions EXCEPT ![q.session] = Revoked(@, q.reason)]
                   ELSE sessions
  /\ tokens' = [t \in 1 .. Len(tokens) |->
                  IF t \in LockedTokens(r) THEN [tokens[t] EXCEPT !.revoked = TRUE]
                    ELSE tokens[t]]
  /\ End(r)
  /\ UNCHANGED users

\* A live session passes one of its expiry times.
TimePasses(s) ==
  /\ s \in Aging /\ s \in 1 .. Len(sessions) /\ sessions[s].reason = "live"
  /\ \E time \in {"idle", "over"} :
       /\ sessions[s].time # "over" /\ sessions[s].time # time
       /\ sessions' = [sessions EXCEPT ![s].time = time]
  /\ UNCHANGED <<users, tokens, requests, locks>>

(***************************************************************************)
(* Operations on a user.  They begin with the principal of an access token: *)
(* the user as the authentication loaded it.                                *)
(***************************************************************************)
Authenticated(r, u) ==
  /\ Unused(r)
  /\ \E s \in LiveSessions(u) : ValidFamily(sessions[s], users[u])

\* require_permissions: the roles are those loaded with the principal.
Permitted(r, u) == r <= MaxAdmin /\ Authenticated(r, u) /\ users[u].admin

Begin(r, op, u, target, statements) ==
  /\ requests' = [requests EXCEPT ![r] =
       [op |-> op, pc |-> "user", user |-> u, target |-> target,
        saw |-> users[u], want |-> statements]]
  /\ UNCHANGED <<users, sessions, tokens, locks>>

ForUpdate(u) == {Lock(UserRow(u), "exclusive")}
AdvisoryLock == {Lock(AdminLock, "exclusive")}

\* logout_all and change_password act on the principal itself.
LogoutAll(r, u) == Authenticated(r, u) /\ Begin(r, "logout_all", u, u, <<ForUpdate(u)>>)

ChangePassword(r, u) ==
  Authenticated(r, u) /\ Begin(r, "change_password", u, u, <<ForUpdate(u)>>)

RevokeSessions(r, u, target) ==
  Permitted(r, u) /\ Begin(r, "revoke_sessions", u, target, <<ForUpdate(target)>>)

\* Mutant: without the advisory lock.
DisableUser_NoAdvisoryLock(r, u, target) ==
  Permitted(r, u) /\ Begin(r, "disable_user", u, target, <<ForUpdate(target)>>)

\* disable_user and remove_role first take the advisory transaction lock.
DisableUser(r, u, target) ==
  /\ Permitted(r, u)
  /\ Begin(r, "disable_user", u, target, <<AdvisoryLock, ForUpdate(target)>>)

RemoveRole(r, u, target) ==
  /\ Permitted(r, u)
  /\ Begin(r, "remove_role", u, target, <<AdvisoryLock, ForUpdate(target)>>)

AssignRole(r, u, target) ==
  Permitted(r, u) /\ Begin(r, "assign_role", u, target, <<ForUpdate(target)>>)

\* The insert holds the username's index entry.
CreateUser(r, u, target) ==
  /\ Permitted(r, u) /\ ~users[target].exists
  /\ Begin(r, "create_user", u, target, <<ForUpdate(target)>>)

Bootstrap(r, u) ==
  r <= MaxAdmin /\ Unused(r) /\ Begin(r, "bootstrap", u, u, <<AdvisoryLock, ForUpdate(u)>>)

\* The row as the request's session has it: loaded by the authentication if
\* the principal acts on itself, read under the lock otherwise.
Loaded(r) ==
  IF requests[r].user = requests[r].target /\ requests[r].op # "bootstrap"
    THEN requests[r].saw ELSE users[requests[r].target]

\* The operations that raise auth_version and revoke every session.
Expulsions == {"disable_user", "revoke_sessions", "logout_all", "change_password"}

LastAdministrator == Cardinality(ActiveAdministrators) <= 1

\* Why the operation ends here without a change.
Refused(r) ==
  LET op == requests[r].op
      user == Loaded(r) IN
  \/ op \notin {"bootstrap", "create_user"} /\ ~user.exists
  \/ op = "create_user" /\ user.exists
  \/ op = "disable_user" /\ user.admin /\ LastAdministrator
  \/ op = "remove_role" /\ user.active /\ LastAdministrator
  \/ op \in Expulsions /\ ~Fresh(user, users[requests[r].target])
  \/ op = "bootstrap" /\ (user.exists \/ ActiveAdministrators # {})

UserRefused(r) ==
  /\ Reached(r, "user") /\ (Refused(r) \/ requests[r].op = "change_password")
  /\ End(r)
  /\ UNCHANGED <<users, sessions, tokens>>

\* The user is flushed; then its live sessions are updated in bulk, or a role
\* changes hands, and the audit row refers to the actor.
UserLocked(r) ==
  LET q == requests[r] IN
  /\ Reached(r, "user") /\ ~Refused(r)
  /\ Continue(r, [q EXCEPT !.pc = "commit"],
       IF q.op \in Expulsions
         THEN {Lock(SessionRow(s), "update") : s \in LiveSessions(q.target)} ELSE {},
       {Lock(UserRow(q.user), "share")})
  /\ UNCHANGED <<users, sessions, tokens>>

LockedSessions(r) ==
  {s \in 1 .. Len(sessions) : <<SessionRow(s), r, "update">> \in LocksWith(r)}

Reason(op) ==
  CASE op = "logout_all" -> "logout_all"
    [] op = "change_password" -> "password_change"
    [] op = "disable_user" -> "user_disabled"
    [] op = "revoke_sessions" -> "administrator_revocation"

\* The user row the operation writes.
Written(r) ==
  LET q == requests[r]
      user == users[q.target]
      expelled == [Touched(user) EXCEPT !.auth = @ + 1] IN
  CASE q.op \in {"logout_all", "revoke_sessions"} -> expelled
    [] q.op = "change_password" -> [expelled EXCEPT !.password = r]
    [] q.op = "disable_user" -> [expelled EXCEPT !.active = FALSE]
    [] q.op = "assign_role" -> [user EXCEPT !.admin = TRUE]
    [] q.op = "remove_role" -> [user EXCEPT !.admin = FALSE]
    [] q.op = "create_user" -> NewUser(FALSE)
    [] q.op = "bootstrap" -> NewUser(TRUE)

Commit(r) ==
  LET q == requests[r] IN
  /\ Reached(r, "commit")
  /\ users' = [users EXCEPT ![q.target] = Written(r)]
  /\ sessions' = [s \in 1 .. Len(sessions) |->
                    IF s \in LockedSessions(r) /\ sessions[s].reason = "live"
                      THEN [sessions[s] EXCEPT !.reason = Reason(q.op)]
                      ELSE sessions[s]]
  /\ End(r)
  /\ UNCHANGED tokens
-----------------------------------------------------------------------------
Order(S) == CHOOSE q \in [1 .. Cardinality(S) -> S] : \A i, j \in DOMAIN q : i < j => q[i] # q[j]

\* Before the bootstrap, or with an administrator and others logged in once.
AuthInit ==
  /\ \/ users = [u \in Users |-> AbsentUser]
     \/ users \in [Users -> {NewUser(FALSE), NewUser(TRUE), AbsentUser}]
          /\ users[Root] = NewUser(TRUE)
  /\ LET order == Order({u \in Users : users[u].exists}) IN
       /\ sessions = [i \in DOMAIN order |->
            [user |-> order[i], auth |-> 1, row |-> 1, time |-> "fresh", reason |-> "live"]]
       /\ tokens = [i \in DOMAIN order |->
            [session |-> i, consumed |-> FALSE, revoked |-> FALSE]]
  /\ requests = [r \in Requests |-> [Idle EXCEPT !.pc = "unused"]]
  /\ locks = {}

Step(r) ==
  \/ Acquire(r) \/ DeadlockVictim(r)
  \/ RefreshCommits(r) \/ FamilyFlushed(r) \/ FamilyCommits(r)
  \/ UserRefused(r) \/ UserLocked(r) \/ Commit(r)

Arrive(r) ==
  \/ \E t \in Tokens : Refresh(r, t)
  \/ \E s \in Sessions : Logout(r, s)
  \/ \E u \in Users :
       \/ Login(r, u) \/ Bootstrap(r, u) \/ LogoutAll(r, u) \/ ChangePassword(r, u)
       \/ \E target \in Users :
            \/ RevokeSessions(r, u, target) \/ DisableUser(r, u, target)
            \/ CreateUser(r, u, target)
            \/ AssignRole(r, u, target) \/ RemoveRole(r, u, target)

AuthNext ==
  \/ \E r \in Requests : Step(r) \/ Arrive(r)
  \/ \E s \in Sessions : TimePasses(s)

AuthSpec == AuthInit /\ [][AuthNext]_authVars

-----------------------------------------------------------------------------
\* The rows, requests and locks have their types.
AuthTypeOK ==
  /\ users \in [Users -> User]
  /\ \A s \in DOMAIN sessions : s \in Sessions /\ sessions[s] \in Session
  /\ \A t \in DOMAIN tokens : t \in Tokens /\ tokens[t] \in Token
  /\ \A r \in Requests : requests[r].op \in Ops \union {"none", "revoke"}
  /\ locks \subseteq Rows \X Requests \X Modes

\* Whatever runs beside it, a global logout, a password change, a revocation or
\* a disabling leaves no session behind: a session that is not revoked belongs
\* to an active user and carries the user's auth_version.
LiveSessionIsCurrent ==
  \A s \in DOMAIN sessions :
    sessions[s].reason = "live" =>
      users[sessions[s].user].active /\ sessions[s].auth = users[sessions[s].user].auth

\* A family never forks: of its refresh tokens at most one is neither consumed
\* nor revoked, whatever refreshes, reuses and logouts meet.
OneLiveToken ==
  \A s \in DOMAIN sessions :
    Cardinality({t \in LiveTokens(s) : ~tokens[t].consumed}) <= 1

\* A logout or a detected reuse revokes the tokens too, the one that a refresh
\* under way was about to insert included.
RevokedFamilyHasNoToken ==
  \A s \in DOMAIN sessions :
    sessions[s].reason \in FamilyReasons => LiveTokens(s) = {}

\* The tokens of a family are one chain with at most one live end, and none once
\* the family is revoked (services/auth.py: refresh, logout, reuse).
FamilyNeverForks == AuthTypeOK /\ OneLiveToken /\ RevokedFamilyHasNoToken

\* Once bootstrapped, there is always an active administrator.
AdministratorRemains ==
  (\E u \in Users : users[u].exists) => ActiveAdministrators # {}

\* A password is replaced only by a request that verified the one it replaces.
NoLostPassword ==
  [][\A u \in Users : users[u].exists /\ users'[u].password # users[u].password =>
       \E r \in Requests : /\ requests[r].op = "change_password"
                           /\ requests[r].target = u
                           /\ requests[r].saw.password = users[u].password]_authVars

\* Nobody waits for ever: while a request is under way one of them goes on, for
\* a lock it wants is free or because it is the victim of a deadlock.
NoStandstill ==
  (\E r \in Requests : requests[r].op # "none") =>
    \E r \in Requests :
      /\ requests[r].op # "none"
      /\ requests[r].want = <<>> \/ Deadlocked(r) \/ \E w \in Wanted(r) : Free(r, w)
=============================================================================
