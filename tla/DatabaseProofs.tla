-------------------------- MODULE DatabaseProofs --------------------------
(***************************************************************************)
(* Proofs about the two components that are transactions of a database.    *)
(*                                                                         *)
(* AuthSessions, for every set of users and every number of requests,      *)
(* sessions and tokens: its theorems rest on the row locks, for what a     *)
(* request read under a lock it holds, or has compared by version_id,      *)
(* still holds when it commits.                                            *)
(*                                                                         *)
(* SqliteMigration, for every number of row writes, commands and faults:   *)
(* the committed rows survive every start, backup, restore, kill and power *)
(* loss, and are migrated only when they are backed up.                    *)
(***************************************************************************)
EXTENDS AuthSessions, SqliteMigration, SequenceTheorems, FiniteSetTheorems, TLAPS

(***************************************************************************)
(* Part 1: AuthSessions                                                    *)
(***************************************************************************)

-----------------------------------------------------------------------------
(* The inductive invariant *)

LockRecord == [row : Rows, mode : Modes]
IdleRequest == [op : {"none"}, pc : {"unused", "done"}, want : {<<>>}]
FamilyRequest ==
  [op : {"refresh", "revoke"}, pc : {"refreshed", "family", "revoked"}, session : Sessions,
   user : Users, token : Nat, saw : Session, reason : FamilyReasons, want : Seq(SUBSET LockRecord)]
UserRequest ==
  [op : Ops \ {"login", "refresh", "logout"}, pc : {"user", "commit"}, user : Users,
   target : Users, saw : User, want : Seq(SUBSET LockRecord)]

Types ==
  /\ users \in [Users -> User]
  /\ sessions \in Seq(Session) /\ Len(sessions) <= MaxSessions
  /\ tokens \in Seq(Token)
  /\ requests \in [Requests -> IdleRequest \union FamilyRequest \union UserRequest]
  /\ locks \subseteq Rows \X Requests \X Modes

\* Request q holds the lock; one of the statements ahead of it takes the lock.
Held(q, row, mode) == <<row, q, mode>> \in locks
Ahead(q, row, mode) ==
  \E i \in DOMAIN requests[q].want : Lock(row, mode) \in requests[q].want[i]
Secured(q, row, mode) == Held(q, row, mode) \/ Ahead(q, row, mode)

\* No two requests hold locks that exclude each other.
LocksOK ==
  \A row \in Rows, q1, q2 \in Requests, m1, m2 \in Modes :
    Held(q1, row, m1) /\ Held(q2, row, m2) /\ q1 # q2 => ~ Conflict(m1, m2)

\* A request that has not begun, or has ended, holds nothing.
IdleOK(q) ==
  requests[q].pc \in {"unused", "done"} => \A l \in locks : l[2] # q

\* A refresh under way has the token it saw, unspent, and finds out if the family
\* was revoked.
RefreshOK(q) ==
  LET x == requests[q] IN
  x.pc = "refreshed" =>
    /\ x.op = "refresh"
    /\ x.session \in DOMAIN sessions /\ x.token \in DOMAIN tokens /\ tokens[x.token].session = x.session
    /\ Held(q, TokenRow(x.token), "exclusive") /\ Secured(q, SessionRow(x.session), "update")
    /\ ~ tokens[x.token].consumed /\ ~ tokens[x.token].revoked
    /\ x.saw.row <= sessions[x.session].row
    /\ x.saw.row = sessions[x.session].row => sessions[x.session].reason \notin FamilyReasons

\* A request that revokes a family keeps refreshes of it away and gets all its tokens.
FamilyOK(q) ==
  LET x == requests[q] IN
  x.pc \in {"family", "revoked"} =>
    /\ x.op = "revoke" /\ x.session \in DOMAIN sessions
    /\ x.pc = "family" /\ x.saw.reason = "live" =>
         Secured(q, SessionRow(x.session), "update") \/ Secured(q, SessionRow(x.session), "exclusive")
    /\ x.pc = "revoked" /\ x.saw.reason = "live" =>
         /\ Held(q, SessionRow(x.session), "update") \/ Held(q, SessionRow(x.session), "exclusive")
         /\ \A t \in LiveTokens(x.session) : Secured(q, TokenRow(t), "update")

Guarded == {"disable_user", "remove_role", "bootstrap"}
Own == {"logout_all", "change_password"}

\* What an operation on a user knows of its principal and will have locked.
UserOK(q) ==
  LET x == requests[q] IN
  x.pc \in {"user", "commit"} =>
    /\ x.pc = "user" => /\ Secured(q, UserRow(x.target), "exclusive")
                        /\ x.op \in Guarded => Secured(q, AdminLock, "exclusive")
                        /\ \A s \in Sessions : ~ Secured(q, SessionRow(s), "update")
    /\ x.op \in Own => x.user = x.target
    /\ x.op # "bootstrap" => x.saw.exists /\ x.saw.active
    /\ x.op \notin Own \union {"bootstrap"} => x.saw.admin
    /\ x.saw.exists => users[x.user].exists
    /\ x.saw.row <= users[x.user].row
    /\ x.saw.row = users[x.user].row => x.saw.password = users[x.user].password

\* What an operation that passed its checks relies on until it commits.
CommitOK(q) ==
  LET x == requests[q] IN
  x.pc = "commit" =>
    /\ Held(q, UserRow(x.target), "exclusive")
    /\ x.op \in Guarded => Held(q, AdminLock, "exclusive")
    /\ users[x.target].exists <=> x.op \notin {"bootstrap", "create_user"}
    /\ x.op = "disable_user" /\ users[x.target].admin => \E u \in ActiveAdministrators : u # x.target
    /\ x.op = "remove_role" /\ users[x.target].active => \E u \in ActiveAdministrators : u # x.target
    /\ x.op = "change_password" => x.saw.password = users[x.target].password
    /\ x.op \in Expulsions => \A s \in LiveSessions(x.target) : Secured(q, SessionRow(s), "update")
    /\ x.op \notin Expulsions => \A s \in Sessions : ~ Secured(q, SessionRow(s), "update")

RequestOK(q) == IdleOK(q) /\ RefreshOK(q) /\ FamilyOK(q) /\ UserOK(q) /\ CommitOK(q)

\* The rows agree with each other.
ExistsOK ==
  \A u \in Users : /\ users[u].active \/ users[u].admin => users[u].exists
                   /\ users[u].exists \/ users[u].row = 0
ReferenceOK == \A t \in DOMAIN tokens : tokens[t].session \in DOMAIN sessions
ChainOK ==
  \A t1, t2 \in DOMAIN tokens :
    /\ ~ tokens[t1].consumed /\ ~ tokens[t1].revoked /\ ~ tokens[t2].consumed /\ ~ tokens[t2].revoked
    /\ tokens[t1].session = tokens[t2].session
    => t1 = t2
RevokedOK ==
  \A t \in DOMAIN tokens : sessions[tokens[t].session].reason \in FamilyReasons => tokens[t].revoked

RowsOK ==
  /\ ExistsOK /\ ReferenceOK /\ ChainOK /\ RevokedOK
  /\ LiveSessionIsCurrent /\ AdministratorRemains

Refreshing == {q \in Requests : requests[q].op = "refresh"}
RoomOK == Len(tokens) + Cardinality(Refreshing) <= MaxTokens

AuthInv == Types /\ LocksOK /\ (\A q \in Requests : RequestOK(q)) /\ RowsOK /\ RoomOK

-----------------------------------------------------------------------------
(* Rows, modes and statements *)

LEMMA RowNames ==
  /\ AdminLock \in Rows
  /\ \A u \in Users : UserRow(u) \in Rows /\ UserRow(u) # AdminLock
  /\ \A s \in Sessions : SessionRow(s) \in Rows /\ SessionRow(s) # AdminLock
  /\ \A t \in Tokens : TokenRow(t) \in Rows /\ TokenRow(t) # AdminLock
  /\ \A u, v : UserRow(u) # SessionRow(v) /\ UserRow(u) # TokenRow(v) /\ SessionRow(u) # TokenRow(v)
  /\ \A u, v : UserRow(u) = UserRow(v) => u = v
  /\ \A s, v : SessionRow(s) = SessionRow(v) => s = v
  /\ \A t, v : TokenRow(t) = TokenRow(v) => t = v
  BY DEF Rows, AdminLock, UserRow, SessionRow, TokenRow

LEMMA Modality ==
  /\ "share" \in Modes /\ "update" \in Modes /\ "exclusive" \in Modes
  /\ \A m \in Modes : Conflict("exclusive", m) /\ Conflict(m, "exclusive")
  /\ Conflict("update", "update")
  /\ \A m, n \in Modes : Conflict(m, n) => Conflict(n, m)
<1>1. \A m \in Modes : Conflict("exclusive", m) /\ Conflict(m, "exclusive")
  <2> SUFFICES ASSUME NEW m \in Modes PROVE Conflict("exclusive", m) /\ Conflict(m, "exclusive")
    OBVIOUS
  <2>1. "exclusive" \in {"exclusive", m} /\ "exclusive" \in {m, "exclusive"}
        /\ "exclusive" \notin {"share"} /\ "exclusive" \notin {"share", "update"}
    OBVIOUS
  <2> QED
    BY <2>1 DEF Conflict
<1>2. Conflict("update", "update")
  <2>1. "update" \in {"update", "update"} /\ "update" \notin {"share"}
        /\ "share" \notin {"update", "update"} /\ "share" \in {"share", "update"}
    OBVIOUS
  <2> QED
    BY <2>1 DEF Conflict
<1>3. \A m, n \in Modes : Conflict(m, n) => Conflict(n, m)
  <2>1. \A m, n \in Modes : {m, n} = {n, m}
    OBVIOUS
  <2> QED
    BY <2>1 DEF Conflict
<1> QED
  BY <1>1, <1>2, <1>3 DEF Modes

LEMMA LockRecords ==
  /\ \A row \in Rows, mode \in Modes : Lock(row, mode) \in LockRecord
  /\ \A row, mode : Lock(row, mode).row = row /\ Lock(row, mode).mode = mode
  /\ \A w \in LockRecord : w.row \in Rows /\ w.mode \in Modes /\ w = Lock(w.row, w.mode)
  BY DEF Lock, LockRecord

LEMMA Restatement ==
  ASSUME NEW a \in SUBSET LockRecord, NEW b \in SUBSET LockRecord
  PROVE  /\ Statements(a, b) \in Seq(SUBSET LockRecord)
         /\ \A w : (\E i \in DOMAIN Statements(a, b) : w \in Statements(a, b)[i]) <=> w \in a \union b
<1> DEFINE s == IF a = {} THEN <<>> ELSE <<a>>
           t == IF b = {} THEN <<>> ELSE <<b>>
<1>1. s \in Seq(SUBSET LockRecord) /\ t \in Seq(SUBSET LockRecord) /\ Statements(a, b) = s \o t
  <2>1. <<>> \in Seq(SUBSET LockRecord) /\ <<a>> \in Seq(SUBSET LockRecord) /\ <<b>> \in Seq(SUBSET LockRecord)
    OBVIOUS
  <2>2. s \in Seq(SUBSET LockRecord) /\ t \in Seq(SUBSET LockRecord)
    BY <2>1
  <2> QED
    BY <2>2, Zenon DEF Statements
<1>2. /\ s \o t \in Seq(SUBSET LockRecord) /\ Len(s \o t) = Len(s) + Len(t)
      /\ \A i \in 1 .. Len(s) + Len(t) : (s \o t)[i] = IF i <= Len(s) THEN s[i] ELSE t[i - Len(s)]
  BY <1>1, ConcatProperties
<1>3. DOMAIN (s \o t) = 1 .. Len(s) + Len(t)
  BY <1>2
<1>4. /\ a = {} => Len(s) = 0
      /\ a # {} => Len(s) = 1 /\ s[1] = a
      /\ b = {} => Len(t) = 0
      /\ b # {} => Len(t) = 1 /\ t[1] = b
  OBVIOUS
<1> HIDE DEF s, t
<1>5. ASSUME NEW w PROVE (\E i \in DOMAIN (s \o t) : w \in (s \o t)[i]) <=> w \in a \union b
  <2>1. CASE a = {} /\ b = {}
    BY <1>2, <1>3, <1>4, <2>1
  <2>2. CASE a # {} /\ b = {}
    BY <1>2, <1>3, <1>4, <2>2
  <2>3. CASE a = {} /\ b # {}
    BY <1>2, <1>3, <1>4, <2>3
  <2>4. CASE a # {} /\ b # {}
    <3>1. DOMAIN (s \o t) = 1 .. 2 /\ (s \o t)[1] = a /\ (s \o t)[2] = b
      BY <1>2, <1>3, <1>4, <2>4
    <3> QED
      BY <3>1
  <2> QED
    BY <2>1, <2>2, <2>3, <2>4
<1> QED
  BY <1>1, <1>2, <1>5

\* The first statement, and what is left when it has run or has run in part.
LEMMA FirstStatement ==
  ASSUME NEW w \in Seq(SUBSET LockRecord), w # <<>>
  PROVE  /\ Head(w) \in SUBSET LockRecord /\ Tail(w) \in Seq(SUBSET LockRecord)
         /\ \A x : (\E i \in DOMAIN w : x \in w[i]) <=> x \in Head(w) \/ \E i \in DOMAIN Tail(w) : x \in Tail(w)[i]
<1>1. /\ Tail(w) \in Seq(SUBSET LockRecord)
      /\ Head(w) = w[1] /\ Head(w) \in SUBSET LockRecord
      /\ DOMAIN w = 1 .. Len(w) /\ Len(w) # 0 /\ Len(w) \in Nat
  OBVIOUS
<1>2. \A i \in DOMAIN w : i # 1 => i - 1 \in DOMAIN Tail(w) /\ Tail(w)[i - 1] = w[i]
  OBVIOUS
<1>3. \A i \in DOMAIN Tail(w) : i + 1 \in DOMAIN w /\ Tail(w)[i] = w[i + 1]
  OBVIOUS
<1>4. 1 \in DOMAIN w
  BY <1>1
<1> QED
  BY <1>1, <1>2, <1>3, <1>4

LEMMA PartStatement ==
  ASSUME NEW w \in Seq(SUBSET LockRecord), w # <<>>, NEW a \in SUBSET LockRecord
  PROVE  /\ <<a>> \o Tail(w) \in Seq(SUBSET LockRecord)
         /\ \A x : (\E i \in DOMAIN (<<a>> \o Tail(w)) : x \in (<<a>> \o Tail(w))[i])
                     <=> x \in a \/ \E i \in DOMAIN Tail(w) : x \in Tail(w)[i]
<1> DEFINE v == <<a>> \o Tail(w)
<1>1. v \in Seq(SUBSET LockRecord) /\ v # <<>> /\ Tail(v) = Tail(w) /\ Head(v) = a
  <2>1. Tail(w) \in Seq(SUBSET LockRecord) /\ <<a>> \in Seq(SUBSET LockRecord)
    BY FirstStatement
  <2>2. /\ v \in Seq(SUBSET LockRecord) /\ Len(v) = 1 + Len(Tail(w))
        /\ \A i \in 1 .. 1 + Len(Tail(w)) : v[i] = IF i <= 1 THEN a ELSE Tail(w)[i - 1]
    BY <2>1, ConcatProperties
  <2>3. Len(Tail(w)) \in Nat
    BY <2>1
  <2>4. v # <<>> /\ Head(v) = a
    BY <2>2, <2>3
  <2>5. Tail(v) \in Seq(SUBSET LockRecord) /\ Len(Tail(v)) = Len(Tail(w))
        /\ \A i \in 1 .. Len(Tail(v)) : Tail(v)[i] = v[i + 1]
    BY <2>2, <2>3, <2>4, HeadTailProperties
  <2>6. \A i \in 1 .. Len(Tail(v)) : Tail(v)[i] = Tail(w)[i]
    BY <2>2, <2>3, <2>5
  <2>7. Tail(v) = Tail(w)
    BY <2>1, <2>5, <2>6, SeqEqual
  <2> QED
    BY <2>2, <2>4, <2>7
<1> HIDE DEF v
<1>2. \A x : (\E i \in DOMAIN v : x \in v[i]) <=> x \in Head(v) \/ \E i \in DOMAIN Tail(v) : x \in Tail(v)[i]
  BY <1>1, FirstStatement
<1> QED
  BY <1>1, <1>2 DEF v

LEMMA Shapes ==
  ASSUME Types, NEW q \in Requests
  PROVE  /\ requests[q].pc \in {"unused", "done"} => requests[q] \in IdleRequest
         /\ requests[q].pc \in {"refreshed", "family", "revoked"} => requests[q] \in FamilyRequest
         /\ requests[q].pc \in {"user", "commit"} => requests[q] \in UserRequest
         /\ requests[q].pc \in {"unused", "done", "refreshed", "family", "revoked", "user", "commit"}
         /\ requests[q].want \in Seq(SUBSET LockRecord)
<1>1. requests[q] \in IdleRequest \union FamilyRequest \union UserRequest
  BY DEF Types
<1>2. <<>> \in Seq(SUBSET LockRecord)
  OBVIOUS
<1>3. CASE requests[q] \in IdleRequest
  BY <1>2, <1>3 DEF IdleRequest
<1>4. CASE requests[q] \in FamilyRequest
  BY <1>4 DEF FamilyRequest
<1>5. CASE requests[q] \in UserRequest
  BY <1>5 DEF UserRequest
<1> QED
  BY <1>1, <1>3, <1>4, <1>5

-----------------------------------------------------------------------------
(* What the parts of a step do to the locks and to the other requests *)

\* A step of request r leaves the other requests and their locks alone.
Others(r) ==
  /\ requests' \in [Requests -> IdleRequest \union FamilyRequest \union UserRequest]
  /\ locks' \subseteq Rows \X Requests \X Modes
  /\ \A q \in Requests : q # r =>
       /\ requests'[q] = requests[q]
       /\ \A row, mode : <<row, q, mode>> \in locks' <=> <<row, q, mode>> \in locks

LEMMA LocksTaken ==
  ASSUME NEW r \in Requests, NEW want \in SUBSET LockRecord
  PROVE  /\ Taken(r, want) \subseteq Rows \X Requests \X Modes
         /\ \A row, q, mode :
              <<row, q, mode>> \in Taken(r, want) <=> q = r /\ Lock(row, mode) \in want
<1>1. \A w \in want : w.row \in Rows /\ w.mode \in Modes /\ w = Lock(w.row, w.mode)
  BY LockRecords
<1>2. Taken(r, want) \subseteq Rows \X Requests \X Modes
  BY <1>1 DEF Taken
<1>3. ASSUME NEW row, NEW q, NEW mode
      PROVE  <<row, q, mode>> \in Taken(r, want) <=> q = r /\ Lock(row, mode) \in want
  <2>1. ASSUME <<row, q, mode>> \in Taken(r, want) PROVE q = r /\ Lock(row, mode) \in want
    <3>1. PICK w \in want : <<row, q, mode>> = <<w.row, r, w.mode>>
      BY <2>1 DEF Taken
    <3>2. row = w.row /\ q = r /\ mode = w.mode
      BY <3>1
    <3> QED
      BY <1>1, <3>2
  <2>2. ASSUME q = r, Lock(row, mode) \in want PROVE <<row, q, mode>> \in Taken(r, want)
    <3>1. Lock(row, mode).row = row /\ Lock(row, mode).mode = mode
      BY LockRecords
    <3> QED
      BY <2>2, <3>1 DEF Taken
  <2> QED
    BY <2>1, <2>2
<1> QED
  BY <1>2, <1>3

\* Locks that are free join the others without a conflict.
LEMMA LocksJoin ==
  ASSUME Types, LocksOK, NEW r \in Requests, NEW want \in SUBSET LockRecord,
         \A w \in want : Free(r, w)
  PROVE  /\ locks \union Taken(r, want) \subseteq Rows \X Requests \X Modes
         /\ \A row, q, mode :
              <<row, q, mode>> \in locks \union Taken(r, want)
                <=> Held(q, row, mode) \/ (q = r /\ Lock(row, mode) \in want)
         /\ \A row \in Rows, q \in Requests, m, n \in Modes :
              Held(q, row, m) /\ q # r /\ Lock(row, n) \in want => ~ Conflict(m, n)
<1>1. \A row, q, mode :
              <<row, q, mode>> \in locks \union Taken(r, want)
                <=> Held(q, row, mode) \/ (q = r /\ Lock(row, mode) \in want)
  BY LocksTaken DEF Held
<1>2. ASSUME NEW row \in Rows, NEW q \in Requests, NEW m \in Modes, NEW n \in Modes,
             Held(q, row, m), q # r, Lock(row, n) \in want
      PROVE  ~ Conflict(m, n)
  <2>1. <<row, q, m>> \notin Against(r, Lock(row, n))
    BY <1>2 DEF Free
  <2> QED
    BY <1>2, <2>1, LockRecords DEF Against, Held
<1> QED
  BY <1>1, <1>2, LocksTaken DEF Types

\* What a request that executes its last statement has locked.
LEMMA LocksAt ==
  ASSUME Types, LocksOK, NEW r \in Requests, NEW place, Reached(r, place)
  PROVE  /\ LocksWith(r) \subseteq Rows \X Requests \X Modes
         /\ \A row, q, mode :
              <<row, q, mode>> \in LocksWith(r) <=> IF q = r THEN Secured(r, row, mode) ELSE Held(q, row, mode)
         /\ \A row \in Rows, q \in Requests, m, n \in Modes :
              Held(q, row, m) /\ q # r /\ Secured(r, row, n) => ~ Conflict(m, n)
<1>1. requests[r].want \in Seq(SUBSET LockRecord) /\ Len(requests[r].want) <= 1
  BY Shapes DEF Reached
<1>2. /\ Wanted(r) \in SUBSET LockRecord
      /\ \A row, mode : Ahead(r, row, mode) <=> Lock(row, mode) \in Wanted(r)
  <2>1. CASE requests[r].want = <<>>
    BY <2>1 DEF Wanted, Ahead
  <2>2. CASE requests[r].want # <<>>
    <3>1. DOMAIN requests[r].want = {1} /\ Wanted(r) = requests[r].want[1]
      BY <1>1, <2>2 DEF Wanted
    <3> QED
      BY <1>1, <3>1 DEF Ahead
  <2> QED
    BY <2>1, <2>2
<1>3. \A w \in Wanted(r) : Free(r, w)
  BY DEF Reached
<1>4. /\ LocksWith(r) \subseteq Rows \X Requests \X Modes
      /\ \A row, q, mode :
              <<row, q, mode>> \in LocksWith(r)
                <=> Held(q, row, mode) \/ (q = r /\ Lock(row, mode) \in Wanted(r))
      /\ \A row \in Rows, q \in Requests, m, n \in Modes :
              Held(q, row, m) /\ q # r /\ Lock(row, n) \in Wanted(r) => ~ Conflict(m, n)
  BY <1>2, <1>3, LocksJoin DEF LocksWith
<1> QED
  BY <1>2, <1>4 DEF Secured, LocksOK

LEMMA LocksEnd ==
  ASSUME Types, LocksOK, NEW r \in Requests, End(r)
  PROVE  /\ Others(r) /\ LocksOK' /\ requests'[r] = Idle
         /\ \A l \in locks' : l[2] # r
<1>1. requests' = [requests EXCEPT ![r] = Idle] /\ locks' = {l \in locks : l[2] # r}
  BY DEF End
<1>2. Idle \in IdleRequest
  BY DEF Idle, IdleRequest
<1>3. \A row, q, mode :
        <<row, q, mode>> \in locks' <=> <<row, q, mode>> \in locks /\ q # r
  BY <1>1
<1>4. LocksOK'
  BY <1>3 DEF LocksOK, Held
<1> QED
  BY <1>1, <1>2, <1>3, <1>4 DEF Others, Types

LEMMA LocksContinue ==
  ASSUME Types, LocksOK, NEW r \in Requests, NEW place, Reached(r, place),
         NEW a \in SUBSET LockRecord, NEW b \in SUBSET LockRecord,
         NEW y \in FamilyRequest \union UserRequest, y.want = Statements(a, b),
         requests' = [requests EXCEPT ![r] = y], locks' = LocksWith(r)
  PROVE  /\ Others(r) /\ LocksOK'
         /\ requests'[r] = y
         /\ \A row, mode : <<row, r, mode>> \in locks' <=> Secured(r, row, mode)
         /\ \A row, mode :
              Secured(r, row, mode)' <=> Secured(r, row, mode) \/ Lock(row, mode) \in a \union b
<1>2. requests'[r] = y
  BY DEF Types
<1>3. /\ locks' \subseteq Rows \X Requests \X Modes
      /\ \A row, q, mode :
              <<row, q, mode>> \in locks' <=> IF q = r THEN Secured(r, row, mode) ELSE Held(q, row, mode)
      /\ \A row \in Rows, q \in Requests, m, n \in Modes :
              Held(q, row, m) /\ q # r /\ Secured(r, row, n) => ~ Conflict(m, n)
  BY LocksAt
<1>4. Others(r)
  BY <1>3 DEF Others, Types, Held
<1>5. LocksOK'
  BY <1>3, Modality DEF LocksOK, Held
<1>6. ASSUME NEW row, NEW mode
      PROVE  Secured(r, row, mode)' <=> Secured(r, row, mode) \/ Lock(row, mode) \in a \union b
  <2>1. Ahead(r, row, mode)' <=> Lock(row, mode) \in a \union b
    BY <1>2, Restatement DEF Ahead
  <2>2. Held(r, row, mode)' <=> Secured(r, row, mode)
    BY <1>3 DEF Held
  <2> QED
    BY <2>1, <2>2 DEF Secured
<1> QED
  BY <1>2, <1>3, <1>4, <1>5, <1>6

\* A statement in the middle: what it locks was ahead and is held now.
LEMMA LocksAcquire ==
  ASSUME Types, LocksOK, NEW r \in Requests, Acquire(r)
  PROVE  /\ Others(r) /\ LocksOK'
         /\ \E want \in Seq(SUBSET LockRecord) : requests'[r] = [requests[r] EXCEPT !.want = want]
         /\ \A row, mode : Held(r, row, mode) => <<row, r, mode>> \in locks'
         /\ \A row, mode : Secured(r, row, mode)' <=> Secured(r, row, mode)
         /\ requests[r].pc \notin {"unused", "done"}
<1> DEFINE free == {w \in Wanted(r) : Free(r, w)}
           others == Tail(requests[r].want)
<1>1. requests[r].want \in Seq(SUBSET LockRecord) /\ requests[r].want # <<>>
      /\ Wanted(r) = Head(requests[r].want)
  BY Shapes DEF Acquire, Wanted
<1>2. /\ Wanted(r) \in SUBSET LockRecord /\ others \in Seq(SUBSET LockRecord)
      /\ \A x : (\E i \in DOMAIN requests[r].want : x \in requests[r].want[i])
                  <=> x \in Wanted(r) \/ \E i \in DOMAIN others : x \in others[i]
  BY <1>1, FirstStatement
<1>3. PICK want \in Seq(SUBSET LockRecord), took \in SUBSET free :
        /\ requests' = [requests EXCEPT ![r].want = want] /\ locks' = locks \union Taken(r, took)
        /\ \A x : (\E i \in DOMAIN want : x \in want[i]) \/ x \in took
                    <=> \E i \in DOMAIN requests[r].want : x \in requests[r].want[i]
  <2>1. CASE free = Wanted(r)
    <3>1. locks' = locks \union Taken(r, free) /\ requests' = [requests EXCEPT ![r].want = others]
      BY <2>1 DEF Acquire
    <3>2. \A x : (\E i \in DOMAIN others : x \in others[i]) \/ x \in free
                    <=> \E i \in DOMAIN requests[r].want : x \in requests[r].want[i]
      BY <1>2, <2>1
    <3> QED
      BY <1>2, <3>1, <3>2
  <2>2. CASE free # Wanted(r)
    <3>1. PICK w \in free : /\ locks' = locks \union Taken(r, {w})
                            /\ requests' = [requests EXCEPT ![r].want = <<Wanted(r) \ {w}>> \o others]
      BY <2>2 DEF Acquire
    <3>2. Wanted(r) \ {w} \in SUBSET LockRecord
      BY <1>2
    <3>3. /\ <<Wanted(r) \ {w}>> \o others \in Seq(SUBSET LockRecord)
          /\ \A x : (\E i \in DOMAIN (<<Wanted(r) \ {w}>> \o others) : x \in (<<Wanted(r) \ {w}>> \o others)[i])
                     <=> x \in Wanted(r) \ {w} \/ \E i \in DOMAIN others : x \in others[i]
      BY <1>1, <3>2, PartStatement
    <3>4. PICK v \in Seq(SUBSET LockRecord) : v = <<Wanted(r) \ {w}>> \o others
      BY <3>3
    <3>5. /\ requests' = [requests EXCEPT ![r].want = v] /\ locks' = locks \union Taken(r, {w})
      BY <3>1, <3>4
    <3>6. \A x : (\E i \in DOMAIN v : x \in v[i]) \/ x \in {w}
                    <=> \E i \in DOMAIN requests[r].want : x \in requests[r].want[i]
      <4> HIDE DEF others
      <4> QED
        BY <1>2, <3>3, <3>4
    <3> QED
      BY <3>5, <3>6
  <2> QED
    BY <2>1, <2>2
<1>4. took \in SUBSET LockRecord /\ \A w \in took : Free(r, w)
  BY <1>2
<1> HIDE DEF free, others
<1>5. /\ locks' \subseteq Rows \X Requests \X Modes
      /\ \A row, q, mode :
              <<row, q, mode>> \in locks' <=> Held(q, row, mode) \/ (q = r /\ Lock(row, mode) \in took)
      /\ \A row \in Rows, q \in Requests, m, n \in Modes :
              Held(q, row, m) /\ q # r /\ Lock(row, n) \in took => ~ Conflict(m, n)
  BY <1>3, <1>4, LocksJoin
<1>6. requests[r].pc \notin {"unused", "done"}
  BY <1>1, Shapes DEF IdleRequest
<1>7. requests'[r] = [requests[r] EXCEPT !.want = want]
      /\ \A q \in Requests : q # r => requests'[q] = requests[q]
  BY <1>3 DEF Types
<1>8. requests' \in [Requests -> IdleRequest \union FamilyRequest \union UserRequest]
  <2>1. [requests[r] EXCEPT !.want = want] \in FamilyRequest \union UserRequest
    <3>1. requests[r] \in FamilyRequest \/ requests[r] \in UserRequest
      BY <1>6, Shapes
    <3> QED
      BY <3>1 DEF FamilyRequest, UserRequest
  <2> QED
    BY <1>3, <2>1 DEF Types
<1>9. requests'[r].want = want
  BY <1>6, <1>7, Shapes DEF FamilyRequest, UserRequest
<1>10. LocksOK'
  BY <1>5, Modality DEF LocksOK, Held
<1>11. ASSUME NEW row, NEW mode
       PROVE  Secured(r, row, mode)' <=> Secured(r, row, mode)
  BY <1>3, <1>5, <1>9 DEF Secured, Held, Ahead
<1> QED
  BY <1>5, <1>6, <1>7, <1>8, <1>10, <1>11 DEF Others, Held

-----------------------------------------------------------------------------
(* Frames *)

LEMMA OthersLocks ==
  ASSUME NEW r \in Requests, Others(r), NEW q \in Requests, q # r
  PROVE  /\ requests'[q] = requests[q]
         /\ \A row, mode : (Held(q, row, mode)' <=> Held(q, row, mode))
         /\ \A row, mode : (Secured(q, row, mode)' <=> Secured(q, row, mode))
  BY DEF Others, Secured, Held, Ahead

LEMMA OthersIdle ==
  ASSUME Types, NEW r \in Requests, Others(r), NEW q \in Requests, q # r, IdleOK(q)
  PROVE  IdleOK(q)'
<1> SUFFICES ASSUME requests'[q].pc \in {"unused", "done"}, NEW l \in locks' PROVE l[2] # q
  BY DEF IdleOK
<1>1. requests[q].pc \in {"unused", "done"}
  BY DEF Others
<1>2. PICK row \in Rows, p \in Requests, mode \in Modes : l = <<row, p, mode>>
  BY DEF Others
<1> QED
  BY <1>1, <1>2 DEF IdleOK, Others

\* A step that leaves the rows alone leaves what the other requests rely on.
LEMMA QuietOthers ==
  ASSUME AuthInv, NEW r \in Requests, Others(r), UNCHANGED <<users, sessions, tokens>>,
         NEW q \in Requests, q # r
  PROVE  RequestOK(q)'
<1>1. RequestOK(q) /\ Types
  BY DEF AuthInv
<1>2. /\ requests'[q] = requests[q]
      /\ \A row, mode : (Held(q, row, mode)' <=> Held(q, row, mode))
      /\ \A row, mode : (Secured(q, row, mode)' <=> Secured(q, row, mode))
  BY OthersLocks
<1>3. IdleOK(q)'
  BY <1>1, OthersIdle DEF RequestOK
<1> HIDE DEF Held, Secured
<1>4. RefreshOK(q)' /\ FamilyOK(q)'
  BY <1>1, <1>2 DEF RequestOK, RefreshOK, FamilyOK, LiveTokens
<1>5. UserOK(q)' /\ CommitOK(q)'
  BY <1>1, <1>2 DEF RequestOK, UserOK, CommitOK, LiveSessions, ActiveAdministrators
<1> QED
  BY <1>3, <1>4, <1>5 DEF RequestOK

LEMMA QuietRows ==
  ASSUME AuthInv, UNCHANGED <<users, sessions, tokens>>
  PROVE  RowsOK'
  BY DEF AuthInv, RowsOK, ExistsOK, ReferenceOK, ChainOK, RevokedOK, LiveSessionIsCurrent, AdministratorRemains,
         ActiveAdministrators

LEMMA RoomKept ==
  ASSUME AuthInv, NEW r \in Requests, Others(r), tokens' = tokens,
         requests'[r].op = "refresh" => requests[r].op = "refresh"
  PROVE  RoomOK'
<1>1. IsFiniteSet(Requests)
  BY AuthAssumption, FS_Interval DEF Requests
<1>2. IsFiniteSet(Refreshing) /\ Refreshing' \in SUBSET Refreshing
  <2>1. Refreshing \in SUBSET Requests
    BY DEF Refreshing
  <2>2. IsFiniteSet(Refreshing)
    BY <1>1, <2>1, FS_Subset
  <2> QED
    BY <2>2 DEF Refreshing, Others
<1>3. PICK F : F = Refreshing'
  OBVIOUS
<1>4. Cardinality(F) <= Cardinality(Refreshing) /\ Cardinality(F) \in Nat /\ Cardinality(Refreshing) \in Nat
  BY <1>2, <1>3, FS_Subset, FS_CardinalityType
<1>5. Len(tokens) \in Nat /\ Len(tokens) + Cardinality(Refreshing) <= MaxTokens
  BY DEF AuthInv, Types, RoomOK
<1>6. Len(tokens) + Cardinality(F) <= MaxTokens
  BY <1>4, <1>5, AuthAssumption
<1> QED
  BY <1>3, <1>6 DEF RoomOK

LEMMA QuietStep ==
  ASSUME AuthInv, NEW r \in Requests, Others(r), LocksOK', UNCHANGED <<users, sessions, tokens>>,
         RequestOK(r)', RoomOK'
  PROVE  AuthInv'
<1>1. Types'
  BY DEF AuthInv, Types, Others
<1>2. \A q \in Requests : RequestOK(q)'
  BY QuietOthers
<1> QED
  BY <1>1, <1>2, QuietRows DEF AuthInv

\* A request that has ended relies on nothing.
LEMMA EndedOK ==
  ASSUME NEW r \in Requests, requests'[r] = Idle, \A l \in locks' : l[2] # r
  PROVE  RequestOK(r)' /\ requests'[r].op = "none"
  BY DEF RequestOK, IdleOK, RefreshOK, FamilyOK, UserOK, CommitOK, Idle

LEMMA AbortedStep ==
  ASSUME AuthInv, NEW r \in Requests, End(r), UNCHANGED <<users, sessions, tokens>>
  PROVE  AuthInv'
<1>1. Others(r) /\ LocksOK' /\ requests'[r] = Idle /\ \A l \in locks' : l[2] # r
  BY LocksEnd DEF AuthInv
<1>2. RequestOK(r)' /\ requests'[r].op = "none"
  BY <1>1, EndedOK
<1>3. RoomOK'
  BY <1>1, <1>2, RoomKept
<1> QED
  BY <1>1, <1>2, <1>3, QuietStep

LEMMA AcquireStep ==
  ASSUME AuthInv, NEW r \in Requests, Acquire(r)
  PROVE  AuthInv'
<1>1. /\ Others(r) /\ LocksOK'
      /\ \A row, mode : Held(r, row, mode) => <<row, r, mode>> \in locks'
      /\ \A row, mode : Secured(r, row, mode)' <=> Secured(r, row, mode)
      /\ requests[r].pc \notin {"unused", "done"}
      /\ UNCHANGED <<users, sessions, tokens>>
  BY LocksAcquire DEF AuthInv, Acquire
<1>2. PICK want \in Seq(SUBSET LockRecord) : requests'[r] = [requests[r] EXCEPT !.want = want]
  BY LocksAcquire DEF AuthInv
<1>3. RequestOK(r) /\ Types
  BY DEF AuthInv
<1>4. \A row, mode : Held(r, row, mode) => Held(r, row, mode)'
  BY <1>1 DEF Held
<1>5. CASE requests[r].pc \in {"refreshed", "family", "revoked"}
  <2>1. requests[r] \in FamilyRequest
    BY <1>3, <1>5, Shapes
  <2>2. PICK x \in FamilyRequest : x = requests[r]
    BY <2>1
  <2>3. PICK y : y = requests'[r]
    OBVIOUS
  <2>4. /\ y.pc = x.pc /\ y.op = x.op /\ y.session = x.session /\ y.token = x.token /\ y.saw = x.saw
    BY <1>2, <2>2, <2>3 DEF FamilyRequest
  <2>5. RefreshOK(r)' /\ FamilyOK(r)'
    BY <1>1, <1>3, <1>4, <2>2, <2>3, <2>4 DEF RequestOK, RefreshOK, FamilyOK, LiveTokens
  <2>6. IdleOK(r)' /\ UserOK(r)' /\ CommitOK(r)'
    BY <1>5, <2>2, <2>3, <2>4 DEF IdleOK, UserOK, CommitOK
  <2>7. RoomOK'
    BY <1>1, <2>2, <2>3, <2>4, RoomKept
  <2> QED
    BY <1>1, <2>5, <2>6, <2>7, QuietStep DEF RequestOK
<1>6. CASE requests[r].pc \in {"user", "commit"}
  <2>1. requests[r] \in UserRequest
    BY <1>3, <1>6, Shapes
  <2>2. PICK x \in UserRequest : x = requests[r]
    BY <2>1
  <2>3. PICK y : y = requests'[r]
    OBVIOUS
  <2>4. /\ y.pc = x.pc /\ y.op = x.op /\ y.user = x.user /\ y.target = x.target /\ y.saw = x.saw
    BY <1>2, <2>2, <2>3 DEF UserRequest
  <2>5. UserOK(r)'
    BY <1>1, <1>3, <1>4, <2>2, <2>3, <2>4 DEF RequestOK, UserOK
  <2>6. CommitOK(r)'
    BY <1>1, <1>3, <1>4, <2>2, <2>3, <2>4 DEF RequestOK, CommitOK, LiveSessions, ActiveAdministrators
  <2>7. IdleOK(r)' /\ RefreshOK(r)' /\ FamilyOK(r)'
    BY <1>6, <2>2, <2>3, <2>4 DEF IdleOK, RefreshOK, FamilyOK
  <2>8. RoomOK'
    BY <1>1, <2>2, <2>3, <2>4, RoomKept
  <2> QED
    BY <1>1, <2>5, <2>6, <2>7, <2>8, QuietStep DEF RequestOK
<1> QED
  BY <1>1, <1>3, <1>5, <1>6, Shapes

LEMMA DeadlockVictimStep ==
  ASSUME AuthInv, NEW r \in Requests, DeadlockVictim(r)
  PROVE  AuthInv'
  BY AbortedStep DEF DeadlockVictim

LEMMA UserRefusedStep ==
  ASSUME AuthInv, NEW r \in Requests, UserRefused(r)
  PROVE  AuthInv'
  BY AbortedStep DEF UserRefused

-----------------------------------------------------------------------------
(* Requests that arrive *)

LEMMA Arriving ==
  ASSUME AuthInv, NEW r \in Requests, Unused(r), NEW x \in FamilyRequest \union UserRequest,
         requests' = [requests EXCEPT ![r] = x], locks' = locks
  PROVE  /\ Others(r) /\ LocksOK' /\ requests'[r] = x
         /\ \A row, mode : ~ Held(r, row, mode)' /\ ~ Held(r, row, mode)
         /\ \A row, mode : Secured(r, row, mode)' <=> \E i \in DOMAIN x.want : Lock(row, mode) \in x.want[i]
<1>1. Types /\ LocksOK /\ IdleOK(r)
  BY DEF AuthInv, RequestOK
<1>2. Others(r) /\ LocksOK' /\ requests'[r] = x
  BY <1>1 DEF Others, Types, LocksOK, Held
<1>3. \A row, mode : <<row, r, mode>> \notin locks
  BY <1>1 DEF IdleOK, Unused
<1>4. \A row, mode : ~ Held(r, row, mode)' /\ ~ Held(r, row, mode)
  BY <1>3 DEF Held
<1>5. \A row, mode : Ahead(r, row, mode)' <=> \E i \in DOMAIN x.want : Lock(row, mode) \in x.want[i]
  BY <1>2 DEF Ahead
<1> QED
  BY <1>2, <1>4, <1>5 DEF Secured

LEMMA BeginStep ==
  ASSUME AuthInv, NEW r \in Requests, Unused(r), NEW op \in Ops \ {"login", "refresh", "logout"},
         NEW u \in Users, NEW target \in Users, NEW want \in Seq(SUBSET LockRecord),
         Begin(r, op, u, target, want),
         \E i \in DOMAIN want : Lock(UserRow(target), "exclusive") \in want[i],
         op \in Guarded => \E i \in DOMAIN want : Lock(AdminLock, "exclusive") \in want[i],
         \A i \in DOMAIN want : \A w \in want[i] : w.mode = "exclusive",
         op \in Own => u = target, op # "bootstrap" => users[u].active,
         op \notin Own \union {"bootstrap"} => users[u].admin
  PROVE  AuthInv'
<1> DEFINE x == [op |-> op, pc |-> "user", user |-> u, target |-> target, saw |-> users[u], want |-> want]
<1>1. requests' = [requests EXCEPT ![r] = x] /\ UNCHANGED <<users, sessions, tokens, locks>>
  BY DEF Begin
<1>2. users[u] \in User
  BY DEF AuthInv, Types
<1>3. x \in UserRequest
  BY <1>2 DEF UserRequest
<1>4. /\ Others(r) /\ LocksOK' /\ requests'[r] = x
      /\ \A row, mode : Secured(r, row, mode)' <=> \E i \in DOMAIN want : Lock(row, mode) \in want[i]
  <2>1. x.want = want
    OBVIOUS
  <2>2. PICK y \in FamilyRequest \union UserRequest : y = x
    BY <1>3
  <2> HIDE DEF x
  <2>3. requests' = [requests EXCEPT ![r] = y] /\ locks' = locks /\ y.want = want
    BY <1>1, <2>1, <2>2
  <2>4. /\ Others(r) /\ LocksOK' /\ requests'[r] = y
        /\ \A row, mode : Secured(r, row, mode)' <=> \E i \in DOMAIN y.want : Lock(row, mode) \in y.want[i]
    BY ZenonT(60), <2>3, Arriving
  <2> QED
    BY <2>2, <2>3, <2>4
<1>5. \A s : ~ Secured(r, SessionRow(s), "update")'
  BY <1>4, LockRecords
<1>6. op # "bootstrap" => users[u].exists
  BY DEF AuthInv, RowsOK, ExistsOK
<1>7. UserOK(r)'
  BY <1>1, <1>2, <1>4, <1>5, <1>6 DEF UserOK, User
<1>8. IdleOK(r)' /\ RefreshOK(r)' /\ FamilyOK(r)' /\ CommitOK(r)'
  BY <1>4 DEF IdleOK, RefreshOK, FamilyOK, CommitOK
<1>9. RoomOK'
  BY <1>1, <1>4, RoomKept DEF Ops
<1> QED
  BY <1>1, <1>4, <1>7, <1>8, <1>9, QuietStep DEF RequestOK

LEMMA Principal ==
  ASSUME AuthInv, NEW r \in Requests, NEW u \in Users, Authenticated(r, u)
  PROVE  Unused(r) /\ users[u].active
  BY DEF Authenticated, ValidFamily

\* The two lists of statements an operation on a user may begin with.
LEMMA OneLock ==
  ASSUME NEW target \in Users
  PROVE  /\ <<ForUpdate(target)>> \in Seq(SUBSET LockRecord)
         /\ \E i \in DOMAIN <<ForUpdate(target)>> : Lock(UserRow(target), "exclusive") \in <<ForUpdate(target)>>[i]
         /\ \A i \in DOMAIN <<ForUpdate(target)>> : \A w \in <<ForUpdate(target)>>[i] : w.mode = "exclusive"
<1>1. Lock(UserRow(target), "exclusive") \in LockRecord /\ Lock(UserRow(target), "exclusive").mode = "exclusive"
  BY RowNames, Modality, LockRecords
<1> QED
  BY <1>1 DEF ForUpdate

LEMMA TwoLocks ==
  ASSUME NEW target \in Users
  PROVE  /\ <<AdvisoryLock, ForUpdate(target)>> \in Seq(SUBSET LockRecord)
         /\ \E i \in DOMAIN <<AdvisoryLock, ForUpdate(target)>> :
              Lock(UserRow(target), "exclusive") \in <<AdvisoryLock, ForUpdate(target)>>[i]
         /\ \E i \in DOMAIN <<AdvisoryLock, ForUpdate(target)>> :
              Lock(AdminLock, "exclusive") \in <<AdvisoryLock, ForUpdate(target)>>[i]
         /\ \A i \in DOMAIN <<AdvisoryLock, ForUpdate(target)>> :
              \A w \in <<AdvisoryLock, ForUpdate(target)>>[i] : w.mode = "exclusive"
<1>1. /\ Lock(UserRow(target), "exclusive") \in LockRecord /\ Lock(UserRow(target), "exclusive").mode = "exclusive"
      /\ Lock(AdminLock, "exclusive") \in LockRecord /\ Lock(AdminLock, "exclusive").mode = "exclusive"
  BY RowNames, Modality, LockRecords
<1>2. DOMAIN <<AdvisoryLock, ForUpdate(target)>> = 1 .. 2 /\ <<AdvisoryLock, ForUpdate(target)>>[1] = AdvisoryLock
      /\ <<AdvisoryLock, ForUpdate(target)>>[2] = ForUpdate(target)
  OBVIOUS
<1>3. AdvisoryLock \in SUBSET LockRecord /\ ForUpdate(target) \in SUBSET LockRecord
  BY <1>1 DEF AdvisoryLock, ForUpdate
<1>4. <<AdvisoryLock, ForUpdate(target)>> \in Seq(SUBSET LockRecord)
  BY <1>3
<1>5. 1 \in 1 .. 2 /\ 2 \in 1 .. 2 /\ \A i \in 1 .. 2 : i = 1 \/ i = 2
  OBVIOUS
<1> QED
  BY <1>1, <1>2, <1>4, <1>5 DEF ForUpdate, AdvisoryLock

LEMMA OwnStep ==
  ASSUME AuthInv, NEW r \in Requests, NEW u \in Users, LogoutAll(r, u) \/ ChangePassword(r, u)
  PROVE  AuthInv'
<1>1. PICK op \in Own : Authenticated(r, u) /\ Begin(r, op, u, u, <<ForUpdate(u)>>)
  BY DEF LogoutAll, ChangePassword, Own
<1> QED
  BY <1>1, Principal, OneLock, BeginStep DEF Own, Ops, Guarded

LEMMA AdministrationStep ==
  ASSUME AuthInv, NEW r \in Requests, NEW u \in Users, NEW target \in Users,
         \/ RevokeSessions(r, u, target) \/ DisableUser(r, u, target) \/ CreateUser(r, u, target)
         \/ AssignRole(r, u, target) \/ RemoveRole(r, u, target)
  PROVE  AuthInv'
<1>1. Permitted(r, u)
  BY DEF RevokeSessions, DisableUser, CreateUser, AssignRole, RemoveRole
<1>2. Unused(r) /\ users[u].active /\ users[u].admin
  BY <1>1, Principal DEF Permitted
<1>3. CASE DisableUser(r, u, target) \/ RemoveRole(r, u, target)
  <2>1. PICK op \in {"disable_user", "remove_role"} : Begin(r, op, u, target, <<AdvisoryLock, ForUpdate(target)>>)
    BY <1>3 DEF DisableUser, RemoveRole
  <2> QED
    BY <1>2, <2>1, TwoLocks, BeginStep DEF Own, Ops, Guarded
<1>4. CASE RevokeSessions(r, u, target) \/ CreateUser(r, u, target) \/ AssignRole(r, u, target)
  <2>1. PICK op \in {"revoke_sessions", "create_user", "assign_role"} : Begin(r, op, u, target, <<ForUpdate(target)>>)
    BY <1>4 DEF RevokeSessions, CreateUser, AssignRole
  <2> QED
    BY <1>2, <2>1, OneLock, BeginStep DEF Own, Ops, Guarded
<1> QED
  BY <1>3, <1>4

LEMMA BootstrapStep ==
  ASSUME AuthInv, NEW r \in Requests, NEW u \in Users, Bootstrap(r, u)
  PROVE  AuthInv'
<1>1. Unused(r) /\ Begin(r, "bootstrap", u, u, <<AdvisoryLock, ForUpdate(u)>>)
  BY DEF Bootstrap
<1> QED
  BY <1>1, TwoLocks, BeginStep DEF Own, Ops, Guarded

LEMMA LogoutStep ==
  ASSUME AuthInv, NEW r \in Requests, NEW s, Logout(r, s)
  PROVE  AuthInv'
<1> DEFINE w == Lock(SessionRow(s), "exclusive")
           x == [op |-> "revoke", pc |-> "family", session |-> s, user |-> sessions[s].user, token |-> 0,
                 saw |-> sessions[s], reason |-> "logout", want |-> <<{w}>>]
<1>1. Unused(r) /\ requests' = [requests EXCEPT ![r] = x] /\ UNCHANGED <<users, sessions, tokens, locks>>
      /\ s \in 1 .. Len(sessions)
  BY DEF Logout
<1>2. s \in Sessions /\ sessions[s] \in Session /\ s \in DOMAIN sessions
  BY <1>1, AuthAssumption DEF AuthInv, Types, Sessions
<1>3. w \in LockRecord
  BY <1>2, RowNames, Modality, LockRecords
<1>4. x \in FamilyRequest
  <2>1. <<{w}>> \in Seq(SUBSET LockRecord)
    BY <1>3
  <2> HIDE DEF w
  <2> QED
    BY <1>2, <2>1 DEF FamilyRequest, Session, FamilyReasons
<1>5. /\ Others(r) /\ LocksOK' /\ requests'[r] = x
      /\ \A row, mode : Secured(r, row, mode)' <=> \E i \in DOMAIN <<{w}>> : Lock(row, mode) \in <<{w}>>[i]
  <2>1. x.want = <<{w}>>
    OBVIOUS
  <2> HIDE DEF x
  <2> QED
    BY <1>1, <1>4, <2>1, Arriving
<1>6. Secured(r, SessionRow(s), "exclusive")'
  BY <1>5
<1>7. FamilyOK(r)'
  BY <1>1, <1>2, <1>5, <1>6 DEF FamilyOK
<1>8. IdleOK(r)' /\ RefreshOK(r)' /\ UserOK(r)' /\ CommitOK(r)'
  BY <1>5 DEF IdleOK, RefreshOK, UserOK, CommitOK
<1>9. RoomOK'
  BY <1>1, <1>5, RoomKept
<1> QED
  BY <1>1, <1>5, <1>7, <1>8, <1>9, QuietStep DEF RequestOK

\* What a refresh knows of the token it was given.
LEMMA RefreshStep ==
  ASSUME AuthInv, NEW r \in Requests, NEW t, Refresh(r, t)
  PROVE  AuthInv'
<1>1. /\ Unused(r) /\ t \in 1 .. Len(tokens) /\ RoomForToken /\ Free(r, Lock(TokenRow(t), "exclusive"))
      /\ locks' = locks \union Taken(r, {Lock(TokenRow(t), "exclusive")})
      /\ UNCHANGED <<users, sessions, tokens>>
  BY DEF Refresh
<1>2. PICK s : s = tokens[t].session
  OBVIOUS
<1>3. PICK u : u = sessions[s].user
  OBVIOUS
<1>4. /\ t \in DOMAIN tokens /\ t \in Tokens /\ t \in Nat /\ tokens[t] \in Token
      /\ s \in DOMAIN sessions /\ s \in Sessions /\ sessions[s] \in Session /\ u \in Users
  <2>1. t \in DOMAIN tokens /\ t \in Nat /\ tokens[t] \in Token
    BY <1>1 DEF AuthInv, Types
  <2>2. s \in DOMAIN sessions
    BY <1>2, <2>1 DEF AuthInv, RowsOK, ReferenceOK
  <2>3. s \in Sessions /\ sessions[s] \in Session
    BY <2>2, AuthAssumption DEF AuthInv, Types, Sessions
  <2>4. u \in Users
    BY <1>3, <2>3 DEF Session
  <2>5. Len(tokens) <= MaxTokens
    <3>1. PICK F : F = {q \in Requests : requests[q].op = "refresh"}
      OBVIOUS
    <3>2. IsFiniteSet(F)
      <4>1. IsFiniteSet(Requests) /\ F \in SUBSET Requests
        BY <3>1, AuthAssumption, FS_Interval DEF Requests
      <4> QED
        BY <4>1, FS_Subset
    <3>3. Cardinality(F) \in Nat
      BY <3>2, FS_CardinalityType
    <3>4. Len(tokens) + Cardinality(F) < MaxTokens /\ Len(tokens) \in Nat
      BY <1>1, <3>1 DEF RoomForToken, AuthInv, Types
    <3> QED
      BY <3>3, <3>4, AuthAssumption
  <2>6. t \in Tokens
    BY <1>1, <2>5, AuthAssumption DEF Tokens, AuthInv, Types
  <2> QED
    BY <2>1, <2>2, <2>3, <2>4, <2>6
<1>5. PICK key \in LockRecord : key = Lock(TokenRow(t), "exclusive")
  BY <1>4, RowNames, Modality, LockRecords
<1>6. PICK update \in LockRecord : update = Lock(SessionRow(s), "update")
  BY <1>4, RowNames, Modality, LockRecords
<1>7. PICK share \in LockRecord : share = Lock(SessionRow(s), "share")
  BY <1>4, RowNames, Modality, LockRecords
<1>8. PICK audit \in LockRecord : audit = Lock(UserRow(u), "share")
  BY <1>4, RowNames, Modality, LockRecords
<1>9. /\ locks' \subseteq Rows \X Requests \X Modes
      /\ \A row, q, mode : <<row, q, mode>> \in locks' <=> Held(q, row, mode) \/ (q = r /\ Lock(row, mode) = key)
      /\ \A row \in Rows, q \in Requests, m, n \in Modes :
           Held(q, row, m) /\ q # r /\ Lock(row, n) = key => ~ Conflict(m, n)
  <2>1. {key} \in SUBSET LockRecord /\ (\A w \in {key} : Free(r, w)) /\ locks' = locks \union Taken(r, {key})
    BY <1>1, <1>5
  <2> QED
    BY <2>1, LocksJoin DEF AuthInv
<1>10. LocksOK'
  BY <1>9, Modality DEF LocksOK, Held, AuthInv
<1>11. Held(r, TokenRow(t), "exclusive")'
  BY <1>5, <1>9 DEF Held
<1> DEFINE x(op, place, reason, want) ==
             [op |-> op, pc |-> place, session |-> s, user |-> u, token |-> t, saw |-> sessions[s],
              reason |-> reason, want |-> want]
<1>12. ASSUME NEW op \in {"refresh", "revoke"}, NEW place \in {"refreshed", "family"},
              NEW reason \in {"refresh_reuse", "session_invalid"}, NEW want \in Seq(SUBSET LockRecord),
              requests' = [requests EXCEPT ![r] = x(op, place, reason, want)]
       PROVE  /\ Others(r) /\ requests'[r] = x(op, place, reason, want)
              /\ \A row, mode : Secured(r, row, mode)' <=>
                   Held(r, row, mode)' \/ \E i \in DOMAIN want : Lock(row, mode) \in want[i]
  <2>1. x(op, place, reason, want) \in FamilyRequest /\ x(op, place, reason, want).want = want
    BY <1>4 DEF FamilyRequest, FamilyReasons
  <2> HIDE DEF x
  <2>2. requests'[r] = x(op, place, reason, want) /\ Others(r)
    BY <1>9, <1>12, <2>1 DEF Others, Held, AuthInv, Types
  <2> QED
    BY <2>1, <2>2 DEF Secured, Ahead
<1> DEFINE accepted == ValidFamily(sessions[s], users[u]) /\ ~ tokens[t].revoked
<1>13. CASE tokens[t].consumed \/ ~ accepted
  <2>1. PICK reason \in {"refresh_reuse", "session_invalid"}, want \in {<<{update}>>, <<>>} :
          /\ requests' = [requests EXCEPT ![r] = x("revoke", "family", reason, want)]
          /\ sessions[s].reason = "live" => want = <<{update}>>
    BY <1>2, <1>3, <1>6, <1>13 DEF Refresh
  <2>2. want \in Seq(SUBSET LockRecord)
    <3>1. <<{update}>> \in Seq(SUBSET LockRecord) /\ <<>> \in Seq(SUBSET LockRecord)
      OBVIOUS
    <3> QED
      BY <2>1, <3>1
  <2>3. /\ Others(r) /\ requests'[r] = x("revoke", "family", reason, want)
        /\ \A row, mode : Secured(r, row, mode)' <=>
             Held(r, row, mode)' \/ \E i \in DOMAIN want : Lock(row, mode) \in want[i]
    BY <1>12, <2>1, <2>2
  <2>4. sessions[s].reason = "live" => Secured(r, SessionRow(s), "update")'
    BY <1>6, <2>1, <2>3
  <2>5. FamilyOK(r)'
    BY <1>1, <1>4, <2>3, <2>4 DEF FamilyOK
  <2>6. IdleOK(r)' /\ RefreshOK(r)' /\ UserOK(r)' /\ CommitOK(r)'
    BY <2>3 DEF IdleOK, RefreshOK, UserOK, CommitOK
  <2>7. RoomOK'
    BY <1>1, <2>3, RoomKept
  <2> QED
    BY <1>1, <1>10, <2>3, <2>5, <2>6, <2>7, QuietStep DEF RequestOK
<1>14. CASE ~ tokens[t].consumed /\ accepted
  <2>1. requests' = [requests EXCEPT ![r] = x("refresh", "refreshed", "session_invalid", <<{share}, {update, audit}>>)]
    BY <1>2, <1>3, <1>6, <1>7, <1>8, <1>14 DEF Refresh
  <2>2. PICK want \in Seq(SUBSET LockRecord) : want = <<{share}, {update, audit}>>
    <3>1. {share} \in SUBSET LockRecord /\ {update, audit} \in SUBSET LockRecord
      OBVIOUS
    <3>2. <<{share}, {update, audit}>> \in Seq(SUBSET LockRecord)
      BY <3>1
    <3> QED
      BY <3>2, Zenon
  <2>3. /\ Others(r) /\ requests'[r] = x("refresh", "refreshed", "session_invalid", want)
        /\ \A row, mode : Secured(r, row, mode)' <=>
             Held(r, row, mode)' \/ \E i \in DOMAIN want : Lock(row, mode) \in want[i]
    BY ZenonT(60), <1>12, <2>1, <2>2
  <2>4. Secured(r, SessionRow(s), "update")'
    <3>1. 2 \in DOMAIN want /\ update \in want[2]
      BY <2>2
    <3> QED
      BY <1>6, <2>3, <3>1
  <2>5. sessions[s].reason = "live" /\ ~ tokens[t].consumed /\ ~ tokens[t].revoked
    BY <1>14 DEF ValidFamily
  <2>6. RefreshOK(r)'
    BY <1>1, <1>2, <1>4, <1>11, <2>3, <2>4, <2>5 DEF RefreshOK, Session, FamilyReasons
  <2>7. IdleOK(r)' /\ FamilyOK(r)' /\ UserOK(r)' /\ CommitOK(r)'
    BY <2>3 DEF IdleOK, FamilyOK, UserOK, CommitOK
  <2>8. RoomOK'
    <3>1. PICK F : F = {q \in Requests : requests[q].op = "refresh"}
      OBVIOUS
    <3>2. PICK G : G = Refreshing'
      OBVIOUS
    <3>3. IsFiniteSet(F)
      <4>1. IsFiniteSet(Requests) /\ F \in SUBSET Requests
        BY <3>1, AuthAssumption, FS_Interval DEF Requests
      <4> QED
        BY <4>1, FS_Subset
    <3>4. G = F \union {r}
      BY <2>3, <3>1, <3>2 DEF Refreshing, Others
    <3>5. Cardinality(G) <= Cardinality(F) + 1 /\ Cardinality(F) \in Nat /\ Cardinality(G) \in Nat
      <4>1. Cardinality(F) \in Nat
        BY <3>3, FS_CardinalityType
      <4>2. Cardinality(G) = IF r \in F THEN Cardinality(F) ELSE Cardinality(F) + 1
        BY <3>3, <3>4, FS_AddElement
      <4> QED
        BY <4>1, <4>2
    <3>6. Len(tokens) + Cardinality(F) < MaxTokens /\ Len(tokens) \in Nat
      BY <1>1, <3>1 DEF RoomForToken, AuthInv, Types
    <3>7. Len(tokens) + Cardinality(G) <= MaxTokens
      BY <3>5, <3>6, AuthAssumption
    <3> QED
      BY <1>1, <3>2, <3>7 DEF RoomOK
  <2> QED
    BY <1>1, <1>10, <2>3, <2>6, <2>7, <2>8, QuietStep DEF RequestOK
<1> QED
  BY <1>13, <1>14

-----------------------------------------------------------------------------
(* Requests that go on to their last statements *)

LEMMA InRows ==
  ASSUME AuthInv
  PROVE  /\ \A s \in DOMAIN sessions : s \in Sessions /\ s \in Nat /\ sessions[s] \in Session
         /\ \A t \in DOMAIN tokens : t \in Tokens /\ t \in Nat /\ tokens[t] \in Token
         /\ DOMAIN sessions = 1 .. Len(sessions) /\ Len(sessions) \in Nat
         /\ DOMAIN tokens = 1 .. Len(tokens) /\ Len(tokens) \in Nat /\ Len(tokens) <= MaxTokens
<1>1. IsFiniteSet(Requests) /\ Refreshing \in SUBSET Requests
  BY AuthAssumption, FS_Interval DEF Requests, Refreshing
<1>2. Cardinality(Refreshing) \in Nat
  BY <1>1, FS_Subset, FS_CardinalityType
<1>3. Len(tokens) <= MaxTokens /\ Len(tokens) \in Nat
  BY <1>2, AuthAssumption DEF AuthInv, RoomOK, Types
<1> QED
  BY <1>3, AuthAssumption DEF AuthInv, Types, Sessions, Tokens

LEMMA FamilyFlushedStep ==
  ASSUME AuthInv, NEW r \in Requests, FamilyFlushed(r)
  PROVE  AuthInv'
<1>1. Reached(r, "family") /\ UNCHANGED <<users, sessions, tokens>> /\ requests[r].pc = "family"
  BY DEF FamilyFlushed, Reached
<1>2. PICK x \in FamilyRequest : x = requests[r]
  BY <1>1, Shapes DEF AuthInv
<1>3. CASE End(r)
  BY <1>1, <1>3, AbortedStep
<1>4. CASE ~ End(r)
  <2> DEFINE a == {Lock(TokenRow(t), "update") : t \in LiveTokens(x.session)}
             b == IF x.reason = "session_invalid" THEN {} ELSE {Lock(UserRow(x.user), "share")}
             request == [x EXCEPT !.pc = "revoked"]
  <2>1. Continue(r, request, a, b)
    BY <1>2, <1>4 DEF FamilyFlushed
  <2>2. a \in SUBSET LockRecord /\ b \in SUBSET LockRecord
    <3>1. \A t \in LiveTokens(x.session) : Lock(TokenRow(t), "update") \in LockRecord
      BY InRows, RowNames, Modality, LockRecords DEF LiveTokens
    <3>2. Lock(UserRow(x.user), "share") \in LockRecord
      BY RowNames, Modality, LockRecords DEF FamilyRequest
    <3> QED
      BY <3>1, <3>2
  <2>3. \A t \in LiveTokens(x.session) : Lock(TokenRow(t), "update") \in a
    OBVIOUS
  <2> HIDE DEF a, b
  <2>4. PICK want \in Seq(SUBSET LockRecord) : want = Statements(a, b)
    BY <2>2, Restatement
  <2>5. PICK y \in FamilyRequest : y = [request EXCEPT !.want = want]
    BY DEF FamilyRequest
  <2>8. requests' = [requests EXCEPT ![r] = y] /\ locks' = LocksWith(r)
    BY <2>1, <2>4, <2>5 DEF Continue
  <2>6. y.pc = "revoked" /\ y.op = x.op /\ y.session = x.session /\ y.saw = x.saw /\ y.want = want
    BY <2>5 DEF FamilyRequest
  <2> HIDE DEF request
  <2>7. /\ Others(r) /\ LocksOK' /\ requests'[r] = y
        /\ \A row, mode : <<row, r, mode>> \in locks' <=> Secured(r, row, mode)
        /\ \A row, mode : Secured(r, row, mode)' <=> Secured(r, row, mode) \/ Lock(row, mode) \in a \union b
    <3>1. Types /\ LocksOK /\ y \in FamilyRequest \union UserRequest /\ y.want = Statements(a, b)
      BY <2>4, <2>6 DEF AuthInv
    <3> QED
      BY ZenonT(60), <1>1, <2>2, <2>8, <3>1, LocksContinue
  <2>9. \A row, mode : Secured(r, row, mode) => Held(r, row, mode)'
    BY <2>7 DEF Held
  <2>10. FamilyOK(r)
    BY DEF AuthInv, RequestOK
  <2>11. FamilyOK(r)'
    BY <1>1, <1>2, <2>3, <2>6, <2>7, <2>9, <2>10 DEF FamilyOK, LiveTokens
  <2>12. IdleOK(r)' /\ RefreshOK(r)' /\ UserOK(r)' /\ CommitOK(r)'
    BY <2>6, <2>7 DEF IdleOK, RefreshOK, UserOK, CommitOK
  <2>13. RoomOK'
    BY <1>1, <1>2, <2>6, <2>7, <2>10, RoomKept DEF FamilyOK
  <2> QED
    BY <1>1, <2>7, <2>11, <2>12, <2>13, QuietStep DEF RequestOK
<1> QED
  BY <1>3, <1>4

\* More than one active administrator: one of them is not u.
LEMMA AnotherAdministrator ==
  ASSUME ~ LastAdministrator, NEW u
  PROVE  \E v \in ActiveAdministrators : v # u
<1> SUFFICES ASSUME \A v \in ActiveAdministrators : v = u PROVE FALSE
  OBVIOUS
<1>1. ActiveAdministrators \in SUBSET {u}
  OBVIOUS
<1>2. Cardinality(ActiveAdministrators) <= 1
  <2>1. IsFiniteSet({u}) /\ Cardinality({u}) = 1
    BY FS_Singleton
  <2> QED
    BY <1>1, <2>1, FS_Subset
<1> QED
  BY <1>2 DEF LastAdministrator

LEMMA UserLockedStep ==
  ASSUME AuthInv, NEW r \in Requests, UserLocked(r)
  PROVE  AuthInv'
<1>1. Reached(r, "user") /\ UNCHANGED <<users, sessions, tokens>> /\ requests[r].pc = "user" /\ ~ Refused(r)
  BY DEF UserLocked, Reached
<1>2. PICK x \in UserRequest : x = requests[r]
  BY <1>1, Shapes DEF AuthInv
<1> DEFINE a == IF x.op \in Expulsions THEN {Lock(SessionRow(s), "update") : s \in LiveSessions(x.target)} ELSE {}
           b == {Lock(UserRow(x.user), "share")}
           request == [x EXCEPT !.pc = "commit"]
<1>3. Continue(r, request, a, b)
  BY <1>2 DEF UserLocked
<1>4. a \in SUBSET LockRecord /\ b \in SUBSET LockRecord
  <2>1. \A s \in LiveSessions(x.target) : Lock(SessionRow(s), "update") \in LockRecord
    BY InRows, RowNames, Modality, LockRecords DEF LiveSessions
  <2>2. Lock(UserRow(x.user), "share") \in LockRecord
    BY RowNames, Modality, LockRecords DEF UserRequest
  <2> QED
    BY <2>1, <2>2
<1>5. /\ x.op \in Expulsions => \A s \in LiveSessions(x.target) : Lock(SessionRow(s), "update") \in a
      /\ x.op \notin Expulsions => a = {}
      /\ \A s : Lock(SessionRow(s), "update") \notin b
  BY RowNames, LockRecords
<1> HIDE DEF a, b
<1>6. PICK want \in Seq(SUBSET LockRecord) : want = Statements(a, b)
  BY <1>4, Restatement
<1>7. PICK y \in UserRequest : y = [request EXCEPT !.want = want]
  BY DEF UserRequest
<1>10. requests' = [requests EXCEPT ![r] = y] /\ locks' = LocksWith(r)
  BY <1>3, <1>6, <1>7 DEF Continue
<1>8. y.pc = "commit" /\ y.op = x.op /\ y.user = x.user /\ y.target = x.target /\ y.saw = x.saw /\ y.want = want
  BY <1>7 DEF UserRequest
<1> HIDE DEF request
<1>9. /\ Others(r) /\ LocksOK' /\ requests'[r] = y
      /\ \A row, mode : <<row, r, mode>> \in locks' <=> Secured(r, row, mode)
      /\ \A row, mode : Secured(r, row, mode)' <=> Secured(r, row, mode) \/ Lock(row, mode) \in a \union b
  <2>1. Types /\ LocksOK /\ y \in FamilyRequest \union UserRequest /\ y.want = Statements(a, b)
    BY <1>6, <1>8 DEF AuthInv
  <2> QED
    BY ZenonT(60), <1>1, <1>4, <1>10, <2>1, LocksContinue
<1>11. \A row, mode : Secured(r, row, mode) => Held(r, row, mode)'
  BY <1>9 DEF Held
<1>12. UserOK(r)
  BY DEF AuthInv, RequestOK
<1>13. UserOK(r)'
  BY <1>1, <1>2, <1>8, <1>9, <1>12 DEF UserOK
<1>14. /\ Held(r, UserRow(x.target), "exclusive")' /\ (x.op \in Guarded => Held(r, AdminLock, "exclusive")')
       /\ x.op \in Expulsions => \A s \in LiveSessions(x.target) : Secured(r, SessionRow(s), "update")'
       /\ x.op \notin Expulsions => \A s \in Sessions : ~ Secured(r, SessionRow(s), "update")'
  BY <1>1, <1>2, <1>5, <1>9, <1>11, <1>12 DEF UserOK
<1>15. PICK user : user = Loaded(r)
  OBVIOUS
<1>16. /\ user = IF x.user = x.target /\ x.op # "bootstrap" THEN x.saw ELSE users[x.target]
       /\ x.op \notin {"bootstrap", "create_user"} => user.exists
       /\ x.op \in {"bootstrap", "create_user"} => ~ user.exists
       /\ x.op = "disable_user" /\ user.admin => ~ LastAdministrator
       /\ x.op = "remove_role" /\ user.active => ~ LastAdministrator
       /\ x.op \in Expulsions => user.row = users[x.target].row
  BY <1>1, <1>2, <1>15 DEF Refused, Loaded, Fresh
<1>17. /\ x.op \in Own => x.user = x.target
       /\ x.op # "bootstrap" => x.saw.exists /\ x.saw.active
       /\ x.op \notin Own \union {"bootstrap"} => x.saw.admin
       /\ x.saw.exists => users[x.user].exists
       /\ x.saw.row = users[x.user].row => x.saw.password = users[x.user].password
  BY <1>1, <1>2, <1>12 DEF UserOK
<1>18. users[x.target].exists <=> x.op \notin {"bootstrap", "create_user"}
  BY <1>16, <1>17
<1>19. x.op = "disable_user" /\ users[x.target].admin => \E u \in ActiveAdministrators : u # x.target
  <2> SUFFICES ASSUME x.op = "disable_user", users[x.target].admin
               PROVE  \E u \in ActiveAdministrators : u # x.target
    OBVIOUS
  <2>1. ~ LastAdministrator
    BY <1>16, <1>17 DEF Own
  <2>2. PICK t : t = x.target
    OBVIOUS
  <2>3. \E v \in ActiveAdministrators : v # t
    BY <2>1, AnotherAdministrator
  <2> QED
    BY <2>2, <2>3
<1>20. x.op = "remove_role" /\ users[x.target].active => \E u \in ActiveAdministrators : u # x.target
  <2> SUFFICES ASSUME x.op = "remove_role", users[x.target].active
               PROVE  \E u \in ActiveAdministrators : u # x.target
    OBVIOUS
  <2>1. ~ LastAdministrator
    BY <1>16, <1>17 DEF Own
  <2>2. PICK t : t = x.target
    OBVIOUS
  <2>3. \E v \in ActiveAdministrators : v # t
    BY <2>1, AnotherAdministrator
  <2> QED
    BY <2>2, <2>3
<1>21. x.op = "change_password" => x.saw.password = users[x.target].password
  BY <1>16, <1>17 DEF Own, Expulsions
<1>22. CommitOK(r)'
  BY <1>1, <1>8, <1>9, <1>14, <1>18, <1>19, <1>20, <1>21 DEF CommitOK, LiveSessions, ActiveAdministrators
<1>23. IdleOK(r)' /\ RefreshOK(r)' /\ FamilyOK(r)'
  BY <1>8, <1>9 DEF IdleOK, RefreshOK, FamilyOK
<1>24. RoomOK'
  BY <1>1, <1>2, <1>8, <1>9, RoomKept
<1> QED
  BY <1>1, <1>9, <1>13, <1>22, <1>23, <1>24, QuietStep DEF RequestOK

-----------------------------------------------------------------------------
(* Steps that write rows *)

\* Sessions keep their user and auth_version, do not come back to life, and raise
\* their version when their family is revoked.
SessionsEvolve ==
  /\ sessions' \in Seq(Session) /\ Len(sessions') <= MaxSessions /\ DOMAIN sessions \subseteq DOMAIN sessions'
  /\ \A s \in DOMAIN sessions :
       /\ sessions'[s].user = sessions[s].user /\ sessions'[s].auth = sessions[s].auth
       /\ sessions'[s].reason = "live" => sessions[s].reason = "live"
       /\ sessions[s].row <= sessions'[s].row
       /\ sessions[s].row = sessions'[s].row /\ sessions'[s].reason \in FamilyReasons =>
            sessions[s].reason \in FamilyReasons

\* Users stay, and raise their version with their password.
UsersEvolve ==
  /\ users' \in [Users -> User]
  /\ \A u \in Users :
       /\ users[u].exists => users'[u].exists
       /\ users[u].row <= users'[u].row
       /\ users[u].row = users'[u].row => users[u].password = users'[u].password

LEMMA StillOK ==
  ASSUME AuthInv, NEW q \in Requests, NEW x, requests[q] = x, requests'[q] = x, IdleOK(q)',
         \A row, mode : (Held(q, row, mode)' <=> Held(q, row, mode)),
         \A row, mode : (Secured(q, row, mode)' <=> Secured(q, row, mode)),
         SessionsEvolve, UsersEvolve,
         x.pc = "refreshed" => x.token \in DOMAIN tokens' /\ tokens'[x.token] = tokens[x.token],
         x.pc = "revoked" /\ x.saw.reason = "live" => LiveTokens(x.session)' \subseteq LiveTokens(x.session),
         x.pc = "commit" => /\ users'[x.target].exists = users[x.target].exists
                            /\ users'[x.target].admin = users[x.target].admin
                            /\ users'[x.target].active = users[x.target].active
                            /\ users'[x.target].password = users[x.target].password
                            /\ LiveSessions(x.target)' \subseteq LiveSessions(x.target)
                            /\ x.op \in Guarded =>
                                 \A u \in ActiveAdministrators : u # x.target => u \in ActiveAdministrators'
  PROVE  RequestOK(q)'
<1>1. RequestOK(q) /\ Types
  BY DEF AuthInv
<1>2. RefreshOK(q)'
  <2> SUFFICES ASSUME x.pc = "refreshed" PROVE RefreshOK(q)'
    BY DEF RefreshOK
  <2>1. x \in FamilyRequest /\ x.saw \in Session
    BY <1>1, Shapes DEF FamilyRequest
  <2>2. RefreshOK(q) /\ x.session \in DOMAIN sessions /\ sessions[x.session] \in Session
        /\ x.session \in DOMAIN sessions' /\ sessions'[x.session] \in Session
    BY <1>1, InRows DEF RequestOK, RefreshOK, SessionsEvolve
  <2>3. /\ x.saw.row <= sessions'[x.session].row
        /\ x.saw.row = sessions'[x.session].row => sessions'[x.session].reason \notin FamilyReasons
    BY <2>1, <2>2 DEF RefreshOK, SessionsEvolve, Session
  <2> QED
    BY <2>2, <2>3 DEF RefreshOK
<1>3. FamilyOK(q)'
  BY <1>1 DEF RequestOK, FamilyOK, SessionsEvolve
<1>4. UserOK(q)'
  <2> SUFFICES ASSUME x.pc \in {"user", "commit"} PROVE UserOK(q)'
    BY DEF UserOK
  <2>1. x \in UserRequest /\ x.saw \in User /\ x.user \in Users /\ users[x.user] \in User /\ users'[x.user] \in User
    BY <1>1, Shapes DEF UserRequest, Types, UsersEvolve
  <2>2. /\ x.saw.exists => users'[x.user].exists
        /\ x.saw.row <= users'[x.user].row
        /\ x.saw.row = users'[x.user].row => x.saw.password = users'[x.user].password
    <3>1. /\ x.saw.exists => users[x.user].exists
          /\ x.saw.row <= users[x.user].row
          /\ x.saw.row = users[x.user].row => x.saw.password = users[x.user].password
      BY <1>1 DEF RequestOK, UserOK
    <3>2. /\ users[x.user].exists => users'[x.user].exists
          /\ users[x.user].row <= users'[x.user].row
          /\ users[x.user].row = users'[x.user].row => users[x.user].password = users'[x.user].password
      BY <2>1 DEF UsersEvolve
    <3>3. x.saw.row \in Nat /\ users[x.user].row \in Nat /\ users'[x.user].row \in Nat
      BY <2>1 DEF User
    <3> QED
      BY <3>1, <3>2, <3>3
  <2> QED
    BY <1>1, <2>2 DEF RequestOK, UserOK
<1>5. CommitOK(q)'
  BY <1>1 DEF RequestOK, CommitOK, Guarded
<1> QED
  BY <1>2, <1>3, <1>4, <1>5 DEF RequestOK

LEMMA OthersStillOK ==
  ASSUME AuthInv, NEW r \in Requests, Others(r), SessionsEvolve, UsersEvolve,
         NEW q \in Requests, q # r, NEW x, requests[q] = x,
         x.pc = "refreshed" => x.token \in DOMAIN tokens' /\ tokens'[x.token] = tokens[x.token],
         x.pc = "revoked" /\ x.saw.reason = "live" => LiveTokens(x.session)' \subseteq LiveTokens(x.session),
         x.pc = "commit" => /\ users'[x.target].exists = users[x.target].exists
                            /\ users'[x.target].admin = users[x.target].admin
                            /\ users'[x.target].active = users[x.target].active
                            /\ users'[x.target].password = users[x.target].password
                            /\ LiveSessions(x.target)' \subseteq LiveSessions(x.target)
                            /\ x.op \in Guarded =>
                                 \A u \in ActiveAdministrators : u # x.target => u \in ActiveAdministrators'
  PROVE  RequestOK(q)'
<1>1. /\ requests'[q] = x
      /\ \A row, mode : (Held(q, row, mode)' <=> Held(q, row, mode))
      /\ \A row, mode : (Secured(q, row, mode)' <=> Secured(q, row, mode))
  BY OthersLocks
<1>2. IdleOK(q)'
  BY OthersIdle DEF AuthInv, RequestOK
<1> QED
  BY <1>1, <1>2, StillOK

LEMMA TimePassesStep ==
  ASSUME AuthInv, NEW s, TimePasses(s)
  PROVE  AuthInv'
<1>1. s \in DOMAIN sessions /\ sessions[s] \in Session /\ UNCHANGED <<users, tokens, requests, locks>>
  BY InRows DEF TimePasses
<1>2. PICK time \in {"idle", "over"} : sessions' = [sessions EXCEPT ![s].time = time]
  BY DEF TimePasses
<1>3. PICK e \in Session : e = [sessions[s] EXCEPT !.time = time]
  BY <1>1 DEF Session
<1>4. /\ e.user = sessions[s].user /\ e.auth = sessions[s].auth /\ e.reason = sessions[s].reason
      /\ e.row = sessions[s].row
  BY <1>1, <1>3 DEF Session
<1>5. sessions' = [sessions EXCEPT ![s] = e]
  BY <1>2, <1>3
<1>6. /\ sessions' \in Seq(Session) /\ Len(sessions') = Len(sessions) /\ DOMAIN sessions' = DOMAIN sessions
      /\ \A z \in DOMAIN sessions :
           /\ sessions'[z].user = sessions[z].user /\ sessions'[z].auth = sessions[z].auth
           /\ sessions'[z].reason = sessions[z].reason /\ sessions'[z].row = sessions[z].row
  <2>1. sessions' \in Seq(Session) /\ Len(sessions') = Len(sessions) /\ DOMAIN sessions' = DOMAIN sessions
    BY <1>1, <1>5 DEF AuthInv, Types
  <2> QED
    BY <1>4, <1>5, <2>1
<1>7. SessionsEvolve
  BY SMTT(30), <1>6, InRows DEF SessionsEvolve, AuthInv, Types, Session
<1>8. UsersEvolve
  BY <1>1 DEF UsersEvolve, AuthInv, Types, User
<1>9. ASSUME NEW q \in Requests PROVE RequestOK(q)'
  <2>1. PICK x : x = requests[q]
    OBVIOUS
  <2>2. RequestOK(q)
    BY DEF AuthInv
  <2>3. IdleOK(q)' /\ (x.pc = "refreshed" => x.token \in DOMAIN tokens)
    BY <1>1, <2>1, <2>2 DEF RequestOK, IdleOK, RefreshOK
  <2>4. /\ \A row, mode : (Held(q, row, mode)' <=> Held(q, row, mode))
        /\ \A row, mode : (Secured(q, row, mode)' <=> Secured(q, row, mode))
    BY <1>1 DEF Held, Secured, Ahead
  <2>5. /\ \A z : LiveTokens(z)' = LiveTokens(z)
        /\ \A u : LiveSessions(u)' \subseteq LiveSessions(u)
        /\ ActiveAdministrators' = ActiveAdministrators
    BY <1>1, <1>6, InRows DEF LiveTokens, LiveSessions, ActiveAdministrators
  <2> QED
    BY <1>1, <1>7, <1>8, <2>1, <2>3, <2>4, <2>5, StillOK
<1>10. Types' /\ LocksOK' /\ RoomOK'
  BY <1>1, <1>6 DEF AuthInv, Types, LocksOK, Held, RoomOK, Refreshing
<1>11. RowsOK'
  BY <1>1, <1>6 DEF AuthInv, RowsOK, ExistsOK, ReferenceOK, ChainOK, RevokedOK, LiveSessionIsCurrent,
       AdministratorRemains, ActiveAdministrators
<1> QED
  BY <1>9, <1>10, <1>11 DEF AuthInv

LEMMA LoginStep ==
  ASSUME AuthInv, NEW r \in Requests, NEW u \in Users, Login(r, u)
  PROVE  AuthInv'
<1> DEFINE session == [user |-> u, auth |-> users[u].auth, row |-> 1, time |-> "fresh", reason |-> "live"]
           token == [session |-> Len(sessions) + 1, consumed |-> FALSE, revoked |-> FALSE]
           user == Touched(users[u])
<1>1. /\ Unused(r) /\ Free(r, Lock(UserRow(u), "exclusive")) /\ Len(sessions) < MaxSessions /\ RoomForToken
      /\ users[u].active /\ sessions' = Append(sessions, session) /\ tokens' = Append(tokens, token)
      /\ users' = [users EXCEPT ![u] = user] /\ End(r)
  BY DEF Login
<1>2. users[u] \in User
  BY DEF AuthInv, Types
<1>3. /\ user \in User /\ user.exists = users[u].exists /\ user.active = users[u].active
      /\ user.admin = users[u].admin /\ user.auth = users[u].auth /\ user.password = users[u].password
      /\ user.row = users[u].row + 1
  BY <1>2 DEF Touched, User
<1>4. session \in Session /\ session.user = u /\ session.auth = users[u].auth /\ session.reason = "live"
  BY <1>2 DEF Session, User
<1>5. token \in Token /\ token.session = Len(sessions) + 1 /\ ~ token.consumed /\ ~ token.revoked
  BY <1>1, InRows, AuthAssumption DEF Token, Sessions
<1> HIDE DEF session, token, user
<1>6. /\ sessions' \in Seq(Session) /\ Len(sessions') = Len(sessions) + 1
      /\ DOMAIN sessions' = 1 .. Len(sessions) + 1
      /\ (\A s \in DOMAIN sessions : sessions'[s] = sessions[s]) /\ sessions'[Len(sessions) + 1] = session
  BY <1>1, <1>4 DEF AuthInv, Types
<1>7. /\ tokens' \in Seq(Token) /\ Len(tokens') = Len(tokens) + 1 /\ DOMAIN tokens' = 1 .. Len(tokens) + 1
      /\ (\A t \in DOMAIN tokens : tokens'[t] = tokens[t]) /\ tokens'[Len(tokens) + 1] = token
  BY <1>1, <1>5 DEF AuthInv, Types
<1>8. /\ users' \in [Users -> User] /\ users'[u] = user /\ \A v \in Users : v # u => users'[v] = users[v]
  BY <1>1, <1>3 DEF AuthInv, Types
<1>9. /\ DOMAIN sessions = 1 .. Len(sessions) /\ Len(sessions) \in Nat /\ Len(sessions) + 1 <= MaxSessions
      /\ DOMAIN tokens = 1 .. Len(tokens) /\ Len(tokens) \in Nat
  <2>1. sessions \in Seq(Session) /\ tokens \in Seq(Token) /\ Len(sessions) < MaxSessions
    BY <1>1 DEF AuthInv, Types
  <2> QED
    BY <2>1, AuthAssumption
<1>10. Others(r) /\ LocksOK' /\ requests'[r] = Idle /\ \A l \in locks' : l[2] # r
  BY <1>1, LocksEnd DEF AuthInv
<1>11. RequestOK(r)' /\ requests'[r].op = "none"
  BY <1>10, EndedOK
<1>12. SessionsEvolve
  BY <1>6, <1>9, InRows DEF SessionsEvolve, Session
<1>13. UsersEvolve
  <2>1. users[u].row \in Nat /\ \A v \in Users : users[v].row \in Nat
    BY DEF AuthInv, Types, User
  <2> QED
    BY <1>3, <1>8, <2>1 DEF UsersEvolve
<1>14. ActiveAdministrators' = ActiveAdministrators
  BY <1>3, <1>8 DEF ActiveAdministrators
<1>15. \A s \in DOMAIN sessions : LiveTokens(s)' \subseteq LiveTokens(s)
  <2>1. Len(sessions) + 1 \notin DOMAIN sessions
    BY <1>9
  <2> QED
    BY <1>5, <1>7, <1>9, <2>1 DEF LiveTokens
<1>16. \A v \in Users : v # u => LiveSessions(v)' \subseteq LiveSessions(v)
  BY <1>4, <1>6, <1>9 DEF LiveSessions
<1>17. ASSUME NEW q \in Requests, q # r PROVE RequestOK(q)'
  <2>1. PICK x : x = requests[q]
    OBVIOUS
  <2>2. RequestOK(q) /\ Types
    BY DEF AuthInv
  <2>3. x.pc = "refreshed" => x.token \in DOMAIN tokens' /\ tokens'[x.token] = tokens[x.token]
    BY <1>7, <1>9, <2>1, <2>2 DEF RequestOK, RefreshOK
  <2>4. x.pc = "revoked" => LiveTokens(x.session)' \subseteq LiveTokens(x.session)
    BY <1>15, <2>1, <2>2 DEF RequestOK, FamilyOK
  <2>5. ASSUME x.pc = "commit" PROVE x.target \in Users /\ x.target # u
    <3>1. x.target \in Users /\ Held(q, UserRow(x.target), "exclusive")
      BY <2>1, <2>2, <2>5, Shapes DEF RequestOK, CommitOK, UserRequest
    <3>2. SUFFICES ASSUME x.target = u PROVE FALSE
      BY <3>1
    <3>3. <<UserRow(u), q, "exclusive">> \in Against(r, Lock(UserRow(u), "exclusive"))
      BY <1>17, <3>1, <3>2, LockRecords, Modality DEF Against, Held
    <3> QED
      BY <1>1, <3>3 DEF Free
  <2>6. x.pc = "commit" => users'[x.target] = users[x.target] /\ LiveSessions(x.target)' \subseteq LiveSessions(x.target)
    BY <1>8, <1>16, <2>5
  <2> QED
    BY <1>10, <1>12, <1>13, <1>14, <1>17, <2>1, <2>3, <2>4, <2>6, OthersStillOK
<1>18. Types'
  BY <1>6, <1>7, <1>8, <1>9, <1>10 DEF Types, Others
<1>19. RoomOK'
  <2>1. Refreshing' \subseteq Refreshing
    BY <1>10, <1>11 DEF Refreshing, Others
  <2>2. PICK F : F = Refreshing'
    OBVIOUS
  <2>3. IsFiniteSet(Refreshing) /\ F \in SUBSET Refreshing
    <3>1. IsFiniteSet(Requests) /\ Refreshing \in SUBSET Requests
      BY AuthAssumption, FS_Interval DEF Requests, Refreshing
    <3> QED
      BY <2>1, <2>2, <3>1, FS_Subset
  <2>4. Cardinality(F) <= Cardinality(Refreshing) /\ Cardinality(F) \in Nat /\ Cardinality(Refreshing) \in Nat
    BY <2>3, FS_Subset, FS_CardinalityType
  <2>5. Len(tokens) + Cardinality(Refreshing) < MaxTokens
    BY <1>1 DEF RoomForToken, Refreshing
  <2>6. Len(tokens) + 1 + Cardinality(F) <= MaxTokens
    BY <1>9, <2>4, <2>5, AuthAssumption
  <2> QED
    BY <1>7, <2>2, <2>6 DEF RoomOK
<1>20. LiveSessionIsCurrent'
  <2>1. LiveSessionIsCurrent
    BY DEF AuthInv, RowsOK
  <2>2. \A v \in Users : users'[v].active = users[v].active /\ users'[v].auth = users[v].auth
    BY <1>3, <1>8
  <2>3. \A s \in DOMAIN sessions : sessions[s].user \in Users
    BY InRows DEF Session
  <2> QED
    BY <1>1, <1>4, <1>6, <1>9, <2>1, <2>2, <2>3 DEF LiveSessionIsCurrent
<1>21. ExistsOK' /\ AdministratorRemains'
  <2>1. ExistsOK /\ AdministratorRemains
    BY DEF AuthInv, RowsOK
  <2>2. users[u].exists
    BY <1>1, <2>1 DEF ExistsOK
  <2>3. ExistsOK'
    BY <1>3, <1>8, <2>1, <2>2 DEF ExistsOK
  <2>4. AdministratorRemains'
    BY <1>14, <2>1, <2>2 DEF AdministratorRemains
  <2> QED
    BY <2>3, <2>4
<1>22. ReferenceOK' /\ ChainOK' /\ RevokedOK'
  <2>1. ReferenceOK /\ ChainOK /\ RevokedOK
    BY DEF AuthInv, RowsOK
  <2>2. \A t \in DOMAIN tokens' : t = Len(tokens) + 1 \/ t \in DOMAIN tokens
    BY <1>7, <1>9
  <2>3. \A t \in DOMAIN tokens : tokens[t].session \in DOMAIN sessions /\ tokens[t].session # Len(sessions) + 1
    BY <1>9, <2>1 DEF ReferenceOK
  <2>4. ReferenceOK'
    BY <1>5, <1>6, <1>7, <1>9, <2>2, <2>3 DEF ReferenceOK
  <2>5. ChainOK'
    BY <1>5, <1>7, <2>1, <2>2, <2>3 DEF ChainOK
  <2>6. RevokedOK'
    BY <1>4, <1>5, <1>6, <1>7, <2>1, <2>2, <2>3 DEF RevokedOK, FamilyReasons
  <2> QED
    BY <2>4, <2>5, <2>6
<1> QED
  BY <1>10, <1>11, <1>17, <1>18, <1>19, <1>20, <1>21, <1>22 DEF AuthInv, RowsOK

LEMMA RefreshCommitsStep ==
  ASSUME AuthInv, NEW r \in Requests, RefreshCommits(r)
  PROVE  AuthInv'
<1>1. Reached(r, "refreshed") /\ End(r) /\ users' = users /\ requests[r].pc = "refreshed"
  BY DEF RefreshCommits, Reached
<1>2. PICK x \in FamilyRequest : x = requests[r]
  BY <1>1, Shapes DEF AuthInv
<1>3. CASE ~ Fresh(x.saw, sessions[x.session])
  BY <1>1, <1>2, <1>3, AbortedStep DEF RefreshCommits
<1>4. CASE Fresh(x.saw, sessions[x.session])
  <2>1. PICK s : s = x.session
    OBVIOUS
  <2>2. PICK t : t = x.token
    OBVIOUS
  <2>3. RefreshOK(r) /\ Types /\ LocksOK
    BY DEF AuthInv, RequestOK
  <2>4. /\ s \in DOMAIN sessions /\ t \in DOMAIN tokens /\ tokens[t].session = s
        /\ Held(r, TokenRow(t), "exclusive") /\ Secured(r, SessionRow(s), "update")
        /\ ~ tokens[t].consumed /\ ~ tokens[t].revoked
        /\ sessions[s].reason \notin FamilyReasons /\ x.op = "refresh"
    BY <1>1, <1>2, <1>4, <2>1, <2>2, <2>3 DEF RefreshOK, Fresh
  <2>5. s \in Sessions /\ sessions[s] \in Session /\ tokens[t] \in Token /\ t \in Tokens
    BY <2>4, InRows
  <2> DEFINE parent == [tokens[t] EXCEPT !.consumed = TRUE]
             token == [session |-> s, consumed |-> FALSE, revoked |-> FALSE]
             session == Prolonged(sessions[s])
             marked == [tokens EXCEPT ![t] = parent]
  <2>6. tokens' = Append(marked, token) /\ sessions' = [sessions EXCEPT ![s] = session]
    BY <1>2, <1>4, <2>1, <2>2 DEF RefreshCommits
  <2>7. parent \in Token /\ parent.session = s /\ parent.consumed /\ ~ parent.revoked
    BY <2>4, <2>5 DEF Token
  <2>8. token \in Token /\ token.session = s /\ ~ token.consumed /\ ~ token.revoked
    BY <2>5 DEF Token
  <2>9. /\ session \in Session /\ session.user = sessions[s].user /\ session.auth = sessions[s].auth
        /\ session.reason = sessions[s].reason /\ session.row = sessions[s].row + 1
    <3>1. PICK time \in {"fresh", "idle", "over"} : session = [sessions[s] EXCEPT !.row = @ + 1, !.time = time]
      BY <2>5 DEF Session, Prolonged
    <3>2. sessions[s].row \in Nat /\ sessions[s].row + 1 \in Nat
      BY <2>5 DEF Session
    <3> HIDE DEF session
    <3> QED
      BY <2>5, <3>1, <3>2 DEF Session
  <2> HIDE DEF parent, token, session
  <2>10. /\ DOMAIN sessions = 1 .. Len(sessions) /\ Len(sessions) \in Nat
         /\ DOMAIN tokens = 1 .. Len(tokens) /\ Len(tokens) \in Nat
    BY InRows
  <2>11. /\ marked \in Seq(Token) /\ Len(marked) = Len(tokens) /\ marked[t] = parent
         /\ \A z \in DOMAIN tokens : z # t => marked[z] = tokens[z]
    BY <2>3, <2>4, <2>7 DEF Types
  <2> HIDE DEF marked
  <2>12. /\ tokens' \in Seq(Token) /\ Len(tokens') = Len(tokens) + 1 /\ DOMAIN tokens' = 1 .. Len(tokens) + 1
         /\ tokens'[Len(tokens) + 1] = token /\ tokens'[t] = parent
         /\ \A z \in DOMAIN tokens : z # t => tokens'[z] = tokens[z]
    <3>1. /\ Append(marked, token) \in Seq(Token) /\ Len(Append(marked, token)) = Len(marked) + 1
          /\ Append(marked, token)[Len(marked) + 1] = token
          /\ \A z \in 1 .. Len(marked) : Append(marked, token)[z] = marked[z]
          /\ DOMAIN Append(marked, token) = 1 .. Len(marked) + 1
      BY <2>8, <2>11
    <3> QED
      BY <2>4, <2>6, <2>10, <2>11, <3>1
  <2>13. /\ sessions' \in Seq(Session) /\ Len(sessions') = Len(sessions) /\ DOMAIN sessions' = DOMAIN sessions
         /\ sessions'[s] = session /\ \A z \in DOMAIN sessions : z # s => sessions'[z] = sessions[z]
    BY <2>3, <2>4, <2>6, <2>9 DEF Types
  <2>14. Others(r) /\ LocksOK' /\ requests'[r] = Idle /\ \A l \in locks' : l[2] # r
    BY <1>1, <2>3, LocksEnd
  <2>15. RequestOK(r)' /\ requests'[r].op = "none"
    BY <2>14, EndedOK
  <2>16. SessionsEvolve
    <3>1. \A z \in DOMAIN sessions : sessions[z].row \in Nat
      BY InRows DEF Session
    <3>2. \A z \in DOMAIN sessions : z \in DOMAIN sessions' /\ sessions'[z].row >= sessions[z].row
      BY <2>4, <2>9, <2>13, <3>1
    <3> QED
      BY <2>3, <2>4, <2>9, <2>13, <3>1, <3>2 DEF SessionsEvolve, Types
  <2>17. UsersEvolve
    BY <1>1, <2>3 DEF UsersEvolve, Types, User
  <2>18. \A row \in Rows, q \in Requests, m, n \in Modes :
           Held(q, row, m) /\ q # r /\ Secured(r, row, n) => ~ Conflict(m, n)
    BY <1>1, <2>3, LocksAt
  <2>19. TokenRow(t) \in Rows /\ SessionRow(s) \in Rows /\ "update" \in Modes /\ "exclusive" \in Modes
    BY <2>5, RowNames, Modality
  <2>20. ASSUME NEW q \in Requests, q # r PROVE RequestOK(q)'
    <3>1. PICK y : y = requests[q]
      OBVIOUS
    <3>2. RequestOK(q)
      BY DEF AuthInv
    <3>3. ASSUME y.pc = "refreshed" PROVE y.token \in DOMAIN tokens' /\ tokens'[y.token] = tokens[y.token]
      <4>1. y.token \in DOMAIN tokens /\ Held(q, TokenRow(y.token), "exclusive")
        BY <3>1, <3>2, <3>3 DEF RequestOK, RefreshOK
      <4>2. y.token # t
        BY <2>3, <2>4, <2>19, <2>20, <4>1, Modality DEF LocksOK
      <4> QED
        BY <2>10, <2>12, <4>1, <4>2
    <3>4. ASSUME y.pc = "revoked", y.saw.reason = "live"
          PROVE  LiveTokens(y.session)' \subseteq LiveTokens(y.session)
      <4>1. Held(q, SessionRow(y.session), "update") \/ Held(q, SessionRow(y.session), "exclusive")
        BY <3>1, <3>2, <3>4 DEF RequestOK, FamilyOK
      <4>2. y.session # s
        BY <2>4, <2>18, <2>19, <2>20, <4>1, Modality
      <4> QED
        BY <2>4, <2>7, <2>8, <2>10, <2>12, <4>2 DEF LiveTokens
    <3>5. /\ \A u : LiveSessions(u)' \subseteq LiveSessions(u)
          /\ ActiveAdministrators' = ActiveAdministrators
      BY <1>1, <2>4, <2>9, <2>10, <2>13 DEF LiveSessions, ActiveAdministrators
    <3> QED
      BY <1>1, <2>14, <2>16, <2>17, <2>20, <3>1, <3>3, <3>4, <3>5, OthersStillOK
  <2>21. Types'
    BY <1>1, <2>3, <2>12, <2>13, <2>14 DEF Types, Others
  <2>22. RoomOK'
    <3>1. PICK F : F = Refreshing'
      OBVIOUS
    <3>2. F = Refreshing \ {r} /\ r \in Refreshing
      BY <1>2, <2>4, <2>14, <2>15, <3>1 DEF Refreshing, Others
    <3>3. IsFiniteSet(Refreshing)
      <4>1. IsFiniteSet(Requests) /\ Refreshing \in SUBSET Requests
        BY AuthAssumption, FS_Interval DEF Requests, Refreshing
      <4> QED
        BY <4>1, FS_Subset
    <3>4. Cardinality(F) = Cardinality(Refreshing) - 1
      BY <3>2, <3>3, FS_RemoveElement
    <3>5. Cardinality(Refreshing) \in Nat
      BY <3>3, FS_CardinalityType
    <3>6. Len(tokens) + 1 + Cardinality(F) <= MaxTokens
      BY <2>10, <3>4, <3>5, AuthAssumption DEF AuthInv, RoomOK
    <3> QED
      BY <2>12, <3>1, <3>6 DEF RoomOK
  <2>23. ExistsOK' /\ AdministratorRemains' /\ LiveSessionIsCurrent'
    BY <1>1, <2>4, <2>9, <2>13 DEF AuthInv, RowsOK, ExistsOK, AdministratorRemains, ActiveAdministrators,
         LiveSessionIsCurrent
  <2>24. ReferenceOK' /\ ChainOK' /\ RevokedOK'
    <3>1. ReferenceOK /\ ChainOK /\ RevokedOK
      BY DEF AuthInv, RowsOK
    <3>2. \A z \in DOMAIN tokens' : z = Len(tokens) + 1 \/ z \in DOMAIN tokens
      BY <2>10, <2>12
    <3>3. ReferenceOK'
      BY <2>4, <2>7, <2>8, <2>12, <2>13, <3>1, <3>2 DEF ReferenceOK
    <3>4. \A z \in DOMAIN tokens : z # t /\ tokens[z].session = s => tokens[z].consumed \/ tokens[z].revoked
      BY <2>4, <3>1 DEF ChainOK
    <3>5. ChainOK'
      BY <2>4, <2>7, <2>8, <2>12, <3>1, <3>2, <3>4 DEF ChainOK
    <3>6. \A z \in DOMAIN sessions : sessions'[z].reason = sessions[z].reason
      BY <2>9, <2>13
    <3>7. RevokedOK'
      BY <2>4, <2>7, <2>8, <2>12, <3>1, <3>2, <3>6 DEF RevokedOK, ReferenceOK
    <3> QED
      BY <3>3, <3>5, <3>7
  <2> QED
    BY <2>14, <2>15, <2>20, <2>21, <2>22, <2>23, <2>24 DEF AuthInv, RowsOK
<1> QED
  BY <1>3, <1>4


LEMMA FamilyCommitsStep ==
  ASSUME AuthInv, NEW r \in Requests, FamilyCommits(r)
  PROVE  AuthInv'
<1>1. Reached(r, "revoked") /\ End(r) /\ users' = users /\ requests[r].pc = "revoked"
  BY DEF FamilyCommits, Reached
<1>2. PICK x \in FamilyRequest : x = requests[r]
  BY <1>1, Shapes DEF AuthInv
<1>3. PICK s : s = x.session
  OBVIOUS
<1>4. FamilyOK(r) /\ Types /\ LocksOK
  BY DEF AuthInv, RequestOK
<1>5. /\ s \in DOMAIN sessions /\ x.op = "revoke" /\ x.reason \in FamilyReasons
      /\ x.saw.reason = "live" => \A t \in LiveTokens(s) : Secured(r, TokenRow(t), "update")
  BY <1>1, <1>2, <1>3, <1>4 DEF FamilyOK, FamilyRequest
<1>6. sessions[s] \in Session
  BY <1>5, InRows
<1>7. PICK session \in Session : session = [sessions[s] EXCEPT !.row = @ + 1, !.reason = x.reason]
  <2>1. sessions[s].row \in Nat /\ sessions[s].row + 1 \in Nat
    BY <1>6 DEF Session
  <2> QED
    BY <1>5, <1>6, <2>1 DEF Session
<1>8. /\ session.user = sessions[s].user /\ session.auth = sessions[s].auth
      /\ session.row = sessions[s].row + 1 /\ session.reason = x.reason /\ x.reason # "live"
  BY <1>5, <1>6, <1>7 DEF Session, FamilyReasons
<1>9. /\ DOMAIN sessions = 1 .. Len(sessions) /\ Len(sessions) \in Nat
      /\ DOMAIN tokens = 1 .. Len(tokens) /\ Len(tokens) \in Nat
  BY InRows
<1>10. sessions' = IF x.saw.reason = "live" THEN [sessions EXCEPT ![s] = session] ELSE sessions
  <2>1. CASE x.saw.reason = "live"
    <3>1. sessions' = [sessions EXCEPT ![s] = Revoked(sessions[s], x.reason)]
      BY <1>2, <1>3, <2>1 DEF FamilyCommits
    <3> QED
      BY <1>7, <2>1, <3>1 DEF Revoked
  <2>2. CASE x.saw.reason # "live"
    BY <1>2, <2>2 DEF FamilyCommits
  <2> QED
    BY <2>1, <2>2
<1>11. /\ sessions' \in Seq(Session) /\ Len(sessions') = Len(sessions) /\ DOMAIN sessions' = DOMAIN sessions
       /\ x.saw.reason = "live" => sessions'[s] = session
       /\ x.saw.reason # "live" => sessions'[s] = sessions[s]
       /\ \A z \in DOMAIN sessions : z # s => sessions'[z] = sessions[z]
  BY <1>4, <1>5, <1>10 DEF Types
<1>12. PICK S : S = LockedTokens(r)
  OBVIOUS
<1>13. tokens' = [t \in 1 .. Len(tokens) |->
                    IF t \in S THEN [tokens[t] EXCEPT !.revoked = TRUE] ELSE tokens[t]]
  BY <1>12 DEF FamilyCommits
<1>14. \A t \in DOMAIN tokens :
         /\ [tokens[t] EXCEPT !.revoked = TRUE] \in Token /\ [tokens[t] EXCEPT !.revoked = TRUE].revoked
         /\ [tokens[t] EXCEPT !.revoked = TRUE].session = tokens[t].session
         /\ [tokens[t] EXCEPT !.revoked = TRUE].consumed = tokens[t].consumed
  BY InRows DEF Token
<1>15. /\ DOMAIN tokens' = 1 .. Len(tokens)
       /\ \A t \in DOMAIN tokens :
            /\ tokens'[t] \in Token
            /\ tokens'[t].session = tokens[t].session /\ tokens'[t].consumed = tokens[t].consumed
            /\ tokens[t].revoked => tokens'[t].revoked
            /\ t \in S => tokens'[t].revoked
            /\ t \notin S => tokens'[t] = tokens[t]
  BY <1>9, <1>13, <1>14, InRows
<1>16. tokens' \in Seq(Token) /\ Len(tokens') = Len(tokens)
  <2>1. tokens' \in [1 .. Len(tokens) -> Token]
    BY <1>9, <1>13, <1>15
  <2> QED
    BY <1>9, <2>1
<1>17. \A t \in DOMAIN tokens : t \in S <=> \E m \in Modes : Secured(r, TokenRow(t), m)
  BY <1>1, <1>4, <1>9, <1>12, LocksAt DEF LockedTokens
<1>18. \A row \in Rows, q \in Requests, m, n \in Modes :
         Held(q, row, m) /\ q # r /\ Secured(r, row, n) => ~ Conflict(m, n)
  BY <1>1, <1>4, LocksAt
<1>19. Others(r) /\ LocksOK' /\ requests'[r] = Idle /\ \A l \in locks' : l[2] # r
  BY <1>1, <1>4, LocksEnd
<1>20. RequestOK(r)' /\ requests'[r].op = "none"
  BY <1>19, EndedOK
<1>21. SessionsEvolve
  <2>1. \A z \in DOMAIN sessions : sessions[z].row \in Nat
    BY InRows DEF Session
  <2>2. \A z \in DOMAIN sessions : z \in DOMAIN sessions' /\ sessions'[z].row >= sessions[z].row
    BY <1>5, <1>8, <1>11, <2>1
  <2>3. CASE x.saw.reason = "live"
    BY SMTT(30), <1>4, <1>5, <1>8, <1>11, <2>1, <2>2, <2>3 DEF SessionsEvolve, Types
  <2>4. CASE x.saw.reason # "live"
    BY <1>4, <1>5, <1>11, <2>1, <2>2, <2>4 DEF SessionsEvolve, Types
  <2> QED
    BY <2>3, <2>4
<1>22. UsersEvolve
  BY <1>1, <1>4 DEF UsersEvolve, Types, User
<1>23. \A z : LiveTokens(z)' \subseteq LiveTokens(z)
  BY <1>9, <1>15, <1>16 DEF LiveTokens
<1>24. /\ \A u : LiveSessions(u)' \subseteq LiveSessions(u)
       /\ ActiveAdministrators' = ActiveAdministrators
  BY <1>1, <1>9, <1>11, <1>21 DEF LiveSessions, ActiveAdministrators, SessionsEvolve
<1>25. ASSUME NEW q \in Requests, q # r PROVE RequestOK(q)'
  <2>1. PICK y : y = requests[q]
    OBVIOUS
  <2>2. RequestOK(q)
    BY DEF AuthInv
  <2>3. ASSUME y.pc = "refreshed" PROVE y.token \in DOMAIN tokens' /\ tokens'[y.token] = tokens[y.token]
    <3>1. y.token \in DOMAIN tokens /\ Held(q, TokenRow(y.token), "exclusive")
      BY <2>1, <2>2, <2>3 DEF RequestOK, RefreshOK
    <3>2. TokenRow(y.token) \in Rows
      BY <3>1, InRows, RowNames
    <3>3. y.token \notin S
      BY <1>17, <1>18, <1>25, <3>1, <3>2, Modality
    <3> QED
      BY <1>9, <1>15, <3>1, <3>3
  <2> QED
    BY <1>1, <1>19, <1>21, <1>22, <1>23, <1>24, <1>25, <2>1, <2>3, OthersStillOK
<1>26. Types'
  BY <1>1, <1>4, <1>11, <1>16, <1>19 DEF Types, Others
<1>27. RoomOK'
  <2>1. PICK F : F = Refreshing'
    OBVIOUS
  <2>2. IsFiniteSet(Refreshing) /\ F \in SUBSET Refreshing
    <3>1. IsFiniteSet(Requests) /\ Refreshing \in SUBSET Requests
      BY AuthAssumption, FS_Interval DEF Requests, Refreshing
    <3>2. F \in SUBSET Refreshing
      BY <1>19, <1>20, <2>1 DEF Refreshing, Others
    <3> QED
      BY <3>1, <3>2, FS_Subset
  <2>3. Cardinality(F) <= Cardinality(Refreshing) /\ Cardinality(F) \in Nat /\ Cardinality(Refreshing) \in Nat
    BY <2>2, FS_Subset, FS_CardinalityType
  <2>4. Len(tokens) + Cardinality(F) <= MaxTokens
    BY <1>9, <2>3, AuthAssumption DEF AuthInv, RoomOK
  <2> QED
    BY <1>16, <2>1, <2>4 DEF RoomOK
<1>28. ExistsOK' /\ AdministratorRemains'
  BY <1>1 DEF AuthInv, RowsOK, ExistsOK, AdministratorRemains, ActiveAdministrators
<1>29. LiveSessionIsCurrent'
  BY <1>1, <1>11, <1>21 DEF AuthInv, RowsOK, LiveSessionIsCurrent, SessionsEvolve
<1>30. ReferenceOK' /\ ChainOK' /\ RevokedOK'
  <2>1. ReferenceOK /\ ChainOK /\ RevokedOK
    BY DEF AuthInv, RowsOK
  <2>2. ReferenceOK'
    BY <1>9, <1>11, <1>15, <2>1 DEF ReferenceOK
  <2>3. ChainOK'
    BY <1>9, <1>15, <2>1 DEF ChainOK
  <2>4. x.saw.reason = "live" =>
          \A t \in DOMAIN tokens : tokens[t].session = s => tokens[t].revoked \/ t \in S
    BY <1>5, <1>9, <1>17, Modality DEF LiveTokens
  <2>5. ASSUME NEW t \in DOMAIN tokens', sessions'[tokens'[t].session].reason \in FamilyReasons
        PROVE  tokens'[t].revoked
    <3>1. t \in DOMAIN tokens /\ tokens'[t].session = tokens[t].session /\ tokens[t].session \in DOMAIN sessions
      BY <1>9, <1>15, <2>1 DEF ReferenceOK
    <3>2. CASE x.saw.reason = "live" /\ tokens[t].session = s
      BY <1>15, <2>4, <3>1, <3>2
    <3>3. CASE x.saw.reason # "live" \/ tokens[t].session # s
      BY <1>11, <1>15, <2>1, <2>5, <3>1, <3>3 DEF RevokedOK
    <3> QED
      BY <3>2, <3>3
  <2> QED
    BY <2>2, <2>3, <2>5 DEF RevokedOK
<1> QED
  BY <1>19, <1>20, <1>25, <1>26, <1>27, <1>28, <1>29, <1>30 DEF AuthInv, RowsOK

\* The row an operation on a user writes: the user exists and raises its version with
\* its password, and what it keeps of the old row depends on the operation.
LEMMA WrittenRow ==
  ASSUME AuthInv, NEW r \in Requests, NEW x \in UserRequest, x = requests[r], x.pc = "commit",
         NEW user, user = users[x.target], NEW w, w = Written(r)
  PROVE  /\ w \in User /\ w.exists
         /\ user.row <= w.row /\ (user.row = w.row => user.password = w.password)
         /\ x.op # "disable_user" /\ user.active => w.active
         /\ x.op # "remove_role" /\ user.admin => w.admin
         /\ x.op \in {"assign_role", "remove_role"} => w.auth = user.auth
         /\ x.op = "bootstrap" => w.active /\ w.admin
         /\ x.op # "change_password" /\ user.exists => w.password = user.password
<1>1. /\ CommitOK(r) /\ ExistsOK /\ x.target \in Users /\ user \in User
  BY DEF AuthInv, RequestOK, RowsOK, UserRequest, Types
<1>2. /\ user.exists <=> x.op \notin {"bootstrap", "create_user"}
      /\ user.active \/ user.admin => user.exists
      /\ user.exists \/ user.row = 0
  BY <1>1 DEF CommitOK, ExistsOK
<1>3. PICK e : e = [Touched(user) EXCEPT !.auth = @ + 1]
  OBVIOUS
<1>4. /\ e \in User /\ e.exists = user.exists /\ e.active = user.active /\ e.admin = user.admin
      /\ e.row = user.row + 1 /\ e.password = user.password
  <2>1. PICK v : v = Touched(user)
    OBVIOUS
  <2>2. user.row \in Nat /\ user.row + 1 \in Nat
    BY <1>1 DEF User
  <2>3. /\ v \in User /\ v.exists = user.exists /\ v.active = user.active /\ v.admin = user.admin
        /\ v.row = user.row + 1 /\ v.password = user.password
    BY <1>1, <2>1, <2>2 DEF Touched, User
  <2>4. v.auth \in Nat /\ v.auth + 1 \in Nat /\ e = [v EXCEPT !.auth = @ + 1]
    BY <1>3, <2>1, <2>3 DEF User
  <2> QED
    BY <2>3, <2>4 DEF User
<1>5. user.row \in Nat /\ r \in 0 .. MaxRequests
  BY <1>1, AuthAssumption DEF User, Requests
<1>6. CASE x.op \in {"logout_all", "revoke_sessions"}
  <2>1. w = e
    BY <1>3, <1>6 DEF Written
  <2> QED
    BY <1>2, <1>4, <1>5, <1>6, <2>1
<1>7. CASE x.op = "change_password"
  <2>1. w = [e EXCEPT !.password = r]
    BY <1>3, <1>7 DEF Written
  <2>2. /\ w \in User /\ w.exists = e.exists /\ w.active = e.active /\ w.admin = e.admin /\ w.row = e.row
    BY <1>4, <1>5, <2>1 DEF User
  <2> QED
    BY <1>2, <1>4, <1>5, <1>7, <2>2
<1>8. CASE x.op = "disable_user"
  <2>1. w = [e EXCEPT !.active = FALSE]
    BY <1>3, <1>8 DEF Written
  <2>2. /\ w \in User /\ w.exists = e.exists /\ w.admin = e.admin /\ w.row = e.row /\ w.password = e.password
    BY <1>4, <2>1 DEF User
  <2> QED
    BY <1>2, <1>4, <1>5, <1>8, <2>2
<1>9. CASE x.op \in {"assign_role", "remove_role"}
  <2>1. PICK b \in BOOLEAN : w = [user EXCEPT !.admin = b] /\ (x.op = "assign_role" => b)
    BY <1>9 DEF Written
  <2>2. /\ w \in User /\ w.exists = user.exists /\ w.admin = b /\ w.active = user.active /\ w.row = user.row
        /\ w.password = user.password /\ w.auth = user.auth
    BY <1>1, <2>1 DEF User
  <2> QED
    BY <1>2, <1>5, <1>9, <2>1, <2>2
<1>10. CASE x.op \in {"create_user", "bootstrap"}
  <2>1. PICK b \in BOOLEAN : w = NewUser(b) /\ (x.op = "bootstrap" => b)
    BY <1>10 DEF Written
  <2>2. w \in User /\ w.exists /\ w.active /\ w.row = 1 /\ (x.op = "bootstrap" => w.admin)
    BY <2>1, AuthAssumption DEF NewUser, User
  <2> QED
    BY <1>2, <1>5, <1>10, <2>2
<1> QED
  BY <1>6, <1>7, <1>8, <1>9, <1>10 DEF UserRequest, Ops

\* The sessions an operation on a user leaves: those it revokes had been live, and none
\* of the user's is left if it is to expel the user.
LEMMA SessionsLeft ==
  ASSUME AuthInv, NEW r \in Requests, NEW x \in UserRequest, x = requests[r], Commit(r)
  PROVE  /\ sessions' \in Seq(Session) /\ Len(sessions') = Len(sessions) /\ DOMAIN sessions' = DOMAIN sessions
         /\ \A s \in DOMAIN sessions :
              /\ sessions'[s].user = sessions[s].user /\ sessions'[s].auth = sessions[s].auth
              /\ sessions'[s].row = sessions[s].row
              /\ sessions'[s].reason = sessions[s].reason \/ sessions'[s].reason \in BulkReasons
              /\ x.op \in Expulsions /\ sessions[s].user = x.target => sessions'[s].reason # "live"
<1>1. Reached(r, "commit") /\ x.pc = "commit" /\ Types /\ LocksOK /\ CommitOK(r)
  BY DEF Commit, Reached, AuthInv, RequestOK
<1>2. PICK S : S = LockedSessions(r)
  OBVIOUS
<1>3. PICK R : R = Reason(x.op)
  OBVIOUS
<1>4. DOMAIN sessions = 1 .. Len(sessions) /\ Len(sessions) \in Nat
  BY InRows
<1>5. sessions' = [s \in 1 .. Len(sessions) |->
                     IF s \in S /\ sessions[s].reason = "live"
                       THEN [sessions[s] EXCEPT !.reason = R] ELSE sessions[s]]
  BY <1>2, <1>3 DEF Commit
<1>6. \A s \in DOMAIN sessions : s \in S <=> Secured(r, SessionRow(s), "update")
  BY <1>1, <1>2, <1>4, LocksAt DEF LockedSessions
<1>7. x.op \in Expulsions => R \in BulkReasons
  BY <1>3 DEF Expulsions, Reason, BulkReasons
<1>8. x.op \notin Expulsions => \A s \in DOMAIN sessions : s \notin S
  BY <1>1, <1>6, InRows DEF CommitOK
<1>9. x.op \in Expulsions =>
        \A s \in DOMAIN sessions : sessions[s].user = x.target /\ sessions[s].reason = "live" => s \in S
  BY <1>1, <1>4, <1>6 DEF CommitOK, LiveSessions
<1>10. "live" \notin BulkReasons
  BY DEF BulkReasons
<1>11. ASSUME NEW s \in DOMAIN sessions
       PROVE  /\ sessions'[s] \in Session
              /\ sessions'[s].user = sessions[s].user /\ sessions'[s].auth = sessions[s].auth
              /\ sessions'[s].row = sessions[s].row
              /\ sessions'[s].reason = sessions[s].reason \/ sessions'[s].reason \in BulkReasons
              /\ x.op \in Expulsions /\ sessions[s].user = x.target => sessions'[s].reason # "live"
  <2>1. sessions[s] \in Session
    BY InRows
  <2>2. CASE s \in S /\ sessions[s].reason = "live"
    <3>1. x.op \in Expulsions /\ R \in BulkReasons
      BY <1>7, <1>8, <2>2
    <3>2. sessions'[s] = [sessions[s] EXCEPT !.reason = R]
      BY <1>4, <1>5, <2>2
    <3>3. /\ sessions'[s] \in Session /\ sessions'[s].user = sessions[s].user
          /\ sessions'[s].auth = sessions[s].auth /\ sessions'[s].row = sessions[s].row
          /\ sessions'[s].reason = R
      BY <2>1, <3>1, <3>2 DEF Session
    <3> QED
      BY <1>10, <3>1, <3>3
  <2>3. CASE ~ (s \in S /\ sessions[s].reason = "live")
    <3>1. sessions'[s] = sessions[s]
      BY <1>4, <1>5, <2>3
    <3> QED
      BY <1>9, <2>1, <2>3, <3>1
  <2> QED
    BY <2>2, <2>3
<1>12. sessions' \in Seq(Session) /\ Len(sessions') = Len(sessions) /\ DOMAIN sessions' = DOMAIN sessions
  <2>1. sessions' \in [1 .. Len(sessions) -> Session]
    BY <1>4, <1>5, <1>11
  <2> QED
    BY <1>4, <2>1
<1> QED
  BY <1>11, <1>12

LEMMA CommitStep ==
  ASSUME AuthInv, NEW r \in Requests, Commit(r)
  PROVE  AuthInv'
<1>1. Reached(r, "commit") /\ End(r) /\ tokens' = tokens /\ requests[r].pc = "commit"
  BY DEF Commit, Reached
<1>2. PICK x \in UserRequest : x = requests[r]
  BY <1>1, Shapes DEF AuthInv
<1>3. PICK w : w = Written(r)
  OBVIOUS
<1>4. PICK user : user = users[x.target]
  OBVIOUS
<1>5. Types /\ LocksOK /\ CommitOK(r) /\ UserOK(r) /\ ExistsOK /\ AdministratorRemains /\ LiveSessionIsCurrent
  BY DEF AuthInv, RequestOK, RowsOK
<1>6. x.target \in Users /\ x.user \in Users /\ user \in User
  BY <1>4, <1>5 DEF UserRequest, Types
<1>7. /\ w \in User /\ w.exists
      /\ user.row <= w.row /\ (user.row = w.row => user.password = w.password)
      /\ x.op # "disable_user" /\ user.active => w.active
      /\ x.op # "remove_role" /\ user.admin => w.admin
      /\ x.op \in {"assign_role", "remove_role"} => w.auth = user.auth
      /\ x.op = "bootstrap" => w.active /\ w.admin
  BY <1>1, <1>2, <1>3, <1>4, WrittenRow
<1>8. /\ sessions' \in Seq(Session) /\ Len(sessions') = Len(sessions) /\ DOMAIN sessions' = DOMAIN sessions
      /\ \A s \in DOMAIN sessions :
           /\ sessions'[s].user = sessions[s].user /\ sessions'[s].auth = sessions[s].auth
           /\ sessions'[s].row = sessions[s].row
           /\ sessions'[s].reason = sessions[s].reason \/ sessions'[s].reason \in BulkReasons
           /\ x.op \in Expulsions /\ sessions[s].user = x.target => sessions'[s].reason # "live"
  BY <1>2, SessionsLeft
<1>9. \A reason \in BulkReasons : reason # "live" /\ reason \notin FamilyReasons
  BY DEF BulkReasons, FamilyReasons
<1>10. users' = [users EXCEPT ![x.target] = w]
  BY <1>2, <1>3 DEF Commit
<1>11. /\ users' \in [Users -> User] /\ users'[x.target] = w
       /\ \A v \in Users : v # x.target => users'[v] = users[v]
  BY <1>5, <1>6, <1>7, <1>10 DEF Types
<1>12. /\ Held(r, UserRow(x.target), "exclusive") /\ (x.op \in Guarded => Held(r, AdminLock, "exclusive"))
       /\ user.exists <=> x.op \notin {"bootstrap", "create_user"}
       /\ x.op = "disable_user" /\ user.admin => \E u \in ActiveAdministrators : u # x.target
       /\ x.op = "remove_role" /\ user.active => \E u \in ActiveAdministrators : u # x.target
       /\ x.op # "bootstrap" => users[x.user].exists
  BY <1>1, <1>2, <1>4, <1>5 DEF CommitOK, UserOK
<1>13. Others(r) /\ LocksOK' /\ requests'[r] = Idle /\ \A l \in locks' : l[2] # r
  BY <1>1, <1>5, LocksEnd
<1>14. RequestOK(r)' /\ requests'[r].op = "none"
  BY <1>13, EndedOK
<1>15. SessionsEvolve
  <2>1. \A s \in DOMAIN sessions : sessions[s].row \in Nat
    BY InRows DEF Session
  <2> QED
    BY <1>5, <1>8, <1>9, <2>1 DEF SessionsEvolve, Types
<1>16. UsersEvolve
  <2>1. \A v \in Users : users[v].row \in Nat
    BY <1>5 DEF Types, User
  <2> QED
    BY <1>4, <1>6, <1>7, <1>11, <2>1 DEF UsersEvolve
<1>17. \A u : LiveSessions(u)' \subseteq LiveSessions(u)
  BY <1>8, <1>9, InRows DEF LiveSessions
<1>18. x.op \notin {"disable_user", "remove_role"} => ActiveAdministrators \subseteq ActiveAdministrators'
  BY <1>4, <1>6, <1>7, <1>11 DEF ActiveAdministrators
<1>19. \A u \in ActiveAdministrators : u # x.target => u \in ActiveAdministrators'
  BY <1>11 DEF ActiveAdministrators
<1>20. ASSUME NEW q \in Requests, q # r PROVE RequestOK(q)'
  <2>1. PICK y : y = requests[q]
    OBVIOUS
  <2>2. RequestOK(q)
    BY DEF AuthInv
  <2>3. y.pc = "refreshed" => y.token \in DOMAIN tokens' /\ tokens'[y.token] = tokens[y.token]
    BY <1>1, <2>1, <2>2 DEF RequestOK, RefreshOK
  <2>4. LiveTokens(y.session)' \subseteq LiveTokens(y.session)
    BY <1>1 DEF LiveTokens
  <2>5. ASSUME y.pc = "commit"
        PROVE  y.target \in Users /\ y.target # x.target /\ (y.op \in Guarded => x.op \notin Guarded)
    <3>1. /\ y.target \in Users /\ Held(q, UserRow(y.target), "exclusive")
          /\ y.op \in Guarded => Held(q, AdminLock, "exclusive")
      BY <1>5, <2>1, <2>2, <2>5, Shapes DEF RequestOK, CommitOK, UserRequest
    <3>2. UserRow(x.target) \in Rows /\ AdminLock \in Rows
      BY <1>6, RowNames
    <3> QED
      BY <1>5, <1>12, <1>20, <3>1, <3>2, Modality DEF LocksOK
  <2>6. y.pc = "commit" =>
          /\ users'[y.target] = users[y.target]
          /\ y.op \in Guarded => \A u \in ActiveAdministrators : u # y.target => u \in ActiveAdministrators'
    BY <1>11, <1>18, <2>5 DEF Guarded
  <2> QED
    BY <1>13, <1>15, <1>16, <1>17, <1>20, <2>1, <2>3, <2>4, <2>6, OthersStillOK
<1>21. Types'
  BY <1>1, <1>5, <1>8, <1>11, <1>13 DEF Types, Others
<1>22. RoomOK'
  BY <1>1, <1>13, <1>14, RoomKept
<1>23. ExistsOK'
  <2>1. users'[x.target].exists
    BY <1>7, <1>11
  <2> QED
    BY <1>5, <1>11, <2>1 DEF ExistsOK
<1>24. AdministratorRemains'
  <2>1. CASE x.op = "bootstrap"
    <3>1. x.target \in ActiveAdministrators'
      BY <1>6, <1>7, <1>11, <2>1 DEF ActiveAdministrators
    <3> QED
      BY <3>1 DEF AdministratorRemains
  <2>2. CASE x.op # "bootstrap"
    <3>1. ActiveAdministrators # {}
      BY <1>5, <1>6, <1>12, <2>2 DEF AdministratorRemains
    <3>2. PICK a \in ActiveAdministrators :
            x.op \in {"disable_user", "remove_role"} => a # x.target
      <4>1. x.target \in ActiveAdministrators => user.active /\ user.admin
        BY <1>4 DEF ActiveAdministrators
      <4> QED
        BY <1>12, <3>1, <4>1
    <3>3. a \in ActiveAdministrators'
      BY <1>18, <1>19, <3>2
    <3> QED
      BY <3>3 DEF AdministratorRemains
  <2> QED
    BY <2>1, <2>2
<1>25. LiveSessionIsCurrent'
  <2> SUFFICES ASSUME NEW s \in DOMAIN sessions', sessions'[s].reason = "live"
               PROVE  users'[sessions'[s].user].active /\ sessions'[s].auth = users'[sessions'[s].user].auth
    BY DEF LiveSessionIsCurrent
  <2>1. s \in DOMAIN sessions /\ sessions[s].reason = "live" /\ sessions[s].user \in Users
    BY <1>8, <1>9, InRows DEF Session
  <2>2. users[sessions[s].user].active /\ sessions[s].auth = users[sessions[s].user].auth
    BY <1>5, <2>1 DEF LiveSessionIsCurrent
  <2>3. CASE sessions[s].user # x.target
    BY <1>8, <1>11, <2>1, <2>2, <2>3
  <2>4. CASE sessions[s].user = x.target
    <3>1. user.active /\ user.exists
      BY <1>4, <1>5, <1>6, <2>2, <2>4 DEF ExistsOK
    <3>2. x.op \in {"assign_role", "remove_role"}
      BY <1>8, <1>12, <2>1, <2>4, <3>1 DEF UserRequest, Ops, Expulsions
    <3> QED
      BY <1>4, <1>7, <1>8, <1>11, <2>1, <2>2, <2>4, <3>1, <3>2
  <2> QED
    BY <2>3, <2>4
<1>26. ReferenceOK' /\ ChainOK' /\ RevokedOK'
  <2>1. ReferenceOK /\ ChainOK /\ RevokedOK
    BY DEF AuthInv, RowsOK
  <2>2. ReferenceOK' /\ ChainOK'
    BY <1>1, <1>8, <2>1 DEF ReferenceOK, ChainOK
  <2>3. RevokedOK'
    BY <1>1, <1>8, <1>9, <2>1 DEF ReferenceOK, RevokedOK
  <2> QED
    BY <2>2, <2>3
<1> QED
  BY <1>13, <1>14, <1>20, <1>21, <1>22, <1>23, <1>24, <1>25, <1>26 DEF AuthInv, RowsOK

-----------------------------------------------------------------------------
(* The invariant holds *)

LEMMA Ordering ==
  ASSUME NEW S, IsFiniteSet(S)
  PROVE  Order(S) \in [1 .. Cardinality(S) -> S]
<1>1. PICK n \in Nat : ExistsBijection(1 .. n, S)
  BY FS_NatBijection
<1>2. Cardinality(S) = n
  BY <1>1, FS_CountingElements
<1>3. PICK f : f \in Bijection(1 .. n, S)
  BY <1>1 DEF ExistsBijection
<1>4. f \in [1 .. n -> S] /\ \A i, j \in 1 .. n : i < j => f[i] # f[j]
  <2>1. f \in [1 .. n -> S] /\ \A i, j \in DOMAIN f : f[i] = f[j] => i = j
    BY <1>3 DEF Bijection, Injection, IsInjective
  <2> QED
    BY <2>1
<1>5. \E q \in [1 .. Cardinality(S) -> S] : \A i, j \in DOMAIN q : i < j => q[i] # q[j]
  BY <1>2, <1>4
<1> QED
  BY <1>5 DEF Order

LEMMA InitInvariant ==
  ASSUME AuthInit
  PROVE  AuthInv
<1>1. PICK S : S = {u \in Users : users[u].exists}
  OBVIOUS
<1>2. PICK order : order = Order(S)
  OBVIOUS
<1>3. PICK n : n = Cardinality(S)
  OBVIOUS
<1>4. /\ order \in [1 .. n -> S] /\ DOMAIN order = 1 .. n
      /\ n \in Nat /\ n <= MaxSessions /\ n <= MaxTokens
  <2>1. S \in SUBSET Users /\ IsFiniteSet(Users)
    BY <1>1, AuthAssumption
  <2>2. IsFiniteSet(S) /\ n <= Cardinality(Users)
    BY <1>3, <2>1, FS_Subset
  <2>3. n \in Nat /\ Cardinality(Users) \in Nat
    BY <1>3, <2>1, <2>2, FS_CardinalityType
  <2>4. order \in [1 .. n -> S]
    BY <1>2, <1>3, <2>2, Ordering
  <2> QED
    BY <2>2, <2>3, <2>4, AuthAssumption
<1>5. /\ sessions = [i \in 1 .. n |-> [user |-> order[i], auth |-> 1, row |-> 1, time |-> "fresh", reason |-> "live"]]
      /\ tokens = [i \in 1 .. n |-> [session |-> i, consumed |-> FALSE, revoked |-> FALSE]]
      /\ requests = [r \in Requests |-> [Idle EXCEPT !.pc = "unused"]] /\ locks = {}
  BY <1>1, <1>2, <1>4 DEF AuthInit
<1>6. /\ users \in [Users -> {NewUser(FALSE), NewUser(TRUE), AbsentUser}]
      /\ (\A u \in Users : users[u] = AbsentUser) \/ users[Root] = NewUser(TRUE)
  BY DEF AuthInit
<1>7. /\ NewUser(FALSE) \in User /\ NewUser(FALSE).exists /\ NewUser(FALSE).active /\ NewUser(FALSE).auth = 1
      /\ NewUser(TRUE) \in User /\ NewUser(TRUE).exists /\ NewUser(TRUE).active /\ NewUser(TRUE).auth = 1
      /\ NewUser(TRUE).admin
      /\ AbsentUser \in User /\ ~ AbsentUser.exists /\ ~ AbsentUser.active /\ ~ AbsentUser.admin /\ AbsentUser.row = 0
  BY AuthAssumption DEF NewUser, AbsentUser, User
<1>8. users \in [Users -> User]
  BY <1>6, <1>7
<1>9. \A i \in 1 .. n : /\ order[i] \in Users /\ users[order[i]].active /\ users[order[i]].auth = 1
  BY <1>1, <1>4, <1>6, <1>7
<1>10. /\ sessions \in Seq(Session) /\ Len(sessions) = n /\ DOMAIN sessions = 1 .. n
       /\ \A i \in 1 .. n : sessions[i].user = order[i] /\ sessions[i].auth = 1 /\ sessions[i].reason = "live"
  <2>1. \A i \in 1 .. n : [user |-> order[i], auth |-> 1, row |-> 1, time |-> "fresh", reason |-> "live"] \in Session
    BY <1>9 DEF Session
  <2>2. sessions \in [1 .. n -> Session]
    BY <1>5, <2>1
  <2>3. sessions \in Seq(Session) /\ Len(sessions) = n
    BY <1>4, <2>2
  <2> QED
    BY <1>5, <2>2, <2>3
<1>11. /\ tokens \in Seq(Token) /\ Len(tokens) = n /\ DOMAIN tokens = 1 .. n
       /\ \A i \in 1 .. n : tokens[i].session = i
  <2>1. \A i \in 1 .. n : [session |-> i, consumed |-> FALSE, revoked |-> FALSE] \in Token
    BY <1>4, AuthAssumption DEF Token, Sessions
  <2>2. tokens \in [1 .. n -> Token]
    BY <1>5, <2>1
  <2>3. tokens \in Seq(Token) /\ Len(tokens) = n
    BY <1>4, <2>2
  <2> QED
    BY <1>5, <2>2, <2>3
<1>12. /\ requests \in [Requests -> IdleRequest]
       /\ \A q \in Requests : requests[q].op = "none" /\ requests[q].pc = "unused"
  BY <1>5 DEF Idle, IdleRequest
<1>13. Types /\ LocksOK
  <2>1. requests \in [Requests -> IdleRequest \union FamilyRequest \union UserRequest]
    BY <1>12
  <2> QED
    BY <1>4, <1>5, <1>8, <1>10, <1>11, <2>1 DEF Types, LocksOK, Held
<1>14. \A q \in Requests : RequestOK(q)
  BY <1>5, <1>12 DEF RequestOK, IdleOK, RefreshOK, FamilyOK, UserOK, CommitOK
<1>15. ExistsOK /\ ReferenceOK /\ ChainOK /\ RevokedOK
  <2>1. ExistsOK
    BY <1>6, <1>7 DEF ExistsOK
  <2>2. ReferenceOK /\ ChainOK /\ RevokedOK
    BY <1>10, <1>11 DEF ReferenceOK, ChainOK, RevokedOK, FamilyReasons
  <2> QED
    BY <2>1, <2>2
<1>16. LiveSessionIsCurrent
  BY <1>9, <1>10 DEF LiveSessionIsCurrent
<1>17. AdministratorRemains
  <2>1. CASE \A u \in Users : users[u] = AbsentUser
    BY <1>7, <2>1 DEF AdministratorRemains
  <2>2. CASE users[Root] = NewUser(TRUE)
    <3>1. Root \in ActiveAdministrators
      BY <1>7, <2>2, AuthAssumption DEF ActiveAdministrators
    <3> QED
      BY <3>1 DEF AdministratorRemains
  <2> QED
    BY <1>6, <2>1, <2>2
<1>18. RoomOK
  <2>1. Refreshing = {}
    BY <1>12 DEF Refreshing
  <2>2. Cardinality(Refreshing) = 0
    BY <2>1, FS_EmptySet
  <2> QED
    BY <1>4, <1>11, <2>2, AuthAssumption DEF RoomOK
<1> QED
  BY <1>13, <1>14, <1>15, <1>16, <1>17, <1>18 DEF AuthInv, RowsOK

LEMMA StutteringStep ==
  ASSUME AuthInv, UNCHANGED authVars
  PROVE  AuthInv'
<1>1. UNCHANGED <<users, sessions, tokens, requests, locks>>
  BY DEF authVars
<1>2. Types' /\ LocksOK' /\ RoomOK'
  BY <1>1 DEF AuthInv, Types, LocksOK, Held, RoomOK, Refreshing
<1>3. \A q \in Requests : RequestOK(q)'
  <2> SUFFICES ASSUME NEW q \in Requests PROVE RequestOK(q)'
    OBVIOUS
  <2>1. RequestOK(q)
    BY DEF AuthInv
  <2>2. \A row, mode : (Held(q, row, mode)' <=> Held(q, row, mode)) /\ (Secured(q, row, mode)' <=> Secured(q, row, mode))
    BY <1>1 DEF Held, Secured, Ahead
  <2>3. IdleOK(q)' /\ RefreshOK(q)' /\ FamilyOK(q)'
    BY <1>1, <2>1, <2>2 DEF RequestOK, IdleOK, RefreshOK, FamilyOK, LiveTokens
  <2>4. UserOK(q)' /\ CommitOK(q)'
    BY <1>1, <2>1, <2>2 DEF RequestOK, UserOK, CommitOK, LiveSessions, ActiveAdministrators
  <2> QED
    BY <2>3, <2>4 DEF RequestOK
<1> QED
  BY <1>1, <1>2, <1>3, QuietRows DEF AuthInv

LEMMA AuthNextStep ==
  ASSUME AuthInv, [AuthNext]_authVars
  PROVE  AuthInv'
<1>1. CASE UNCHANGED authVars
  BY <1>1, StutteringStep
<1>2. ASSUME NEW s, TimePasses(s) PROVE AuthInv'
  BY <1>2, TimePassesStep
<1>3. ASSUME NEW r \in Requests, Step(r) PROVE AuthInv'
  BY <1>3, AcquireStep, DeadlockVictimStep, RefreshCommitsStep, FamilyFlushedStep, FamilyCommitsStep,
     UserRefusedStep, UserLockedStep, CommitStep DEF Step
<1>4. ASSUME NEW r \in Requests, Arrive(r) PROVE AuthInv'
  BY <1>4, RefreshStep, LogoutStep, LoginStep, BootstrapStep, OwnStep, AdministrationStep DEF Arrive
<1> QED
  BY <1>1, <1>2, <1>3, <1>4 DEF AuthNext

\* The invariant is inductive: the row locks and version_id keep what every request
\* under way relies on.
THEOREM AuthInvariance == AuthSpec => []AuthInv
<1>1. AuthInit => AuthInv
  BY InitInvariant
<1>2. AuthInv /\ [AuthNext]_authVars => AuthInv'
  BY AuthNextStep
<1> QED
  BY <1>1, <1>2, PTL DEF AuthSpec

\* A global logout, a password change, an administrator's revocation and a disabling
\* leave no session behind, whatever logins, refreshes and other operations meet them
\* (logout_all, change_password, disable_user, revoke_sessions).
THEOREM ExpulsionTheorem == AuthSpec => []LiveSessionIsCurrent
<1>1. AuthInv => LiveSessionIsCurrent
  BY DEF AuthInv, RowsOK
<1> QED
  BY <1>1, AuthInvariance, PTL

\* The refresh tokens of a session never fork and none outlives the revocation of its
\* family (refresh, logout, _revoke_family); the rows keep their types.
THEOREM FamilyTheorem == AuthSpec => []FamilyNeverForks
<1>1. ASSUME AuthInv PROVE AuthTypeOK
  <2>1. Types
    BY <1>1 DEF AuthInv
  <2>2. \A r \in Requests : requests[r].op \in Ops \union {"none", "revoke"}
    BY <2>1 DEF Types, IdleRequest, FamilyRequest, UserRequest, Ops
  <2> QED
    BY <1>1, <2>1, <2>2, InRows DEF AuthTypeOK, Types
<1>2. ASSUME AuthInv, NEW s \in DOMAIN sessions
      PROVE  Cardinality({t \in LiveTokens(s) : ~ tokens[t].consumed}) <= 1
  <2>1. PICK T : T = {t \in LiveTokens(s) : ~ tokens[t].consumed}
    OBVIOUS
  <2>2. \A t1, t2 \in T : t1 = t2
    BY <1>2, <2>1, InRows DEF AuthInv, RowsOK, ChainOK, LiveTokens
  <2>3. CASE T = {}
    <3>1. Cardinality(T) = 0
      BY <2>3, FS_EmptySet
    <3> QED
      BY <2>1, <3>1
  <2>4. CASE T # {}
    <3>1. PICK t : T = {t}
      BY <2>2, <2>4
    <3>2. Cardinality(T) = 1
      BY <3>1, FS_Singleton
    <3> QED
      BY <2>1, <3>2
  <2> QED
    BY <2>3, <2>4
<1>3. ASSUME AuthInv PROVE RevokedFamilyHasNoToken
  BY <1>3, InRows DEF AuthInv, RowsOK, RevokedOK, LiveTokens, RevokedFamilyHasNoToken
<1>4. AuthInv => FamilyNeverForks
  BY <1>1, <1>2, <1>3 DEF FamilyNeverForks, OneLiveToken
<1> QED
  BY <1>4, AuthInvariance, PTL

\* Disablings and removals of the role that run at once cannot remove the last active
\* administrator (_lock_admin_invariant, _active_administrator_count).
THEOREM AdministratorTheorem == AuthSpec => []AdministratorRemains
<1>1. AuthInv => AdministratorRemains
  BY DEF AuthInv, RowsOK
<1> QED
  BY <1>1, AuthInvariance, PTL

\* A step that does not commit an operation on a user leaves every password alone.
LEMMA PasswordKept ==
  ASSUME AuthInv, [AuthNext]_authVars, \A r \in Requests : ~ Commit(r), NEW u \in Users
  PROVE  users'[u].password = users[u].password
<1>1. CASE users' = users
  BY <1>1
<1>2. ASSUME NEW r \in Requests, NEW v \in Users, Login(r, v) PROVE users'[u].password = users[u].password
  <2>1. users' = [users EXCEPT ![v] = Touched(users[v])] /\ users \in [Users -> User]
    BY <1>2 DEF Login, AuthInv, Types
  <2>2. Touched(users[v]).password = users[v].password
    BY <2>1 DEF Touched, User
  <2> QED
    BY <2>1, <2>2
<1>3. ASSUME NEW r \in Requests, Step(r) PROVE users' = users
  BY <1>3 DEF Step, Acquire, DeadlockVictim, RefreshCommits, FamilyFlushed, FamilyCommits, UserRefused, UserLocked
<1>4. ASSUME NEW r \in Requests, Arrive(r), \A v \in Users : ~ Login(r, v) PROVE users' = users
  BY <1>4 DEF Arrive, Refresh, Logout, Bootstrap, LogoutAll, ChangePassword, RevokeSessions, DisableUser, CreateUser,
       AssignRole, RemoveRole, Begin
<1> QED
  BY <1>1, <1>2, <1>3, <1>4 DEF AuthNext, TimePasses, authVars

\* No password change is lost: the request that replaces a password verified the one it
\* replaces, although it verified it before it took the row's lock (change_password).
THEOREM PasswordTheorem == AuthSpec => NoLostPassword
<1>1. ASSUME AuthInv, [AuthNext]_authVars, NEW u \in Users, users[u].exists, users'[u].password # users[u].password
      PROVE  \E r \in Requests : /\ requests[r].op = "change_password" /\ requests[r].target = u
                                 /\ requests[r].saw.password = users[u].password
  <2>1. PICK r \in Requests : Commit(r)
    BY <1>1, PasswordKept
  <2>2. requests[r].pc = "commit"
    BY <2>1 DEF Commit, Reached
  <2>3. PICK x \in UserRequest : x = requests[r]
    BY <1>1, <2>2, Shapes DEF AuthInv
  <2>4. PICK w : w = Written(r)
    OBVIOUS
  <2>5. /\ x.op # "change_password" /\ users[x.target].exists => w.password = users[x.target].password
        /\ users' = [users EXCEPT ![x.target] = w] /\ x.target \in Users
    BY <1>1, <2>1, <2>2, <2>3, <2>4, WrittenRow DEF Commit, UserRequest
  <2>6. x.target = u /\ x.op = "change_password"
    BY <1>1, <2>5 DEF AuthInv, Types
  <2>7. x.saw.password = users[u].password
    BY <1>1, <2>2, <2>3, <2>6 DEF AuthInv, RequestOK, CommitOK
  <2> QED
    BY <2>3, <2>6, <2>7
<1>2. AuthInv /\ [AuthNext]_authVars =>
        [\A u \in Users : users[u].exists /\ users'[u].password # users[u].password =>
           \E r \in Requests : /\ requests[r].op = "change_password"
                               /\ requests[r].target = u
                               /\ requests[r].saw.password = users[u].password]_authVars
  BY <1>1
<1> QED
  BY <1>2, AuthInvariance, PTL DEF AuthSpec, NoLostPassword

-----------------------------------------------------------------------------
(* Nobody waits for ever.  A request under way that neither goes on nor can    *)
(* be a victim waits for another that is under way; the smallest set of        *)
(* requests that wait only for each other would hold a victim.                 *)

\* Every statement ahead of a request locks something.
NonEmpty(want) == \A i \in DOMAIN want : want[i] # {}
WantsOK == \A q \in Requests : NonEmpty(requests[q].want)

LEMMA FewStatements ==
  /\ NonEmpty(<<>>)
  /\ \A a : a # {} => NonEmpty(<<a>>)
  /\ \A a, b : a # {} /\ b # {} => NonEmpty(<<a, b>>)
  BY DEF NonEmpty

LEMMA StatementsNonEmpty ==
  ASSUME NEW a, NEW b
  PROVE  NonEmpty(Statements(a, b))
<1>1. CASE a = {} /\ b = {}
  BY <1>1 DEF Statements, NonEmpty
<1>2. CASE a # {} /\ b = {}
  BY <1>2 DEF Statements, NonEmpty
<1>3. CASE a = {} /\ b # {}
  BY <1>3 DEF Statements, NonEmpty
<1>4. CASE a # {} /\ b # {}
  BY <1>4 DEF Statements, NonEmpty
<1> QED
  BY <1>1, <1>2, <1>3, <1>4

LEMMA RestNonEmpty ==
  ASSUME NEW w \in Seq(SUBSET LockRecord), w # <<>>, NonEmpty(w)
  PROVE  /\ Head(w) # {} /\ NonEmpty(Tail(w))
         /\ \A a \in SUBSET LockRecord : a # {} => NonEmpty(<<a>> \o Tail(w))
<1>1. /\ Tail(w) \in Seq(SUBSET LockRecord) /\ Head(w) = w[1] /\ 1 \in DOMAIN w
      /\ \A i \in DOMAIN Tail(w) : i + 1 \in DOMAIN w /\ Tail(w)[i] = w[i + 1]
  OBVIOUS
<1>2. Head(w) # {} /\ NonEmpty(Tail(w))
  BY <1>1 DEF NonEmpty
<1>3. ASSUME NEW a \in SUBSET LockRecord, a # {} PROVE NonEmpty(<<a>> \o Tail(w))
  <2>1. <<a>> \in Seq(SUBSET LockRecord) /\ Len(<<a>>) = 1 /\ <<a>>[1] = a
    OBVIOUS
  <2>2. /\ <<a>> \o Tail(w) \in Seq(SUBSET LockRecord)
        /\ Len(<<a>> \o Tail(w)) = 1 + Len(Tail(w))
        /\ \A i \in 1 .. 1 + Len(Tail(w)) :
             (<<a>> \o Tail(w))[i] = IF i <= 1 THEN <<a>>[i] ELSE Tail(w)[i - 1]
    BY <1>1, <2>1, ConcatProperties
  <2>3. Len(Tail(w)) \in Nat /\ DOMAIN Tail(w) = 1 .. Len(Tail(w))
    BY <1>1
  <2>4. \A i \in 1 .. 1 + Len(Tail(w)) : i <= 1 \/ i - 1 \in DOMAIN Tail(w)
    BY <2>3
  <2>5. DOMAIN (<<a>> \o Tail(w)) = 1 .. 1 + Len(Tail(w))
    BY <2>2, <2>3
  <2> QED
    BY <1>2, <1>3, <2>1, <2>2, <2>3, <2>4, <2>5 DEF NonEmpty
<1> QED
  BY <1>2, <1>3

\* One request changes, and its statements lock something.
LEMMA WantKept ==
  ASSUME AuthInv, WantsOK, NEW r \in Requests, NEW y,
         requests' = [requests EXCEPT ![r] = y], NonEmpty(y.want)
  PROVE  WantsOK'
<1>1. \A q \in Requests : requests'[q] = IF q = r THEN y ELSE requests[q]
  BY DEF AuthInv, Types
<1> QED
  BY <1>1 DEF WantsOK

LEMMA WantEnded ==
  ASSUME AuthInv, WantsOK, NEW r \in Requests, End(r)
  PROVE  WantsOK'
<1>1. NonEmpty(Idle.want)
  BY FewStatements DEF Idle
<1> QED
  BY <1>1, WantKept DEF End

LEMMA WantContinued ==
  ASSUME AuthInv, WantsOK, NEW r \in Requests, NEW a, NEW b, NEW place,
         requests[r] \in FamilyRequest \union UserRequest,
         Continue(r, [requests[r] EXCEPT !.pc = place], a, b)
  PROVE  WantsOK'
<1> DEFINE y == [[requests[r] EXCEPT !.pc = place] EXCEPT !.want = Statements(a, b)]
<1>1. y.want = Statements(a, b)
  BY DEF FamilyRequest, UserRequest
<1>2. requests' = [requests EXCEPT ![r] = y]
  BY DEF Continue
<1> HIDE DEF y
<1> QED
  BY <1>1, <1>2, StatementsNonEmpty, WantKept

LEMMA WantAcquired ==
  ASSUME AuthInv, WantsOK, NEW r \in Requests, Acquire(r)
  PROVE  WantsOK'
<1> DEFINE free == {w \in Wanted(r) : Free(r, w)}
<1>1. Types /\ requests[r].want \in Seq(SUBSET LockRecord) /\ free # {} /\ free \subseteq Wanted(r)
  BY Shapes DEF AuthInv, Acquire
<1>2. requests[r].want # <<>> /\ Wanted(r) = Head(requests[r].want)
  BY <1>1 DEF Wanted
<1>3. /\ Wanted(r) \in SUBSET LockRecord
      /\ NonEmpty(Tail(requests[r].want))
      /\ \A a \in SUBSET LockRecord : a # {} => NonEmpty(<<a>> \o Tail(requests[r].want))
  BY <1>1, <1>2, RestNonEmpty, FirstStatement DEF WantsOK
<1>4. CASE requests' = [requests EXCEPT ![r].want = Tail(requests[r].want)]
  <2>1. \A q \in Requests : requests'[q].want = IF q = r THEN Tail(requests[r].want) ELSE requests[q].want
    BY <1>1, <1>4 DEF Types, IdleRequest, FamilyRequest, UserRequest
  <2> QED
    BY <1>3, <2>1 DEF WantsOK
<1>5. ASSUME NEW w \in free, free # Wanted(r),
             requests' = [requests EXCEPT ![r].want = <<Wanted(r) \ {w}>> \o Tail(requests[r].want)]
      PROVE  WantsOK'
  <2>1. Wanted(r) \ {w} # {} /\ Wanted(r) \ {w} \in SUBSET LockRecord
    BY <1>1, <1>3, <1>5
  <2>2. PICK v : v = <<Wanted(r) \ {w}>> \o Tail(requests[r].want)
    OBVIOUS
  <2>3. NonEmpty(v)
    BY <1>3, <2>1, <2>2
  <2>4. \A q \in Requests : requests'[q].want = IF q = r THEN v ELSE requests[q].want
    BY <1>1, <1>5, <2>2 DEF Types, IdleRequest, FamilyRequest, UserRequest
  <2> QED
    BY <2>3, <2>4 DEF WantsOK
<1> QED
  BY <1>4, <1>5 DEF Acquire

LEMMA WantStep ==
  ASSUME AuthInv, WantsOK, NEW r \in Requests, Step(r)
  PROVE  WantsOK'
<1>1. CASE Acquire(r)
  BY <1>1, WantAcquired
<1>2. CASE DeadlockVictim(r) \/ RefreshCommits(r) \/ FamilyCommits(r) \/ UserRefused(r) \/ Commit(r)
  BY <1>2, WantEnded DEF DeadlockVictim, RefreshCommits, FamilyCommits, UserRefused, Commit
<1>3. CASE FamilyFlushed(r)
  <2>1. requests[r] \in FamilyRequest
    BY <1>3, Shapes DEF FamilyFlushed, Reached, AuthInv
  <2> QED
    BY <1>3, <2>1, WantEnded, WantContinued DEF FamilyFlushed
<1>4. CASE UserLocked(r)
  <2>1. requests[r] \in UserRequest
    BY <1>4, Shapes DEF UserLocked, Reached, AuthInv
  <2> QED
    BY <1>4, <2>1, WantContinued DEF UserLocked
<1> QED
  BY <1>1, <1>2, <1>3, <1>4 DEF Step

LEMMA WantBegun ==
  ASSUME AuthInv, WantsOK, NEW r \in Requests, NEW op, NEW u, NEW target, NEW want,
         NonEmpty(want), Begin(r, op, u, target, want)
  PROVE  WantsOK'
<1> DEFINE y == [op |-> op, pc |-> "user", user |-> u, target |-> target, saw |-> users[u], want |-> want]
<1>1. y.want = want /\ requests' = [requests EXCEPT ![r] = y]
  BY DEF Begin
<1> HIDE DEF y
<1> QED
  BY <1>1, WantKept

LEMMA WantArrived ==
  ASSUME AuthInv, WantsOK, NEW r \in Requests, Arrive(r)
  PROVE  WantsOK'
<1>1. ASSUME NEW t \in Tokens, Refresh(r, t) PROVE WantsOK'
  <2> DEFINE s == tokens[t].session
             u == sessions[s].user
             accepted == ValidFamily(sessions[s], users[u]) /\ ~ tokens[t].revoked
             update == Lock(SessionRow(s), "update")
             want == IF ~ tokens[t].consumed /\ accepted
                       THEN <<{Lock(SessionRow(s), "share")}, {update, Lock(UserRow(u), "share")}>>
                       ELSE IF sessions[s].reason = "live" THEN <<{update}>> ELSE <<>>
             y == [op |-> IF tokens[t].consumed \/ ~ accepted THEN "revoke" ELSE "refresh",
                   pc |-> IF tokens[t].consumed \/ ~ accepted THEN "family" ELSE "refreshed",
                   session |-> s, user |-> u, token |-> t, saw |-> sessions[s],
                   reason |-> IF tokens[t].consumed THEN "refresh_reuse" ELSE "session_invalid",
                   want |-> want]
  <2>1. NonEmpty(want)
    <3> HIDE DEF s, u, accepted, update
    <3> QED
      BY FewStatements
  <2>2. requests' = [requests EXCEPT ![r] = y]
    BY <1>1, Zenon DEF Refresh
  <2>3. y.want = want
    OBVIOUS
  <2> HIDE DEF want, y
  <2> QED
    BY <2>1, <2>2, <2>3, WantKept
<1>2. ASSUME NEW s \in Sessions, Logout(r, s) PROVE WantsOK'
  <2>1. PICK y : y.want = <<{Lock(SessionRow(s), "exclusive")}>> /\ requests' = [requests EXCEPT ![r] = y]
    BY <1>2 DEF Logout
  <2>2. NonEmpty(<<{Lock(SessionRow(s), "exclusive")}>>)
    BY FewStatements
  <2>3. NonEmpty(y.want)
    BY <2>1, <2>2
  <2> QED
    BY <2>1, <2>3, WantKept
<1>3. \A u : NonEmpty(<<ForUpdate(u)>>) /\ NonEmpty(<<AdvisoryLock, ForUpdate(u)>>)
  BY FewStatements DEF ForUpdate, AdvisoryLock
<1>4. ASSUME NEW u \in Users,
             Login(r, u) \/ Bootstrap(r, u) \/ LogoutAll(r, u) \/ ChangePassword(r, u)
      PROVE  WantsOK'
  BY <1>3, <1>4, WantEnded, WantBegun DEF Login, Bootstrap, LogoutAll, ChangePassword
<1>5. ASSUME NEW u \in Users, NEW target \in Users,
             \/ RevokeSessions(r, u, target) \/ DisableUser(r, u, target) \/ CreateUser(r, u, target)
             \/ AssignRole(r, u, target) \/ RemoveRole(r, u, target)
      PROVE  WantsOK'
  BY <1>3, <1>5, WantBegun DEF RevokeSessions, DisableUser, CreateUser, AssignRole, RemoveRole
<1> QED
  BY <1>1, <1>2, <1>4, <1>5 DEF Arrive

\* No statement that is ahead of a request locks nothing (Statements, Begin, Acquire).
THEOREM WantsTheorem == AuthSpec => []WantsOK
<1>1. AuthInit => WantsOK
  BY FewStatements DEF AuthInit, Idle, WantsOK
<1>2. ASSUME AuthInv, WantsOK, [AuthNext]_authVars PROVE WantsOK'
  <2>1. ASSUME NEW s \in Sessions, TimePasses(s) PROVE WantsOK'
    BY <1>2, <2>1 DEF TimePasses, WantsOK
  <2>2. CASE UNCHANGED authVars
    BY <1>2, <2>2 DEF authVars, WantsOK
  <2> QED
    BY <1>2, <2>1, <2>2, WantStep, WantArrived DEF AuthNext
<1> QED
  BY <1>1, <1>2, AuthInvariance, PTL DEF AuthSpec

Closed(X) == \A q \in X : Blockers(q) \subseteq X

\* Of the sets of requests that wait for no one outside, one has no smaller one within.
LEMMA SmallestClosed ==
  ASSUME NEW A \in SUBSET Requests, A # {}, Closed(A)
  PROVE  \E C \in SUBSET A : /\ C # {} /\ Closed(C)
                             /\ \A D \in SUBSET C : D # {} /\ Closed(D) => D = C
<1> DEFINE R == StrictSubsetOrdering(Requests)
           T == {X \in SUBSET A : X # {} /\ Closed(X)}
<1>1. IsFiniteSet(Requests)
  BY AuthAssumption, FS_Interval DEF Requests
<1>2. IsWellFoundedOn(R, SUBSET Requests)
  BY <1>1, FS_FiniteSubsetsOfFinite, FS_StrictSubsetOrderingWellFounded
<1>3. T \subseteq SUBSET Requests /\ T # {}
  OBVIOUS
<1>4. PICK C \in T : \A D \in T : <<D, C>> \notin R
  <2> HIDE DEF R, T
  <2> QED
    BY <1>2, <1>3, WFMin
<1>5. ASSUME NEW D \in SUBSET C, D # {}, Closed(D) PROVE D = C
  <2>1. D \in T /\ C \in SUBSET Requests /\ D \in SUBSET Requests
    BY <1>5
  <2>2. <<D, C>> \notin R
    BY <1>4, <2>1
  <2> QED
    BY <1>5, <2>1, <2>2 DEF StrictSubsetOrdering
<1> QED
  BY <1>5

\* A request under way that cannot go on waits for others that are under way.
LEMMA WaitsForActive ==
  ASSUME AuthInv, WantsOK, NEW r \in Requests, requests[r].want # <<>>,
         \A w \in Wanted(r) : ~ Free(r, w)
  PROVE  /\ Blockers(r) # {}
         /\ Blockers(r) \subseteq {q \in Requests : requests[q].op # "none"}
<1>1. Types /\ requests[r].want \in Seq(SUBSET LockRecord)
  BY Shapes DEF AuthInv
<1>2. PICK w \in Wanted(r) : TRUE
  <2>1. Head(requests[r].want) # {}
    BY <1>1, RestNonEmpty DEF WantsOK
  <2> QED
    BY <2>1 DEF Wanted
<1>3. PICK l \in Against(r, w) : TRUE
  BY <1>2 DEF Free
<1>4. l[2] \in Blockers(r)
  BY <1>2, <1>3 DEF Blockers
<1>5. ASSUME NEW q \in Blockers(r) PROVE q \in Requests /\ requests[q].op # "none"
  <2>1. PICK m \in locks : m[2] = q
    BY <1>5 DEF Blockers, Against
  <2>2. q \in Requests
    BY <1>1, <2>1 DEF Types
  <2>3. requests[q].pc \notin {"unused", "done"}
    BY <2>1, <2>2 DEF AuthInv, RequestOK, IdleOK
  <2>4. requests[q] \in FamilyRequest \union UserRequest
    BY <1>1, <2>2, <2>3, Shapes
  <2> QED
    BY <2>2, <2>4 DEF FamilyRequest, UserRequest, Ops
<1> QED
  BY <1>4, <1>5

\* Nobody waits for ever: while requests are under way one of them goes on or is the
\* victim of a deadlock, however many wait for each other (the row locks of the
\* statements of AuthService and UserAdministrationService).
THEOREM StandstillTheorem == AuthSpec => []NoStandstill
<1>1. ASSUME AuthInv, WantsOK PROVE NoStandstill
  <2> DEFINE A == {r \in Requests : requests[r].op # "none"}
  <2> SUFFICES ASSUME A # {},
                      \A r \in A : /\ requests[r].want # <<>> /\ ~ Deadlocked(r)
                                   /\ \A w \in Wanted(r) : ~ Free(r, w)
               PROVE  FALSE
    BY DEF NoStandstill
  <2>1. \A r \in A : Blockers(r) # {} /\ Blockers(r) \subseteq A
    BY <1>1, WaitsForActive
  <2>2. A \in SUBSET Requests /\ Closed(A)
    BY <2>1 DEF Closed
  <2> HIDE DEF A
  <2>3. PICK C \in SUBSET A : /\ C # {} /\ Closed(C)
                              /\ \A D \in SUBSET C : D # {} /\ Closed(D) => D = C
    BY <2>2, SmallestClosed
  <2>4. PICK r \in C : TRUE
    BY <2>3
  <2>5. Blockers(r) # {} /\ Blockers(r) \subseteq C
    BY <2>1, <2>3, <2>4 DEF Closed
  <2>6. ASSUME NEW X \in SUBSET Requests, Blockers(r) \subseteq X, Closed(X) PROVE r \in X
    <3>1. X \intersect C # {} /\ X \intersect C \in SUBSET C
      BY <2>5, <2>6
    <3>2. Closed(X \intersect C)
      BY <2>3, <2>6 DEF Closed
    <3>3. X \intersect C = C
      BY <2>3, <3>1, <3>2
    <3> QED
      BY <2>4, <3>3
  <2>7. Deadlocked(r)
    BY <2>5, <2>6 DEF Deadlocked, Closed
  <2> QED
    BY <2>3, <2>4, <2>7
<1> QED
  BY <1>1, AuthInvariance, WantsTheorem, PTL

(***************************************************************************)
(* Part 2: SqliteMigration                                                 *)
(***************************************************************************)

-----------------------------------------------------------------------------
(* The inductive invariant *)

\* db holds the rows that ought to be there.
Holds(db) == Readable(db) /\ db.data = expected

\* A database with tables: what a verified backup is made of.
Populated(db) == Readable(db) /\ db.ver # 0

\* Every backup that exists is a populated database; none exists before the
\* first database does.
FilesOK ==
  /\ backup = NoFile \/ (Populated(backup.db) /\ backup.links # 0)
  /\ \A d \in Destinations : copy[d] = NoFile \/ (Populated(copy[d].db) /\ copy[d].links # 0)
  /\ main = Absent => /\ backup = NoFile /\ \A d \in Destinations : copy[d] = NoFile
                       /\ pc[Operator] \notin {"taken", "previous", "published"}
  /\ main.ver = 0 => main.data = 0

\* What process p knows of the database and of its backup under the lock.
HolderOK(p) ==
  /\ pc[p] \in {"copying", "copied", "linked"} => main.ver = 1
  /\ pc[p] \in {"copied", "linked"} => cand[p] = main
  /\ pc[p] = "linked" => backup.db = main
  /\ pc[p] = "migrating" /\ main.ver = 1 /\ main.data # 0 => backup = [db |-> main, links |-> 1]
  /\ pc[p] = "checking" => main.ver = SchemaVersion
  /\ pc[p] = "restoring" => had

\* A backup to go back to holds the rows, and nobody else writes.
HadOK ==
  had => /\ lock # Nobody /\ pc[lock] \in {"migrating", "checking", "restoring"}
         /\ pc[Service] # "running"
         /\ main.ver # 0 /\ Readable(backup.db) /\ backup.db.ver = 1
         /\ backup.db.data = main.data

OpenOK ==
  /\ lock # Nobody => main # Torn
  /\ pc[Service] = "running" => main.ver = SchemaVersion /\ synced

\* Where a backup or a restore is.
RestoringOK ==
  /\ pc[Operator] \in Overwriting => command.source # "none"
  /\ Restoring => /\ pc[Service] = "idle" /\ existed /\ command.dest = "undo"
                  /\ Source(command.source) # NoFile
  /\ pc[Operator] \in {"writing", "undoing"} => disturbed /\ main \in {Empty, Torn}
  /\ pc[Operator] = "undoing" => copy["undo"] # NoFile

BackingOK ==
  /\ pc[Operator] \in {"taken", "previous"} => Populated(cand[Operator])
  /\ IF pc[Operator] = "previous"
     THEN previous = copy[command.dest].db
     ELSE previous = Absent \/ (pc[Operator] = "published" /\ Populated(previous))

\* Somebody but the database holds the rows, now and if the backup under way
\* is taken back.
Kept == \/ expected = 0 \/ Holds(backup.db)
        \/ \E d \in Destinations : Holds(copy[d].db)
KeptBefore == \/ expected = 0 \/ Holds(backup.db) \/ Holds(previous)
              \/ \E d \in Destinations : d # command.dest /\ Holds(copy[d].db)

\* The database is damaged, or a power loss would damage it.
Exposed == ~ reset /\ (disturbed \/ ~ synced)

DamageOK ==
  /\ reset => disturbed
  /\ disturbed /\ ~ reset =>
       main \in {Empty, Torn} /\ pc[Operator] \notin {"taken", "previous", "published", "overwrite"}

KeptOK ==
  /\ Exposed => Kept
  /\ Exposed /\ pc[Operator] = "published" /\ previous # Absent => KeptBefore

\* The copy a restore makes first holds the rows.
UndoOK ==
  ~ reset /\ (Restoring \/ ~ synced) =>
    /\ pc[Operator] \in {"taken", "previous"} => Holds(cand[Operator])
    /\ pc[Operator] \in {"published"} \cup Overwriting => Holds(copy[command.dest].db)

IInv ==
  /\ TypeOK /\ FilesOK /\ (\A p \in Procs : HolderOK(p)) /\ HadOK /\ OpenOK
  /\ RestoringOK /\ BackingOK /\ DamageOK /\ KeptOK /\ UndoOK /\ RowsKept

-----------------------------------------------------------------------------
(* Databases and files *)

LEMMA Databases ==
  /\ \A db \in File : db.ver \in 0..SchemaVersion /\ db.data \in 0..MaxWrites
  /\ \A db \in File : Readable(db) \/ db \in {Absent, Torn}
  /\ \A db \in File : db.ver # 0 => Readable(db)
  /\ \A ver \in 0..SchemaVersion, data \in 0..MaxWrites :
       /\ Sound(ver, data) \in File /\ Readable(Sound(ver, data))
       /\ Sound(ver, data).ver = ver /\ Sound(ver, data).data = data
<1>1. \A db \in File : db.ver \in 0..SchemaVersion /\ db.data \in 0..MaxWrites
  BY BoundsAssumption DEF File, Database, Absent, Torn, SchemaVersion
<1>2. \A db \in File : Readable(db) \/ db \in {Absent, Torn}
  BY DEF File, Database, Readable
<1>3. \A db \in File : db.ver # 0 => Readable(db)
  BY <1>2 DEF Absent, Torn
<1>4. \A ver \in 0..SchemaVersion, data \in 0..MaxWrites :
       /\ Sound(ver, data) \in File /\ Readable(Sound(ver, data))
       /\ Sound(ver, data).ver = ver /\ Sound(ver, data).data = data
  BY DEF File, Database, Sound, Readable
<1> QED
  BY <1>1, <1>2, <1>3, <1>4

LEMMA Markers ==
  /\ Absent \in File /\ Torn \in File /\ Empty \in File
  /\ ~ Readable(Absent) /\ ~ Readable(Torn) /\ Readable(Empty)
  /\ Absent.ver = 0 /\ Torn.ver = 0 /\ Empty.ver = 0
  /\ Absent.data = 0 /\ Torn.data = 0 /\ Empty.data = 0
  /\ Absent # Torn /\ Absent # Empty
<1>1. Empty \in File
  BY Databases, BoundsAssumption DEF Empty, SchemaVersion
<1> QED
  BY <1>1 DEF File, Absent, Torn, Empty, Sound, Readable

\* Two databases of one schema and fingerprint are equal.
LEMMA SameDatabase ==
  ASSUME NEW a \in File, NEW b \in File, Readable(a), Readable(b), a.ver = b.ver, a.data = b.data
  PROVE  a = b
<1>1. a \in Database /\ b \in Database
  BY DEF File, Readable, Absent, Torn
<1>2. a = Sound(a.ver, a.data) /\ b = Sound(b.ver, b.data)
  BY <1>1 DEF Database, Sound
<1> QED
  BY <1>2

LEMMA OneMoreRow ==
  ASSUME NEW db \in File, Readable(db), db.data < MaxWrites
  PROVE  [db EXCEPT !.data = @ + 1] = Sound(db.ver, db.data + 1) /\ db.data + 1 \in 0..MaxWrites
<1>1. db \in Database
  BY DEF File, Readable, Absent, Torn
<1> QED
  BY <1>1, BoundsAssumption DEF Database, Sound

LEMMA Records ==
  /\ NoFile \in FileRecord /\ NoFile.db = Absent /\ NoFile.links = 0
  /\ \A db \in File, n \in 0..2 : [db |-> db, links |-> n] \in FileRecord
  /\ \A f \in FileRecord : f.db \in File /\ f.links \in 0..2
  /\ \A f \in FileRecord, n \in 0..2 : [f EXCEPT !.links = n] = [db |-> f.db, links |-> n]
<1>1. Absent \in File
  BY Markers
<1> QED
  BY <1>1 DEF NoFile, FileRecord

\* A command or start that ends releases what it holds.
LEMMA Leaving ==
  ASSUME FilesType, ControlType, NEW p \in Procs, NEW there \in PCs, there \notin Locked, Leave(p, there)
  PROVE  /\ pc' = [pc EXCEPT ![p] = there] /\ pc' \in [Procs -> PCs]
         /\ cand' \in [Procs -> File] /\ \A q \in Procs : q # p => cand'[q] = cand[q]
         /\ lock' \in Procs \cup {Nobody}
         /\ \A q \in Procs : pc'[q] \in Locked <=> lock' = q
         /\ IF pc[p] \in Locked THEN lock' = Nobody /\ had' = FALSE ELSE UNCHANGED <<lock, had>>
  BY Markers DEF Leave, FilesType, ControlType, Procs, Service, Operator, Nobody

-----------------------------------------------------------------------------
(* Frames *)

\* A step of a start leaves the operator's backup or restore alone.
LEMMA StartFrame ==
  ASSUME IInv, NEW p \in Procs, pc[p] \notin Backing \cup Overwriting, p = Service => ~ Restoring,
         NEW there \in PCs, there \notin Backing \cup Overwriting, pc' = [pc EXCEPT ![p] = there],
         \A q \in Procs : q # p => cand'[q] = cand[q],
         UNCHANGED <<copy, previous, command, existed, expected, disturbed>>,
         reset => reset', synced => synced',
         backup'.db = backup.db \/ backup = NoFile
  PROVE  RestoringOK' /\ BackingOK' /\ KeptOK' /\ UndoOK'
<1> USE DEF IInv, TypeOK, ControlType, Procs, Service, Operator
<1>1. /\ ~ Restoring /\ ~ Restoring'
      /\ p = Operator \/ (pc'[Operator] = pc[Operator] /\ cand'[Operator] = cand[Operator])
  BY DEF Restoring
<1>2. RestoringOK'
  BY <1>1 DEF RestoringOK, Restoring, Overwriting
<1>3. BackingOK'
  BY <1>1 DEF BackingOK, Populated, Backing
<1>4. Exposed' => Exposed
  BY DEF Exposed
<1>5. Kept => Kept'
  BY Markers, Records DEF Kept, Holds
<1>6. KeptBefore => KeptBefore'
  BY Markers, Records DEF KeptBefore, Holds
<1>7. KeptOK'
  BY <1>1, <1>4, <1>5, <1>6 DEF KeptOK, Backing
<1>8. UndoOK'
  BY <1>1 DEF UndoOK, Holds, Backing, Overwriting
<1> QED
  BY <1>2, <1>3, <1>7, <1>8

\* A step of a backup or a restore that leaves the database alone.
LEMMA CommandFrame ==
  ASSUME IInv, pc[Operator] \notin Locked, NEW there \in PCs, there \notin Locked,
         there # "undoing" \/ pc[Operator] = "writing", there # "writing",
         there \in {"taken", "previous", "published", "overwrite"} =>
           pc[Operator] \in {"taken", "previous", "published"} \/ ~ disturbed \/ reset,
         pc' = [pc EXCEPT ![Operator] = there], cand'[Service] = cand[Service],
         UNCHANGED <<main, synced, backup, lock, had, expected, disturbed, reset>>
  PROVE  /\ ControlType' \/ command' # command
         /\ \A p \in Procs : HolderOK(p)'
         /\ HadOK' /\ OpenOK' /\ DamageOK' /\ RowsKept'
<1> USE DEF IInv, TypeOK, ControlType, Procs, Service, Operator, Nobody
<1>1. /\ pc'[Service] = pc[Service] /\ pc'[Operator] = there /\ pc' \in [Procs -> PCs]
      /\ \A p \in Procs : pc'[p] \in Locked <=> lock = p
  OBVIOUS
<1>2. \A p \in Procs : HolderOK(p)'
  BY <1>1 DEF HolderOK, Locked
<1>3. HadOK'
  BY <1>1 DEF HadOK
<1>4. OpenOK'
  BY <1>1 DEF OpenOK
<1>5. DamageOK'
  BY <1>1 DEF DamageOK
<1>6. RowsKept'
  BY DEF RowsKept
<1> QED
  BY <1>1, <1>2, <1>3, <1>4, <1>5, <1>6

\* While a restore writes, nobody is starting.
LEMMA Alone ==
  ASSUME IInv, Restoring
  PROVE  lock = Nobody /\ ~ had /\ pc[Service] = "idle"
  BY DEF IInv, TypeOK, ControlType, RestoringOK, HadOK, Restoring, Procs, Service, Operator, Locked,
         Backing, Overwriting

LEMMA OverwriteFrame ==
  ASSUME IInv, pc[Operator] \in Overwriting, NEW there \in PCs, there \notin Locked,
         pc' = [pc EXCEPT ![Operator] = there], UNCHANGED <<lock, had, command>>
  PROVE  /\ ControlType' /\ (\A p \in Procs : HolderOK(p)') /\ HadOK' /\ OpenOK'
<1> USE DEF IInv, TypeOK, ControlType, Procs, Service, Operator, Nobody
<1>1. lock = Nobody /\ ~ had /\ pc[Service] = "idle"
  <2>1. Restoring
    BY DEF RestoringOK, Restoring
  <2> QED
    BY <2>1, Alone
<1>2. /\ pc'[Service] = "idle" /\ pc'[Operator] = there /\ pc' \in [Procs -> PCs]
      /\ pc[Operator] \notin Locked
  BY <1>1
<1> QED
  BY <1>1, <1>2 DEF HolderOK, HadOK, OpenOK, Locked

-----------------------------------------------------------------------------
(* The steps of a start *)

LEMMA InitializeStep ==
  ASSUME IInv, NEW p \in Procs, Initialize(p)
  PROVE  IInv'
<1> USE DEF IInv, TypeOK, FilesType, ControlType, FlagsType, CountersType, Procs, Service, Operator, Nobody,
            SchemaVersion, Destinations, files, history
<1>1. pc' = [pc EXCEPT ![p] = "waiting"] /\ "waiting" \in PCs /\ pc[p] = "idle"
      /\ UNCHANGED <<files, cand, had, lock, command, existed, history, faults>>
      /\ (p = Service => ~ Restoring) /\ commands' \in 0..MaxCommands
  BY BoundsAssumption DEF Initialize, At, PCs
<1>2. RestoringOK' /\ BackingOK' /\ KeptOK' /\ UndoOK'
  BY <1>1, StartFrame DEF Backing, Overwriting
<1>3. TypeOK'
  BY <1>1 DEF Locked
<1>4. FilesOK' /\ RowsKept' /\ DamageOK'
  BY <1>1 DEF FilesOK, RowsKept, DamageOK
<1>5. (\A q \in Procs : HolderOK(q)') /\ HadOK' /\ OpenOK'
  BY <1>1 DEF HolderOK, HadOK, OpenOK, Locked
<1> QED
  BY <1>2, <1>3, <1>4, <1>5

LEMMA InspectStep ==
  ASSUME IInv, NEW p \in Procs, Inspect(p)
  PROVE  IInv'
<1> USE DEF IInv, TypeOK, FilesType, ControlType, FlagsType, CountersType, Procs, Service, Operator, Nobody,
            SchemaVersion, Destinations, files, history
<1>1. CASE main = Torn
  <2>1. Leave(p, "idle") /\ pc[p] = "waiting" /\ UNCHANGED <<files, command, existed, history, faults, commands>>
    BY <1>1 DEF Inspect
  <2>2. pc' = [pc EXCEPT ![p] = "idle"] /\ pc' \in [Procs -> PCs] /\ UNCHANGED <<lock, had>>
        /\ cand' \in [Procs -> File] /\ (\A q \in Procs : q # p => cand'[q] = cand[q])
        /\ "idle" \in PCs
    BY <2>1, Leaving DEF Locked, PCs
  <2>3. RestoringOK' /\ BackingOK' /\ KeptOK' /\ UndoOK'
    BY <2>1, <2>2, StartFrame DEF Backing, Overwriting, RestoringOK
  <2>4. TypeOK'
    BY <2>1, <2>2 DEF Locked
  <2>5. FilesOK' /\ RowsKept' /\ DamageOK'
    BY <2>1, <2>2 DEF FilesOK, RowsKept, DamageOK
  <2>6. (\A q \in Procs : HolderOK(q)') /\ HadOK' /\ OpenOK'
    BY <2>1, <2>2 DEF HolderOK, HadOK, OpenOK, Locked
  <2> QED
    BY <2>3, <2>4, <2>5, <2>6
<1>2. CASE main # Torn
  <2>1. PICK there \in {"copying", "migrating"} :
          /\ pc' = [pc EXCEPT ![p] = there] /\ (there = "copying" <=> main.ver = 1)
    BY <1>2 DEF Inspect
  <2>2. /\ pc[p] = "waiting" /\ lock = Nobody /\ lock' = p /\ had' = FALSE
        /\ UNCHANGED <<files, cand, command, existed, history, faults, commands>> /\ there \in PCs /\ there \in Locked
    BY <1>2, <2>1 DEF Inspect, PCs, Locked
  <2>3. RestoringOK' /\ BackingOK' /\ KeptOK' /\ UndoOK'
    BY <2>1, <2>2, StartFrame DEF Backing, Overwriting, RestoringOK
  <2>4. TypeOK'
    BY <2>1, <2>2
  <2>5. FilesOK' /\ RowsKept' /\ DamageOK'
    BY <2>1, <2>2 DEF FilesOK, RowsKept, DamageOK
  <2>6. (\A q \in Procs : HolderOK(q)') /\ HadOK' /\ OpenOK'
    BY <1>2, <2>1, <2>2 DEF HolderOK, HadOK, OpenOK, Locked
  <2> QED
    BY <2>3, <2>4, <2>5, <2>6
<1> QED
  BY <1>1, <1>2

LEMMA CopyLiveStep ==
  ASSUME IInv, NEW p \in Procs, CopyLive(p)
  PROVE  IInv'
<1> USE DEF IInv, TypeOK, FilesType, ControlType, FlagsType, CountersType, Procs, Service, Operator, Nobody,
            SchemaVersion, Destinations, files, history
<1>1. /\ pc' = [pc EXCEPT ![p] = "copied"] /\ "copied" \in PCs /\ pc[p] = "copying"
      /\ cand' = [cand EXCEPT ![p] = main]
      /\ UNCHANGED <<files, had, lock, command, existed, history, faults, commands>>
  BY DEF CopyLive, At, PCs, Locked
<1>2. RestoringOK' /\ BackingOK' /\ KeptOK' /\ UndoOK'
  BY <1>1, StartFrame DEF Backing, Overwriting, RestoringOK
<1>3. TypeOK'
  BY <1>1 DEF Locked
<1>4. FilesOK' /\ RowsKept' /\ DamageOK'
  BY <1>1 DEF FilesOK, RowsKept, DamageOK
<1>5. (\A q \in Procs : HolderOK(q)') /\ HadOK' /\ OpenOK'
  BY <1>1 DEF HolderOK, HadOK, OpenOK, Locked
<1> QED
  BY <1>2, <1>3, <1>4, <1>5

LEMMA EnsureBackupStep ==
  ASSUME IInv, NEW p \in Procs, EnsureBackup(p)
  PROVE  IInv'
<1> USE DEF IInv, TypeOK, FilesType, ControlType, FlagsType, CountersType, Procs, Service, Operator, Nobody,
            SchemaVersion, Destinations, files, history
<1>1. CASE backup = NoFile
  <2>1. /\ pc[p] = "copied" /\ backup' = [db |-> cand[p], links |-> 2] /\ pc' = [pc EXCEPT ![p] = "linked"]
        /\ UNCHANGED <<main, synced, copy, previous, cand, had, lock, command, existed, history, faults, commands>>
        /\ "linked" \in PCs
    BY <1>1 DEF EnsureBackup, PCs, Locked
  <2>2. /\ backup'.db = main /\ backup'.links = 2 /\ backup' \in FileRecord /\ main.ver = 1 /\ main # Absent
        /\ Readable(main)
    <3>1. cand[p] = main /\ main.ver = 1 /\ 2 \in 0..2
      BY <2>1 DEF HolderOK
    <3>2. Readable(main) /\ main # Absent
      BY <3>1, Databases, Markers
    <3> QED
      BY <2>1, <3>1, <3>2, Records
  <2>3. RestoringOK' /\ BackingOK' /\ KeptOK' /\ UndoOK'
    BY <1>1, <2>1, <2>2, StartFrame, Records DEF Backing, Overwriting, RestoringOK
  <2>4. TypeOK'
    BY <1>1, <2>1, <2>2 DEF Locked
  <2>5. FilesOK' /\ RowsKept' /\ DamageOK'
    BY <1>1, <2>1, <2>2 DEF FilesOK, RowsKept, DamageOK, Populated
  <2>6. (\A q \in Procs : HolderOK(q)') /\ HadOK' /\ OpenOK'
    BY <1>1, <2>1, <2>2 DEF HolderOK, HadOK, OpenOK, Locked
  <2> QED
    BY <2>3, <2>4, <2>5, <2>6
<1>2. CASE backup # NoFile /\ Verified(backup, {1}) /\ Fingerprint(backup.db) = Fingerprint(cand[p])
  <2>1. /\ pc[p] = "copied" /\ pc' = [pc EXCEPT ![p] = "migrating"] /\ had' = TRUE
        /\ cand' = [cand EXCEPT ![p] = Absent] /\ "migrating" \in PCs /\ Absent \in File
        /\ UNCHANGED <<main, synced, backup, copy, previous, lock, command, existed, history, faults, commands>>
    BY <1>2, Markers DEF EnsureBackup, PCs, Locked
  <2>2. main.ver = 1 /\ cand[p] = main /\ Readable(main) /\ lock = p
    BY <2>1, Databases DEF HolderOK, Locked
  <2>3. backup.links = 1 /\ backup.db = main /\ backup = [db |-> main, links |-> 1]
    <3>1. Readable(backup.db) /\ backup.db.ver = main.ver /\ backup.db.data = main.data /\ backup.links = 1
      BY <1>2, <2>2 DEF Verified, Fingerprint
    <3>2. backup.db = main
      BY <2>2, <3>1, SameDatabase, Records
    <3> QED
      BY <3>1, <3>2 DEF FileRecord
  <2>4. RestoringOK' /\ BackingOK' /\ KeptOK' /\ UndoOK'
    BY <2>1, <2>2, <2>3, StartFrame, Records DEF Backing, Overwriting, RestoringOK
  <2>5. TypeOK'
    BY <2>1, <2>2, <2>3 DEF Locked
  <2>6. FilesOK' /\ RowsKept' /\ DamageOK'
    BY <2>1, <2>2, <2>3 DEF FilesOK, RowsKept, DamageOK
  <2>7. (\A q \in Procs : HolderOK(q)') /\ HadOK' /\ OpenOK'
    BY <2>1, <2>2, <2>3 DEF HolderOK, HadOK, OpenOK, Locked
  <2> QED
    BY <2>4, <2>5, <2>6, <2>7
<1>3. CASE backup # NoFile /\ ~ (Verified(backup, {1}) /\ Fingerprint(backup.db) = Fingerprint(cand[p]))
  <2>1. Leave(p, "idle") /\ pc[p] = "copied"
        /\ UNCHANGED <<main, synced, backup, copy, previous, command, existed, history, faults, commands>>
    BY <1>3 DEF EnsureBackup
  <2>2. pc' = [pc EXCEPT ![p] = "idle"] /\ pc' \in [Procs -> PCs] /\ lock' = Nobody /\ had' = FALSE
        /\ cand' \in [Procs -> File] /\ (\A q \in Procs : q # p => cand'[q] = cand[q])
        /\ "idle" \in PCs /\ (\A q \in Procs : pc'[q] \notin Locked)
    BY <2>1, Leaving DEF Locked, PCs
  <2>3. RestoringOK' /\ BackingOK' /\ KeptOK' /\ UndoOK'
    BY <2>1, <2>2, StartFrame, Records DEF Backing, Overwriting, RestoringOK
  <2>4. TypeOK'
    BY <2>1, <2>2 DEF Locked
  <2>5. FilesOK' /\ RowsKept' /\ DamageOK'
    BY <2>1, <2>2 DEF FilesOK, RowsKept, DamageOK
  <2>6. (\A q \in Procs : HolderOK(q)') /\ HadOK' /\ OpenOK'
    BY <2>1, <2>2 DEF HolderOK, HadOK, OpenOK, Locked
  <2> QED
    BY <2>3, <2>4, <2>5, <2>6
<1> QED
  BY <1>1, <1>2, <1>3

LEMMA PublishBackupStep ==
  ASSUME IInv, NEW p \in Procs, PublishBackup(p)
  PROVE  IInv'
<1> USE DEF IInv, TypeOK, FilesType, ControlType, FlagsType, CountersType, Procs, Service, Operator, Nobody,
            SchemaVersion, Destinations, files, history
<1>1. /\ pc[p] = "linked" /\ pc' = [pc EXCEPT ![p] = "migrating"] /\ had' = TRUE
      /\ cand' = [cand EXCEPT ![p] = Absent] /\ "migrating" \in PCs /\ Absent \in File
      /\ UNCHANGED <<main, synced, copy, previous, lock, command, existed, history, faults, commands>>
  BY Markers DEF PublishBackup, At, PCs, Locked
<1>2. main.ver = 1 /\ backup.db = main /\ Readable(main) /\ lock = p /\ main # Absent
  BY <1>1, Databases, Markers DEF HolderOK, Locked
<1>3. backup' = [db |-> main, links |-> 1] /\ backup' \in FileRecord /\ backup'.db = main /\ backup'.links = 1
  <2>1. backup' = [backup EXCEPT !.links = 1] /\ 1 \in 0..2
    BY DEF PublishBackup
  <2>2. [backup EXCEPT !.links = 1] = [db |-> main, links |-> 1]
    BY <1>2, <2>1, Records
  <2>3. [db |-> main, links |-> 1] \in FileRecord
    BY <2>1, Records
  <2> QED
    BY <2>1, <2>2, <2>3
<1>4. RestoringOK' /\ BackingOK' /\ KeptOK' /\ UndoOK'
  BY <1>1, <1>2, <1>3, StartFrame, Records DEF Backing, Overwriting, RestoringOK
<1>5. TypeOK'
  BY <1>1, <1>2, <1>3 DEF Locked
<1>6. FilesOK' /\ RowsKept' /\ DamageOK'
  BY <1>1, <1>2, <1>3 DEF FilesOK, RowsKept, DamageOK, Populated
<1>7. (\A q \in Procs : HolderOK(q)') /\ HadOK' /\ OpenOK'
  BY <1>1, <1>2, <1>3 DEF HolderOK, HadOK, OpenOK, Locked
<1> QED
  BY <1>4, <1>5, <1>6, <1>7

LEMMA ApplyMigrationStep ==
  ASSUME IInv, NEW p \in Procs, ApplyMigration(p)
  PROVE  IInv'
<1> USE DEF IInv, TypeOK, FilesType, ControlType, FlagsType, CountersType, Procs, Service, Operator, Nobody,
            SchemaVersion, Destinations, files, history
<1>1. CASE main.ver < SchemaVersion
  <2>1. /\ pc[p] = "migrating" /\ main' = Sound(main.ver + 1, main.data)
        /\ reset' = (reset \/ (main = Empty /\ disturbed))
        /\ UNCHANGED <<pc, synced, backup, copy, previous, cand, had, lock, command, existed, expected,
                 disturbed, cut, faults, commands>>
    BY <1>1 DEF ApplyMigration
  <2>2. /\ main' \in File /\ Readable(main') /\ main'.ver = main.ver + 1 /\ main'.data = main.data
        /\ main.ver \in 0..1 /\ main' # Absent /\ main' # Torn
    BY <1>1, <2>1, Databases, Markers
  <2>3. /\ lock = p /\ main # Torn /\ pc' = [pc EXCEPT ![p] = "migrating"] /\ "migrating" \in PCs
        /\ pc[Service] # "running"
    BY <1>1, <2>1 DEF OpenOK, Locked, PCs
  <2>4. reset' \in BOOLEAN
    <3>1. CASE reset \/ (main = Empty /\ disturbed)
      <4>1. reset' = TRUE
        BY <3>1, <2>1
      <4> QED
        BY <4>1, Zenon
    <3>2. CASE ~ (reset \/ (main = Empty /\ disturbed))
      <4>1. reset' = FALSE
        BY <3>2, <2>1
      <4> QED
        BY <4>1, Zenon
    <3> QED
      BY <3>1, <3>2
  <2>5. RestoringOK' /\ BackingOK' /\ KeptOK' /\ UndoOK'
    BY <2>1, <2>3, StartFrame DEF Backing, Overwriting, RestoringOK
  <2>6. TypeOK'
    BY <2>1, <2>2, <2>4
  <2>7. FilesOK'
    BY <2>1, <2>2 DEF FilesOK
  <2>8. RowsKept' /\ DamageOK'
    BY <2>1, <2>2, <2>3, Markers DEF DamageOK, RowsKept
  <2>9. (\A q \in Procs : HolderOK(q)')
    BY <2>1, <2>2, <2>3, Markers DEF HolderOK, FilesOK, Locked
  <2>10. HadOK' /\ OpenOK'
    BY <2>1, <2>2, <2>3 DEF HadOK, OpenOK
  <2> QED
    BY <2>5, <2>6, <2>7, <2>8, <2>9, <2>10
<1>2. CASE main.ver = SchemaVersion
  <2>1. /\ pc[p] = "migrating" /\ pc' = [pc EXCEPT ![p] = "checking"] /\ "checking" \in PCs
        /\ UNCHANGED <<files, cand, had, lock, command, existed, history, faults, commands>>
    BY <1>2 DEF ApplyMigration, PCs, Locked
  <2>2. RestoringOK' /\ BackingOK' /\ KeptOK' /\ UndoOK'
    BY <1>2, <2>1, StartFrame, Records DEF Backing, Overwriting, RestoringOK
  <2>3. TypeOK'
    BY <1>2, <2>1 DEF Locked
  <2>4. FilesOK' /\ RowsKept' /\ DamageOK'
    BY <1>2, <2>1 DEF FilesOK, RowsKept, DamageOK
  <2>5. (\A q \in Procs : HolderOK(q)') /\ HadOK' /\ OpenOK'
    BY <1>2, <2>1 DEF HolderOK, HadOK, OpenOK, Locked
  <2> QED
    BY <2>2, <2>3, <2>4, <2>5
<1>3. main.ver < SchemaVersion \/ main.ver = SchemaVersion
  BY Databases
<1> QED
  BY <1>1, <1>2, <1>3

LEMMA InitializedStep ==
  ASSUME IInv, NEW p \in Procs, Initialized(p)
  PROVE  IInv'
<1> USE DEF IInv, TypeOK, FilesType, ControlType, FlagsType, CountersType, Procs, Service, Operator, Nobody,
            SchemaVersion, Destinations, files, history
<1>1. PICK there \in {"running", "idle"} : Leave(p, there) /\ (there = "running" => p = Service)
  BY DEF Initialized
<1>2. pc[p] = "checking" /\ synced' = TRUE
      /\ UNCHANGED <<main, backup, copy, previous, command, existed, history, faults, commands>>
  BY DEF Initialized
<1>3. pc' = [pc EXCEPT ![p] = there] /\ pc' \in [Procs -> PCs] /\ lock' = Nobody /\ had' = FALSE
      /\ cand' \in [Procs -> File] /\ (\A q \in Procs : q # p => cand'[q] = cand[q])
      /\ there \in PCs /\ (\A q \in Procs : pc'[q] \notin Locked)
  BY <1>1, <1>2, Leaving DEF Locked, PCs
<1>4. RestoringOK' /\ BackingOK' /\ KeptOK' /\ UndoOK'
  BY <1>1, <1>2, <1>3, StartFrame, Records DEF Backing, Overwriting, RestoringOK
<1>5. TypeOK'
  BY <1>1, <1>2, <1>3 DEF Locked
<1>6. FilesOK' /\ RowsKept' /\ DamageOK'
  BY <1>1, <1>2, <1>3 DEF FilesOK, RowsKept, DamageOK
<1>7. (\A q \in Procs : HolderOK(q)') /\ HadOK' /\ OpenOK'
  BY <1>1, <1>2, <1>3 DEF HolderOK, HadOK, OpenOK, Locked
<1> QED
  BY <1>4, <1>5, <1>6, <1>7

LEMMA InitializeFailsStep ==
  ASSUME IInv, NEW p \in Procs, InitializeFails(p)
  PROVE  IInv'
<1> USE DEF IInv, TypeOK, FilesType, ControlType, FlagsType, CountersType, Procs, Service, Operator, Nobody,
            SchemaVersion, Destinations, files, history
<1>1. /\ pc[p] \in Locked \ {"restoring"} /\ faults' \in 0..MaxFaults
      /\ UNCHANGED <<main, synced, copy, previous, command, existed, history, commands>>
  BY BoundsAssumption DEF InitializeFails, Spend
<1>2. CASE pc[p] \in {"migrating", "checking"} /\ had
  <2>1. /\ pc' = [pc EXCEPT ![p] = "restoring"] /\ "restoring" \in PCs /\ lock = p
        /\ UNCHANGED <<backup, cand, had, lock>>
    BY <1>1, <1>2 DEF InitializeFails, PCs, Locked
  <2>2. RestoringOK' /\ BackingOK' /\ KeptOK' /\ UndoOK'
    BY <1>1, <1>2, <2>1, StartFrame DEF Backing, Overwriting, RestoringOK
  <2>3. TypeOK'
    BY <1>1, <1>2, <2>1 DEF Locked
  <2>4. FilesOK' /\ RowsKept' /\ DamageOK'
    BY <1>1, <1>2, <2>1 DEF FilesOK, RowsKept, DamageOK
  <2>5. (\A q \in Procs : HolderOK(q)') /\ HadOK' /\ OpenOK'
    BY <1>1, <1>2, <2>1 DEF HolderOK, HadOK, OpenOK, Locked
  <2> QED
    BY <2>2, <2>3, <2>4, <2>5
<1>3. CASE ~ (pc[p] \in {"migrating", "checking"} /\ had)
  <2>1. Leave(p, "idle") /\ backup' = IF pc[p] = "linked" THEN [backup EXCEPT !.links = 1] ELSE backup
    BY <1>3 DEF InitializeFails
  <2>2. pc' = [pc EXCEPT ![p] = "idle"] /\ pc' \in [Procs -> PCs] /\ lock' = Nobody /\ had' = FALSE
        /\ cand' \in [Procs -> File] /\ (\A q \in Procs : q # p => cand'[q] = cand[q])
        /\ "idle" \in PCs /\ (\A q \in Procs : pc'[q] \notin Locked)
    BY <1>1, <2>1, Leaving DEF Locked, PCs
  <2>3. /\ backup' \in FileRecord /\ backup'.db = backup.db
        /\ backup' = backup \/ (backup'.links = 1 /\ Readable(backup.db) /\ backup.db.ver = 1 /\ main # Absent)
    <3>1. CASE pc[p] = "linked"
      <4>1. backup' = [backup EXCEPT !.links = 1] /\ 1 \in 0..2 /\ backup.db = main /\ main.ver = 1
        BY <2>1, <3>1 DEF HolderOK
      <4>2. Readable(main) /\ main # Absent
        BY <4>1, Databases, Markers
      <4>3. backup' = [db |-> main, links |-> 1]
        BY <4>1, Records
      <4>4. [db |-> main, links |-> 1] \in FileRecord
        BY <4>1, Records
      <4> QED
        BY <4>1, <4>2, <4>3, <4>4
    <3>2. CASE pc[p] # "linked"
      BY <2>1, <3>2
    <3> QED
      BY <3>1, <3>2
  <2>4. RestoringOK' /\ BackingOK' /\ KeptOK' /\ UndoOK'
    BY ZenonT(60), <1>1, <2>2, <2>3, StartFrame DEF Locked, Backing, Overwriting, RestoringOK
  <2>5. TypeOK'
    BY <1>1, <2>2, <2>3 DEF Locked
  <2>6. FilesOK' /\ RowsKept' /\ DamageOK'
    BY <1>1, <2>2, <2>3 DEF FilesOK, RowsKept, DamageOK, Populated
  <2>7. (\A q \in Procs : HolderOK(q)') /\ HadOK' /\ OpenOK'
    BY <1>1, <2>2, <2>3 DEF HolderOK, HadOK, OpenOK, Locked
  <2> QED
    BY <2>4, <2>5, <2>6, <2>7
<1> QED
  BY <1>2, <1>3

LEMMA RestorePreMigrationStep ==
  ASSUME IInv, NEW p \in Procs, RestorePreMigration(p)
  PROVE  IInv'
<1> USE DEF IInv, TypeOK, FilesType, ControlType, FlagsType, CountersType, Procs, Service, Operator, Nobody,
            SchemaVersion, Destinations, files, history
<1>1. /\ pc[p] = "restoring" /\ Leave(p, "idle")
      /\ UNCHANGED <<backup, copy, previous, command, existed, history, commands>>
  BY DEF RestorePreMigration
<1>2. pc' = [pc EXCEPT ![p] = "idle"] /\ pc' \in [Procs -> PCs] /\ lock' = Nobody /\ had' = FALSE
      /\ cand' \in [Procs -> File] /\ (\A q \in Procs : q # p => cand'[q] = cand[q])
      /\ "idle" \in PCs /\ (\A q \in Procs : pc'[q] \notin Locked)
  BY <1>1, Leaving DEF Locked, PCs
<1>3. /\ main.ver # 0 /\ main # Absent /\ main # Torn /\ main # Empty /\ Readable(main)
      /\ Readable(backup.db) /\ backup.db.ver = 1 /\ backup.db.data = main.data /\ backup.db # Absent
      /\ pc[Service] # "running"
  BY <1>1, Markers, Databases DEF HolderOK, HadOK
<1>4. /\ main' \in {main, backup.db} /\ main' \in File /\ (synced' = synced \/ synced' = TRUE)
      /\ faults' \in 0..MaxFaults
  BY SMTT(30), BoundsAssumption, Records DEF RestorePreMigration, Spend
<1>5. RestoringOK' /\ BackingOK' /\ KeptOK' /\ UndoOK'
  <2>1. synced => synced'
    BY <1>4
  <2>2. p = Service => ~ Restoring
    BY <1>1 DEF RestoringOK
  <2> QED
    BY <1>1, <1>2, <2>1, <2>2, StartFrame DEF Backing, Overwriting
<1>6. TypeOK'
  BY <1>1, <1>2, <1>3, <1>4 DEF Locked
<1>7. FilesOK' /\ RowsKept' /\ DamageOK'
  BY <1>1, <1>2, <1>3, <1>4 DEF FilesOK, RowsKept, DamageOK
<1>8. (\A q \in Procs : HolderOK(q)') /\ HadOK' /\ OpenOK'
  BY <1>1, <1>2, <1>3, <1>4 DEF HolderOK, HadOK, OpenOK, Locked
<1> QED
  BY <1>5, <1>6, <1>7, <1>8

LEMMA StopServiceStep ==
  ASSUME IInv, StopService
  PROVE  IInv'
<1> USE DEF IInv, TypeOK, FilesType, ControlType, FlagsType, CountersType, Procs, Service, Operator, Nobody,
            SchemaVersion, Destinations, files, history
<1>1. /\ pc' = [pc EXCEPT ![Service] = "idle"] /\ "idle" \in PCs /\ pc[Service] = "running"
      /\ UNCHANGED <<files, cand, had, lock, command, existed, history, faults, commands>>
  BY DEF StopService, At, PCs, Locked
<1>2. RestoringOK' /\ BackingOK' /\ KeptOK' /\ UndoOK'
  BY <1>1, StartFrame, Records DEF Backing, Overwriting, RestoringOK
<1>3. TypeOK'
  BY <1>1 DEF Locked
<1>4. FilesOK' /\ RowsKept' /\ DamageOK'
  BY <1>1 DEF FilesOK, RowsKept, DamageOK
<1>5. (\A q \in Procs : HolderOK(q)') /\ HadOK' /\ OpenOK'
  BY <1>1 DEF HolderOK, HadOK, OpenOK, Locked
<1> QED
  BY <1>2, <1>3, <1>4, <1>5

-----------------------------------------------------------------------------
(* The steps of a backup and of a restore *)

\* A command that is over leaves nothing half done.
LEMMA CommandEnds ==
  ASSUME IInv, pc'[Operator] = "idle", previous' = Absent, Exposed' => Kept'
  PROVE  RestoringOK' /\ BackingOK' /\ KeptOK' /\ UndoOK'
  BY DEF RestoringOK, BackingOK, KeptOK, UndoOK, Restoring, Backing, Overwriting

LEMMA BackupStep ==
  ASSUME IInv, Backup
  PROVE  IInv'
<1> USE DEF IInv, TypeOK, FilesType, ControlType, FlagsType, CountersType, Procs, Service, Operator, Nobody,
            SchemaVersion, Destinations, files, history
<1>1. /\ pc[Operator] = "idle" /\ pc' = [pc EXCEPT ![Operator] = "snapshot"] /\ "snapshot" \in PCs
      /\ command' = NoSource /\ commands' \in 0..MaxCommands
      /\ UNCHANGED <<files, cand, had, lock, existed, history, faults>>
  BY BoundsAssumption DEF Backup, At, PCs, Backing
<1>2. (\A p \in Procs : HolderOK(p)') /\ HadOK' /\ OpenOK' /\ DamageOK' /\ RowsKept'
  BY <1>1, CommandFrame DEF Locked
<1>3. command' \in [dest : Destinations, source : Sources \cup {"none"}, ver : 0..SchemaVersion]
      /\ command'.source = "none"
  BY <1>1 DEF NoSource, Sources
<1>4. TypeOK'
  BY <1>1, <1>3 DEF Locked
<1>5. FilesOK' /\ RestoringOK' /\ BackingOK' /\ KeptOK' /\ UndoOK'
  BY <1>1, <1>3 DEF FilesOK, RestoringOK, BackingOK, KeptOK, UndoOK, Restoring, Exposed, Kept, Holds, Overwriting
<1> QED
  BY <1>2, <1>4, <1>5

LEMMA RestoreStep ==
  ASSUME IInv, Restore
  PROVE  IInv'
<1> USE DEF IInv, TypeOK, FilesType, ControlType, FlagsType, CountersType, Procs, Service, Operator, Nobody,
            SchemaVersion, Destinations, files, history
<1>1. PICK s \in Sources : /\ Verified(Source(s), {1, SchemaVersion})
                           /\ command' = [dest |-> "undo", source |-> s, ver |-> Source(s).db.ver]
  BY DEF Restore
<1>2. Source(s) \in FileRecord /\ Source(s) # NoFile /\ Source(s).db.ver \in 0..SchemaVersion /\ main # Absent
  <2>1. Source(s) \in FileRecord
    BY DEF Source, Sources
  <2>2. Source(s) # NoFile
    BY SMTT(30), <1>1, Records DEF Verified
  <2>3. main # Absent
    BY <2>2 DEF FilesOK, Source, Sources
  <2>4. Source(s).db.ver \in 0..SchemaVersion
    BY <2>1, Records, Databases
  <2> QED
    BY <2>1, <2>2, <2>3, <2>4
<1>3. /\ pc[Operator] = "idle" /\ pc[Service] = "idle" /\ pc' = [pc EXCEPT ![Operator] = "snapshot"]
      /\ "snapshot" \in PCs /\ existed' = (main # Absent) /\ commands' \in 0..MaxCommands
      /\ UNCHANGED <<files, cand, had, lock, history, faults>>
  BY <1>2, BoundsAssumption DEF Restore, PCs, Backing
<1>4. (\A p \in Procs : HolderOK(p)') /\ HadOK' /\ OpenOK' /\ DamageOK' /\ RowsKept'
  BY <1>3, CommandFrame DEF Locked
<1>5. /\ command' \in [dest : Destinations, source : Sources \cup {"none"}, ver : 0..SchemaVersion]
      /\ command'.source = s /\ command'.dest = "undo" /\ existed' \in BOOLEAN /\ existed'
  <2>1. existed' \in BOOLEAN /\ existed'
    BY <1>2, <1>3, Zenon
  <2> QED
    BY <1>1, <1>2, <2>1
<1>6. TypeOK'
  BY <1>3, <1>5 DEF Locked
<1>7. RestoringOK'
  BY <1>2, <1>3, <1>5 DEF RestoringOK, Restoring, Source, Overwriting
<1>8. FilesOK' /\ BackingOK' /\ KeptOK' /\ UndoOK'
  BY <1>3, <1>5 DEF FilesOK, BackingOK, KeptOK, UndoOK, Exposed, Kept, Holds, Overwriting
<1> QED
  BY <1>4, <1>6, <1>7, <1>8

LEMMA SnapshotStep ==
  ASSUME IInv, Snapshot
  PROVE  IInv'
<1> USE DEF IInv, TypeOK, FilesType, ControlType, FlagsType, CountersType, Procs, Service, Operator, Nobody,
            SchemaVersion, Destinations, files, history
<1> DEFINE allowed == /\ Readable(main) /\ main.ver \in {1, SchemaVersion}
                      /\ copy[command.dest].links \in {0, 1}
<1>0. pc[Operator] = "snapshot" /\ UNCHANGED <<files, command, existed, history, faults, commands>>
  BY DEF Snapshot
<1>1. CASE allowed
  <2>1. /\ pc' = [pc EXCEPT ![Operator] = "taken"] /\ "taken" \in PCs
        /\ cand' = [cand EXCEPT ![Operator] = main] /\ UNCHANGED <<had, lock>>
    BY <1>1 DEF Snapshot, PCs, Backing
  <2>2. main # Absent /\ main # Empty /\ main # Torn /\ (~ disturbed \/ reset) /\ Populated(main)
    BY <1>1, Markers DEF DamageOK, Populated
  <2>3. (\A p \in Procs : HolderOK(p)') /\ HadOK' /\ OpenOK' /\ DamageOK' /\ RowsKept'
    BY <1>0, <2>1, <2>2, CommandFrame DEF Locked
  <2>4. TypeOK'
    BY <1>0, <2>1 DEF Locked
  <2>5. FilesOK' /\ RestoringOK' /\ BackingOK'
    BY <1>0, <2>1, <2>2 DEF FilesOK, RestoringOK, BackingOK, Restoring, Source, Overwriting, Backing, Populated
  <2>6. KeptOK' /\ UndoOK'
    BY <1>0, <2>1, <2>2 DEF KeptOK, UndoOK, RowsKept, Exposed, Kept, Holds, Overwriting, Restoring, Backing
  <2> QED
    BY <2>3, <2>4, <2>5, <2>6
<1>2. CASE ~ allowed
  <2>1. Leave(Operator, "idle")
    BY <1>2 DEF Snapshot
  <2>2. pc' = [pc EXCEPT ![Operator] = "idle"] /\ "idle" \in PCs /\ UNCHANGED <<lock, had>>
        /\ cand' \in [Procs -> File] /\ cand'[Service] = cand[Service]
    BY <1>0, <2>1, Leaving DEF Locked, PCs, Backing, Overwriting
  <2>3. (\A p \in Procs : HolderOK(p)') /\ HadOK' /\ OpenOK' /\ DamageOK' /\ RowsKept'
    BY <1>0, <2>2, CommandFrame DEF Locked
  <2>4. TypeOK' /\ FilesOK'
    BY <1>0, <2>2 DEF Locked, FilesOK
  <2>5. RestoringOK' /\ BackingOK' /\ KeptOK' /\ UndoOK'
    BY <1>0, <2>2, CommandEnds DEF KeptOK, Exposed, Kept, Holds, BackingOK
  <2> QED
    BY <2>3, <2>4, <2>5
<1> QED
  BY <1>1, <1>2

LEMMA LinkPreviousStep ==
  ASSUME IInv, LinkPrevious
  PROVE  IInv'
<1> USE DEF IInv, TypeOK, FilesType, ControlType, FlagsType, CountersType, Procs, Service, Operator, Nobody,
            SchemaVersion, Destinations, files, history
<1>0. /\ pc[Operator] = "taken" /\ pc' = [pc EXCEPT ![Operator] = "previous"] /\ "previous" \in PCs
      /\ UNCHANGED <<main, synced, backup, cand, had, lock, command, existed, history, faults, commands>>
  BY DEF LinkPrevious, At, PCs, Backing
<1>1. (\A p \in Procs : HolderOK(p)') /\ HadOK' /\ OpenOK' /\ DamageOK' /\ RowsKept'
  BY <1>0, CommandFrame DEF Locked
<1>2. PICK d \in Destinations : d = command.dest
  OBVIOUS
<1>3. /\ copy' \in [Destinations -> FileRecord] /\ (\A e \in Destinations : copy'[e].db = copy[e].db)
      /\ previous' = copy'[d].db
      /\ \A e \in Destinations : copy'[e] = copy[e] \/ (copy[e] # NoFile /\ copy'[e].links = 2)
  <2>1. CASE copy[d] = NoFile
    BY <1>0, <1>2, <2>1, Records DEF LinkPrevious, BackingOK
  <2>2. CASE copy[d] # NoFile
    <3>1. previous' = copy[d].db /\ copy' = [copy EXCEPT ![d].links = 2] /\ 2 \in 0..2
      BY <1>2, <2>2 DEF LinkPrevious
    <3>2. copy'[d] = [db |-> copy[d].db, links |-> 2] /\ \A e \in Destinations : e # d => copy'[e] = copy[e]
      BY <3>1, Records
    <3>3. [db |-> copy[d].db, links |-> 2] \in FileRecord
      BY <3>1, Records
    <3>4. copy' \in [Destinations -> FileRecord]
      BY <3>1, <3>2, <3>3
    <3> QED
      BY <2>2, <3>1, <3>2, <3>4
  <2> QED
    BY <2>1, <2>2
<1>4. TypeOK'
  <2>1. previous' \in File
    BY <1>3, Records
  <2> QED
    BY <1>0, <1>3, <2>1 DEF Locked
<1>5. FilesOK'
  <2>1. \A e \in Destinations : copy'[e] = NoFile \/ (Populated(copy'[e].db) /\ copy'[e].links # 0)
    BY <1>3 DEF FilesOK
  <2> QED
    BY <1>0, <1>3, <2>1 DEF FilesOK, Populated
<1>6. RestoringOK' /\ BackingOK'
  <2>1. Restoring => Source(command.source)' # NoFile
    <3>1. \A e \in Destinations : copy[e] # NoFile => copy'[e] # NoFile
      BY SMTT(30), <1>3, Records
    <3> QED
      BY <1>0, <3>1 DEF Source, Sources, RestoringOK, Restoring
  <2> QED
    BY <1>0, <1>2, <1>3, <2>1 DEF RestoringOK, BackingOK, Restoring, Overwriting, Backing, Populated
<1>7. KeptOK' /\ UndoOK'
  BY <1>0, <1>3 DEF KeptOK, UndoOK, Exposed, Kept, Holds, Overwriting, Restoring, Backing
<1> QED
  BY <1>1, <1>4, <1>5, <1>6, <1>7

LEMMA ReplaceDestinationStep ==
  ASSUME IInv, ReplaceDestination
  PROVE  IInv'
<1> USE DEF IInv, TypeOK, FilesType, ControlType, FlagsType, CountersType, Procs, Service, Operator, Nobody,
            SchemaVersion, Destinations, files, history
<1>0. /\ pc[Operator] = "previous" /\ pc' = [pc EXCEPT ![Operator] = "published"] /\ "published" \in PCs
      /\ cand' = [cand EXCEPT ![Operator] = Absent] /\ Absent \in File
      /\ UNCHANGED <<main, synced, backup, previous, had, lock, command, existed, history, faults, commands>>
  BY Markers DEF ReplaceDestination, At, PCs, Backing
<1>1. (\A p \in Procs : HolderOK(p)') /\ HadOK' /\ OpenOK' /\ DamageOK' /\ RowsKept'
  BY <1>0, CommandFrame DEF Locked
<1>2. PICK d \in Destinations : d = command.dest
  OBVIOUS
<1>3. PICK db \in File : db = cand[Operator]
  OBVIOUS
<1>4. /\ copy' = [copy EXCEPT ![d] = [db |-> db, links |-> 1]] /\ [db |-> db, links |-> 1] \in FileRecord
      /\ Populated(db) /\ previous = copy[d].db /\ main # Absent
  <2>1. 1 \in 0..2
    OBVIOUS
  <2> QED
    BY <1>0, <1>2, <1>3, <2>1, Records DEF ReplaceDestination, BackingOK, FilesOK
<1>5. /\ copy' \in [Destinations -> FileRecord] /\ copy'[d].db = db /\ copy'[d].links = 1
      /\ (\A e \in Destinations : e # d => copy'[e] = copy[e]) /\ copy'[d] # NoFile
  <2>1. [db |-> db, links |-> 1] # NoFile
    BY DEF NoFile
  <2> QED
    BY <1>4, <2>1
<1>6. TypeOK'
  BY <1>0, <1>5 DEF Locked
<1>7. FilesOK'
  <2>1. \A e \in Destinations : copy'[e] = NoFile \/ (Populated(copy'[e].db) /\ copy'[e].links # 0)
    BY <1>4, <1>5 DEF FilesOK
  <2> QED
    BY <1>0, <1>4, <2>1 DEF FilesOK, Populated
<1>8. RestoringOK'
  <2>1. Restoring => Source(command.source)' # NoFile
    BY <1>0, <1>5 DEF Source, Sources, RestoringOK, Restoring
  <2> QED
    BY <1>0, <2>1 DEF RestoringOK, Restoring, Overwriting, Backing
<1>9. BackingOK'
  BY <1>0, <1>4, Records DEF BackingOK, FilesOK, Populated
<1>10. ~ reset /\ (Restoring \/ ~ synced) => Holds(db)
  BY <1>0, <1>3 DEF UndoOK
<1>11. UndoOK'
  BY <1>0, <1>2, <1>5, <1>10 DEF UndoOK, Holds, Overwriting, Restoring, Backing
<1>12. Exposed' => Kept'
  BY <1>0, <1>5, <1>10 DEF Exposed, Kept, Holds, DamageOK
<1>13. Exposed' => KeptBefore'
  BY <1>0, <1>2, <1>4, <1>5 DEF Exposed, KeptOK, Kept, KeptBefore, Holds
<1>14. KeptOK'
  BY <1>12, <1>13 DEF KeptOK
<1> QED
  BY <1>1, <1>6, <1>7, <1>8, <1>9, <1>11, <1>14

LEMMA BackupDoneStep ==
  ASSUME IInv, BackupDone
  PROVE  IInv'
<1> USE DEF IInv, TypeOK, FilesType, ControlType, FlagsType, CountersType, Procs, Service, Operator, Nobody,
            SchemaVersion, Destinations, files, history
<1>0. /\ pc[Operator] = "published" /\ previous' = Absent /\ Absent \in File
      /\ UNCHANGED <<main, synced, backup, copy, cand, had, lock, command, existed, history, faults, commands>>
  BY Markers DEF BackupDone, At
<1>1. PICK there \in {"idle", "overwrite"} :
        pc' = [pc EXCEPT ![Operator] = there] /\ (there = "idle" <=> command.source = "none")
  BY DEF BackupDone, At
<1>2. there \in PCs
  BY DEF PCs, Overwriting
<1>3. (\A p \in Procs : HolderOK(p)') /\ HadOK' /\ OpenOK' /\ DamageOK' /\ RowsKept'
  BY <1>0, <1>1, <1>2, CommandFrame DEF Locked
<1>4. TypeOK'
  BY <1>0, <1>1, <1>2 DEF Locked
<1>5. FilesOK' /\ RestoringOK' /\ BackingOK'
  BY <1>0, <1>1 DEF FilesOK, RestoringOK, BackingOK, Restoring, Source, Overwriting, Backing, Populated
<1>6. KeptOK' /\ UndoOK'
  BY <1>0, <1>1 DEF KeptOK, UndoOK, Exposed, Kept, Holds, Overwriting, Restoring, Backing
<1> QED
  BY <1>3, <1>4, <1>5, <1>6

LEMMA BackupFailsStep ==
  ASSUME IInv, BackupFails
  PROVE  IInv'
<1> USE DEF IInv, TypeOK, FilesType, ControlType, FlagsType, CountersType, Procs, Service, Operator, Nobody,
            SchemaVersion, Destinations, files, history
<1>0. /\ pc[Operator] \in Backing /\ previous' = Absent /\ Absent \in File /\ faults' \in 0..MaxFaults
      /\ Leave(Operator, "idle")
      /\ UNCHANGED <<main, synced, backup, command, existed, history, commands>>
  BY Markers, BoundsAssumption DEF BackupFails, Spend
<1>1. pc' = [pc EXCEPT ![Operator] = "idle"] /\ "idle" \in PCs /\ UNCHANGED <<lock, had>>
      /\ cand' \in [Procs -> File] /\ cand'[Service] = cand[Service]
  BY <1>0, Leaving DEF Locked, PCs, Backing
<1>2. (\A p \in Procs : HolderOK(p)') /\ HadOK' /\ OpenOK' /\ DamageOK' /\ RowsKept'
  BY <1>0, <1>1, CommandFrame DEF Locked, Backing
<1>3. PICK d \in Destinations : d = command.dest
  OBVIOUS
<1>4. \/ copy' = copy
      \/ copy[d].links = 2 /\ copy' = [copy EXCEPT ![d].links = 1]
      \/ /\ pc[Operator] = "published" /\ previous # Absent
         /\ copy' = [copy EXCEPT ![d] = [db |-> previous, links |-> 1]]
  BY <1>3 DEF BackupFails, Backing
<1>5. /\ copy' \in [Destinations -> FileRecord]
      /\ Exposed' => Kept'
      /\ \A e \in Destinations : copy'[e] = NoFile \/ (Populated(copy'[e].db) /\ copy'[e].links # 0)
      /\ main = Absent => \A e \in Destinations : copy'[e] = NoFile
  <2>1. CASE copy' = copy
    BY <1>0, <2>1 DEF FilesOK, KeptOK, Exposed, Kept, Holds
  <2>2. CASE copy[d].links = 2 /\ copy' = [copy EXCEPT ![d].links = 1]
    <3>1. copy'[d] = [db |-> copy[d].db, links |-> 1] /\ (\A e \in Destinations : e # d => copy'[e] = copy[e])
          /\ copy[d] # NoFile
      <4>1. 1 \in 0..2 /\ NoFile.links = 0
        BY Records
      <4>2. copy'[d] = [copy[d] EXCEPT !.links = 1] /\ (\A e \in Destinations : e # d => copy'[e] = copy[e])
        BY <2>2
      <4>3. [copy[d] EXCEPT !.links = 1] = [db |-> copy[d].db, links |-> 1]
        BY <4>1, Records
      <4> QED
        BY <2>2, <4>1, <4>2, <4>3
    <3>2. [db |-> copy[d].db, links |-> 1] \in FileRecord
      <4>1. 1 \in 0..2
        OBVIOUS
      <4> QED
        BY <4>1, Records
    <3>3. copy' \in [Destinations -> FileRecord] /\ (\A e \in Destinations : copy'[e].db = copy[e].db)
      BY <2>2, <3>1, <3>2
    <3>4. Exposed' => Kept'
      BY <1>0, <3>3 DEF KeptOK, Exposed, Kept, Holds
    <3> QED
      BY <1>0, <3>1, <3>3, <3>4 DEF FilesOK
  <2>3. CASE /\ pc[Operator] = "published" /\ previous # Absent
             /\ copy' = [copy EXCEPT ![d] = [db |-> previous, links |-> 1]]
    <3>1. [db |-> previous, links |-> 1] \in FileRecord
      <4>1. 1 \in 0..2
        OBVIOUS
      <4> QED
        BY <4>1, Records
    <3>2. copy' \in [Destinations -> FileRecord] /\ copy'[d].db = previous /\ copy'[d].links = 1
          /\ (\A e \in Destinations : e # d => copy'[e] = copy[e])
      BY <2>3, <3>1
    <3>3. Populated(previous)
      BY <2>3 DEF BackingOK
    <3>4. Exposed' => Kept'
      BY <1>0, <1>3, <2>3, <3>2 DEF KeptOK, Exposed, Kept, KeptBefore, Holds
    <3>5. main # Absent
      BY <2>3 DEF FilesOK
    <3> QED
      BY <3>2, <3>3, <3>4, <3>5 DEF FilesOK
  <2> QED
    BY <1>4, <2>1, <2>2, <2>3
<1>6. TypeOK'
  BY <1>0, <1>1, <1>5 DEF Locked, Backing
<1>7. FilesOK'
  BY <1>0, <1>1, <1>5 DEF FilesOK, Populated
<1>8. RestoringOK' /\ BackingOK' /\ KeptOK' /\ UndoOK'
  BY <1>0, <1>1, <1>5, CommandEnds
<1> QED
  BY <1>2, <1>6, <1>7, <1>8

LEMMA RestoreFailsStep ==
  ASSUME IInv, RestoreFails
  PROVE  IInv'
<1> USE DEF IInv, TypeOK, FilesType, ControlType, FlagsType, CountersType, Procs, Service, Operator, Nobody,
            SchemaVersion, Destinations, files, history
<1>0. /\ pc[Operator] = "writing" /\ faults' \in 0..MaxFaults
      /\ UNCHANGED <<files, cand, had, lock, command, existed, history, commands>>
  BY BoundsAssumption DEF RestoreFails, Spend
<1>1. PICK there \in {"undoing", "idle"} : /\ pc' = [pc EXCEPT ![Operator] = there]
                                           /\ there = "undoing" => copy["undo"] # NoFile
  BY DEF RestoreFails
<1>2. there \in PCs
  BY DEF PCs, Overwriting
<1>3. (\A p \in Procs : HolderOK(p)') /\ HadOK' /\ OpenOK' /\ DamageOK' /\ RowsKept'
  BY <1>0, <1>1, <1>2, CommandFrame DEF Locked
<1>4. TypeOK'
  BY <1>0, <1>1, <1>2 DEF Locked
<1>5. FilesOK' /\ RestoringOK' /\ BackingOK'
  BY <1>0, <1>1 DEF FilesOK, RestoringOK, BackingOK, Restoring, Source, Overwriting, Backing, Populated
<1>6. KeptOK' /\ UndoOK'
  BY <1>0, <1>1 DEF KeptOK, UndoOK, Exposed, Kept, Holds, Overwriting, Restoring, Backing
<1> QED
  BY <1>3, <1>4, <1>5, <1>6

LEMMA TruncateMainStep ==
  ASSUME IInv, TruncateMain
  PROVE  IInv'
<1> USE DEF IInv, TypeOK, FilesType, ControlType, FlagsType, CountersType, Procs, Service, Operator, Nobody,
            SchemaVersion, Destinations, files, history
<1>0. /\ pc[Operator] = "overwrite" /\ pc' = [pc EXCEPT ![Operator] = "writing"] /\ "writing" \in PCs
      /\ main' \in {Empty, Torn} /\ synced' = FALSE /\ disturbed' = TRUE
      /\ UNCHANGED <<backup, copy, previous, cand, had, lock, command, existed, expected, reset, cut, faults, commands>>
  BY DEF TruncateMain, At, PCs, Overwriting
<1>1. ControlType' /\ (\A p \in Procs : HolderOK(p)') /\ HadOK' /\ OpenOK'
  BY <1>0, OverwriteFrame DEF Locked, Overwriting
<1>2. synced' \in BOOLEAN /\ disturbed' \in BOOLEAN /\ disturbed' /\ ~ synced'
  BY <1>0, Zenon
<1>3. /\ main' \in File /\ main' # Absent /\ main'.ver = 0 /\ main'.data = 0
  BY <1>0, Markers
<1>4. TypeOK'
  BY <1>0, <1>1, <1>2, <1>3
<1>5. FilesOK' /\ RowsKept' /\ DamageOK'
  BY <1>0, <1>2, <1>3 DEF FilesOK, RowsKept, DamageOK, Populated
<1>6. Restoring /\ command.dest = "undo"
  BY <1>0 DEF RestoringOK, Restoring, Overwriting
<1>7. RestoringOK' /\ BackingOK'
  BY <1>0, <1>2, <1>6 DEF RestoringOK, BackingOK, Restoring, Source, Overwriting, Backing, Populated
<1>8. KeptOK' /\ UndoOK'
  BY <1>0, <1>6 DEF KeptOK, UndoOK, Exposed, Kept, Holds, Overwriting, Restoring, Backing
<1> QED
  BY <1>1, <1>4, <1>5, <1>7, <1>8

LEMMA RestoreDoneStep ==
  ASSUME IInv, RestoreDone
  PROVE  IInv'
<1> USE DEF IInv, TypeOK, FilesType, ControlType, FlagsType, CountersType, Procs, Service, Operator, Nobody,
            SchemaVersion, Destinations, files, history
<1>0. /\ pc[Operator] = "writing" /\ pc' = [pc EXCEPT ![Operator] = "idle"] /\ "idle" \in PCs
      /\ UNCHANGED <<synced, backup, copy, previous, cand, had, lock, command, existed, cut, faults, commands>>
  BY DEF RestoreDone, At, PCs
<1>1. ControlType' /\ (\A p \in Procs : HolderOK(p)') /\ HadOK' /\ OpenOK'
  BY <1>0, OverwriteFrame DEF Locked, Overwriting
<1>2. Restoring /\ command.dest = "undo" /\ command.source # "none"
  BY <1>0 DEF RestoringOK, Restoring, Overwriting
<1>3. PICK s \in Sources : s = command.source
  BY <1>2 DEF Sources
<1>4. PICK f \in FileRecord : f = Source(s)
  BY DEF Source, Sources
<1>5. f # NoFile /\ Populated(f.db) /\ f.db \in File /\ f.db.data \in 0..MaxWrites /\ f.db # Absent
  <2>1. f # NoFile /\ Populated(f.db)
    BY <1>2, <1>3, <1>4 DEF RestoringOK, FilesOK, Source, Sources
  <2> QED
    BY <2>1, Records, Databases, Markers DEF Populated
<1>6. /\ main' = f.db /\ expected' = IF s = "undo" THEN expected ELSE f.db.data
      /\ disturbed' = (s = "undo" /\ reset) /\ reset' = disturbed'
  BY <1>3, <1>4 DEF RestoreDone
<1>7. disturbed' \in BOOLEAN /\ reset' \in BOOLEAN /\ (disturbed' <=> s = "undo" /\ reset) /\ (reset' <=> disturbed')
  BY <1>6, Zenon
<1>8. TypeOK'
  BY <1>0, <1>1, <1>5, <1>6, <1>7
<1>9. FilesOK'
  BY <1>0, <1>5, <1>6 DEF FilesOK, Populated
<1>10. ~ reset => Holds(copy["undo"].db)
  BY <1>0, <1>2 DEF UndoOK, Overwriting
<1>11. ~ disturbed' => Readable(f.db) /\ f.db.data = expected'
  BY <1>4, <1>5, <1>6, <1>7, <1>10 DEF Populated, Holds, Source
<1>12. RowsKept' /\ DamageOK'
  BY <1>6, <1>7, <1>11 DEF RowsKept, DamageOK
<1>13. Exposed' => Kept'
  BY <1>0, <1>4, <1>7, <1>11 DEF Exposed, Kept, Holds, Source, Sources
<1>14. RestoringOK' /\ BackingOK' /\ KeptOK' /\ UndoOK'
  <2>1. previous' = Absent
    BY <1>0 DEF BackingOK
  <2> QED
    BY <1>0, <1>13, <2>1, CommandEnds
<1> QED
  BY <1>1, <1>8, <1>9, <1>12, <1>14

LEMMA UndoRestoreStep ==
  ASSUME IInv, UndoRestore
  PROVE  IInv'
<1> USE DEF IInv, TypeOK, FilesType, ControlType, FlagsType, CountersType, Procs, Service, Operator, Nobody,
            SchemaVersion, Destinations, files, history
<1>0. /\ pc[Operator] = "undoing" /\ pc' = [pc EXCEPT ![Operator] = "idle"] /\ "idle" \in PCs
      /\ UNCHANGED <<synced, backup, copy, previous, cand, had, lock, command, existed, expected, reset, cut, commands>>
      /\ faults' \in 0..MaxFaults
  BY BoundsAssumption DEF UndoRestore, At, PCs, Spend
<1>1. ControlType' /\ (\A p \in Procs : HolderOK(p)') /\ HadOK' /\ OpenOK'
  BY <1>0, OverwriteFrame DEF Locked, Overwriting
<1>2. PICK f \in FileRecord : f = copy["undo"]
  OBVIOUS
<1>3. f # NoFile /\ Populated(f.db) /\ f.db \in File /\ f.db # Absent /\ command.dest = "undo" /\ Restoring
      /\ disturbed /\ (~ reset => Holds(f.db))
  <2>1. f # NoFile /\ Restoring /\ command.dest = "undo" /\ disturbed
    BY <1>0, <1>2 DEF RestoringOK, Restoring, Overwriting
  <2>2. Populated(f.db)
    BY <1>2, <2>1 DEF FilesOK
  <2>3. ~ reset => Holds(f.db)
    BY <1>0, <1>2, <2>1 DEF UndoOK, Overwriting
  <2> QED
    BY <2>1, <2>2, <2>3, Records, Markers DEF Populated
<1>4. \/ main' = f.db /\ disturbed' = reset
      \/ main' \in {Empty, Torn} /\ disturbed' = disturbed
  BY <1>2 DEF UndoRestore
<1>5. main' \in File /\ main' # Absent /\ (main'.ver = 0 => main'.data = 0) /\ disturbed' \in BOOLEAN
  BY <1>3, <1>4, Markers DEF Populated
<1>6. TypeOK'
  BY <1>0, <1>1, <1>5
<1>7. FilesOK'
  BY <1>0, <1>5 DEF FilesOK, Populated
<1>8. RowsKept' /\ DamageOK'
  <2>1. \/ main' = f.db /\ (disturbed' <=> reset)
        \/ main' \in {Empty, Torn} /\ disturbed'
    BY <1>3, <1>4, Zenon
  <2> QED
    BY <1>0, <1>3, <2>1 DEF RowsKept, DamageOK, Holds, Populated
<1>9. Exposed' => Kept'
  BY <1>0, <1>3 DEF Exposed, Kept, KeptOK, Holds
<1>10. RestoringOK' /\ BackingOK' /\ KeptOK' /\ UndoOK'
  <2>1. previous' = Absent
    BY <1>0 DEF BackingOK
  <2> QED
    BY <1>0, <1>9, <2>1, CommandEnds
<1> QED
  BY <1>1, <1>6, <1>7, <1>8, <1>10

-----------------------------------------------------------------------------
(* Writes, kills and power losses *)

LEMMA WriteStep ==
  ASSUME IInv, Write
  PROVE  IInv'
<1> USE DEF IInv, TypeOK, FilesType, ControlType, FlagsType, CountersType, Procs, Service, Operator, Nobody,
            SchemaVersion, Destinations, files, history
<1>1. /\ pc[Service] = "running" /\ main.ver = SchemaVersion /\ expected' = main.data + 1
      /\ UNCHANGED <<synced, backup, copy, previous, pc, cand, had, lock, command, existed, disturbed, reset,
                     cut, faults, commands>>
  BY DEF Write
<1>2. Readable(main) /\ main # Absent /\ main # Torn /\ main # Empty /\ synced
  BY <1>1, Databases, Markers DEF OpenOK
<1>3. /\ main' = Sound(main.ver, main.data + 1) /\ main.data + 1 \in 0..MaxWrites
  <2>1. main' = [main EXCEPT !.data = @ + 1] /\ main.data < MaxWrites
    BY DEF Write
  <2> QED
    BY <1>2, <2>1, OneMoreRow
<1>4. /\ main' \in File /\ Readable(main') /\ main'.ver = main.ver /\ main'.data = main.data + 1
      /\ main' # Absent /\ main' # Torn
  BY <1>3, Databases, Markers
<1>5. ~ Restoring /\ ~ Exposed /\ ~ had /\ (reset \/ ~ disturbed)
  BY <1>1, <1>2, Markers DEF RestoringOK, Exposed, DamageOK, HadOK, Locked, Backing, Overwriting, Restoring
<1>6. TypeOK'
  BY <1>1, <1>3, <1>4
<1>7. FilesOK' /\ RowsKept' /\ DamageOK'
  BY <1>1, <1>2, <1>4, <1>5 DEF FilesOK, RowsKept, DamageOK, Populated
<1>8. (\A p \in Procs : HolderOK(p)') /\ HadOK' /\ OpenOK'
  BY <1>1, <1>4, <1>5 DEF HolderOK, HadOK, OpenOK
<1>9. RestoringOK' /\ BackingOK'
  BY <1>1, <1>2, <1>5 DEF RestoringOK, BackingOK, Restoring, Populated, Overwriting
<1>10. KeptOK' /\ UndoOK'
  BY <1>1, <1>2, <1>5 DEF KeptOK, UndoOK, Exposed, Restoring
<1> QED
  BY <1>6, <1>7, <1>8, <1>9, <1>10

LEMMA LegacyWriteStep ==
  ASSUME IInv, LegacyWrite
  PROVE  IInv'
<1> USE DEF IInv, TypeOK, FilesType, ControlType, FlagsType, CountersType, Procs, Service, Operator, Nobody,
            SchemaVersion, Destinations, files, history
<1>1. /\ pc[Service] = "idle" /\ pc[Operator] = "idle" /\ main.ver = 1 /\ expected' = main.data + 1
      /\ synced' = TRUE
      /\ UNCHANGED <<backup, copy, previous, pc, cand, had, lock, command, existed, disturbed, reset,
                     cut, faults, commands>>
  BY DEF LegacyWrite
<1>2. Readable(main) /\ main # Absent /\ main # Torn /\ main # Empty
  BY <1>1, Databases, Markers
<1>3. /\ main' = Sound(main.ver, main.data + 1) /\ main.data + 1 \in 0..MaxWrites
  <2>1. main' = [main EXCEPT !.data = @ + 1] /\ main.data < MaxWrites
    BY DEF LegacyWrite
  <2> QED
    BY <1>2, <2>1, OneMoreRow
<1>4. /\ main' \in File /\ Readable(main') /\ main'.ver = main.ver /\ main'.data = main.data + 1
      /\ main' # Absent /\ main' # Torn
  BY <1>3, Databases, Markers
<1>5. ~ Restoring /\ ~ had /\ (reset \/ ~ disturbed)
  BY <1>1, <1>2, Markers DEF RestoringOK, Exposed, DamageOK, HadOK, Locked, Backing, Overwriting, Restoring
<1>6. TypeOK'
  BY <1>1, <1>3, <1>4
<1>7. FilesOK' /\ RowsKept' /\ DamageOK'
  BY <1>1, <1>2, <1>4, <1>5 DEF FilesOK, RowsKept, DamageOK, Populated
<1>8. (\A p \in Procs : HolderOK(p)') /\ HadOK' /\ OpenOK'
  BY <1>1, <1>4, <1>5 DEF HolderOK, HadOK, OpenOK
<1>9. RestoringOK' /\ BackingOK' /\ KeptOK' /\ UndoOK'
  <2>1. previous' = Absent
    BY <1>1 DEF BackingOK
  <2> QED
    BY <1>1, <1>5, <2>1, CommandEnds DEF Exposed
<1> QED
  BY <1>6, <1>7, <1>8, <1>9

LEMMA KillStep ==
  ASSUME IInv, NEW p \in Procs, Kill(p)
  PROVE  IInv'
<1> USE DEF IInv, TypeOK, FilesType, ControlType, FlagsType, CountersType, Procs, Service, Operator, Nobody,
            SchemaVersion, Destinations, files, history
<1>1. /\ pc[p] \notin {"idle", "waiting"} /\ Leave(p, "idle") /\ faults' \in 0..MaxFaults
      /\ cut' = (cut \/ Died(p))
      /\ previous' = IF p = Operator THEN Absent ELSE previous
      /\ UNCHANGED <<main, synced, backup, copy, command, existed, expected, disturbed, reset, commands>>
  BY BoundsAssumption DEF Kill, Spend
<1>2. pc' = [pc EXCEPT ![p] = "idle"] /\ pc' \in [Procs -> PCs] /\ "idle" \in PCs
      /\ lock' \in Procs \cup {Nobody} /\ (\A q \in Procs : pc'[q] \in Locked <=> lock' = q)
      /\ cand' \in [Procs -> File] /\ (\A q \in Procs : q # p => cand'[q] = cand[q])
      /\ IF pc[p] \in Locked THEN lock' = Nobody /\ had' = FALSE ELSE UNCHANGED <<lock, had>>
  BY <1>1, Leaving DEF Locked, PCs
<1>3. cut' \in BOOLEAN /\ had' \in BOOLEAN
  <2>1. cut' \in BOOLEAN
    BY <1>1, Zenon DEF Died
  <2> QED
    BY <1>2, <2>1
<1>4. previous' \in File
  BY <1>1, Markers
<1>5. TypeOK'
  BY <1>1, <1>2, <1>3, <1>4
<1>6. FilesOK' /\ RowsKept' /\ DamageOK'
  BY <1>1, <1>2 DEF FilesOK, RowsKept, DamageOK
<1>7. (\A q \in Procs : HolderOK(q)') /\ HadOK' /\ OpenOK'
  <2>1. CASE pc[p] \in Locked
    BY <1>1, <1>2, <2>1 DEF HolderOK, HadOK, OpenOK, Locked
  <2>2. CASE pc[p] \notin Locked
    BY <1>1, <1>2, <2>2 DEF HolderOK, HadOK, OpenOK, Locked
  <2> QED
    BY <2>1, <2>2
<1>8. RestoringOK' /\ BackingOK' /\ KeptOK' /\ UndoOK'
  <2>1. CASE p = Operator
    BY <1>1, <1>2, <2>1, CommandEnds DEF KeptOK, Exposed, Kept, Holds
  <2>2. CASE p = Service
    BY <1>1, <1>2, <2>2 DEF RestoringOK, BackingOK, KeptOK, UndoOK, Restoring, Exposed, Kept, KeptBefore, Holds,
                            Populated, Source, Backing, Overwriting
  <2> QED
    BY <2>1, <2>2
<1> QED
  BY <1>5, <1>6, <1>7, <1>8

LEMMA PowerLossStep ==
  ASSUME IInv, PowerLoss
  PROVE  IInv'
<1> USE DEF IInv, TypeOK, FilesType, ControlType, FlagsType, CountersType, Procs, Service, Operator, Nobody,
            SchemaVersion, Destinations, files, history
<1>1. /\ pc' = [p \in Procs |-> "idle"] /\ cand' = [p \in Procs |-> Absent] /\ lock' = Nobody /\ had' = FALSE
      /\ previous' = Absent /\ faults' \in 0..MaxFaults /\ synced' = TRUE /\ Absent \in File /\ "idle" \in PCs
      /\ UNCHANGED <<backup, copy, command, existed, expected, reset, commands>>
  BY BoundsAssumption, Markers DEF PowerLoss, Spend, PCs
<1>2. cut' \in BOOLEAN /\ disturbed' \in BOOLEAN /\ synced' \in BOOLEAN /\ had' \in BOOLEAN
      /\ (disturbed' <=> disturbed \/ main' # main)
  <2>1. cut' = (cut \/ \E p \in Procs : Died(p)) /\ disturbed' = (disturbed \/ main' # main)
    BY DEF PowerLoss
  <2> QED
    BY <1>1, <2>1, Zenon
<1>3. main' = main \/ (~ synced /\ main' \in {Empty, Torn})
  BY DEF PowerLoss
<1>4. main' \in File /\ (main' # main => main' # Absent /\ main'.ver = 0 /\ main'.data = 0)
  BY <1>3, Markers
<1>5. TypeOK'
  BY <1>1, <1>2, <1>4 DEF Locked
<1>6. FilesOK' /\ RowsKept' /\ DamageOK'
  BY <1>1, <1>2, <1>3, <1>4 DEF FilesOK, RowsKept, DamageOK, Populated
<1>7. (\A q \in Procs : HolderOK(q)') /\ HadOK' /\ OpenOK'
  BY <1>1 DEF HolderOK, HadOK, OpenOK
<1>8. RestoringOK' /\ BackingOK' /\ KeptOK' /\ UndoOK'
  <2>1. Exposed' => Kept'
    BY <1>1, <1>2, <1>3 DEF Exposed, KeptOK, Kept, Holds
  <2> QED
    BY <1>1, <2>1, CommandEnds
<1> QED
  BY <1>5, <1>6, <1>7, <1>8

-----------------------------------------------------------------------------
(* The theorems *)

LEMMA InitStep == Init => IInv
<1> SUFFICES ASSUME Init PROVE IInv
  OBVIOUS
<1> USE DEF Init, Procs, Service, Operator, Nobody, SchemaVersion, Destinations
<1>1. main \in {Absent, Sound(1, 1)} /\ expected = main.data
  OBVIOUS
<1>2. /\ main \in File /\ main.data \in 0..MaxWrites /\ main # Torn /\ (main.ver = 0 => main.data = 0)
      /\ (main = Absent /\ main.data = 0) \/ Readable(main)
  <2>1. 1 \in 0..SchemaVersion /\ 1 \in 0..MaxWrites
    BY BoundsAssumption
  <2> QED
    BY <1>1, <2>1, Databases, Markers
<1>3. TypeOK
  <2>1. "idle" \in PCs /\ "idle" \notin Locked
    BY DEF PCs, Locked
  <2>2. NoSource \in [dest : Destinations, source : Sources \cup {"none"}, ver : 0..SchemaVersion]
    BY DEF NoSource, Sources
  <2>3. FlagsType
    BY Zenon DEF FlagsType
  <2> QED
    BY <1>1, <1>2, <2>1, <2>2, <2>3, Markers, Records, BoundsAssumption
    DEF TypeOK, FilesType, ControlType, CountersType
<1>4. FilesOK /\ (\A p \in Procs : HolderOK(p)) /\ HadOK /\ OpenOK
  BY <1>2 DEF FilesOK, HolderOK, HadOK, OpenOK
<1>5. RestoringOK /\ BackingOK /\ DamageOK /\ KeptOK /\ UndoOK
  BY DEF RestoringOK, BackingOK, DamageOK, KeptOK, UndoOK, Restoring, Backing, Overwriting, Exposed
<1>6. RowsKept
  BY <1>1, <1>2 DEF RowsKept
<1> QED
  BY <1>3, <1>4, <1>5, <1>6 DEF IInv

LEMMA NextStep ==
  ASSUME IInv, [Next]_vars
  PROVE  IInv'
<1>1. ASSUME NEW p \in Procs, Initializing(p) PROVE IInv'
  BY <1>1, InitializeStep, InspectStep, CopyLiveStep, EnsureBackupStep, PublishBackupStep, ApplyMigrationStep, InitializedStep, RestorePreMigrationStep DEF Initializing
<1>2. CASE Maintenance
  BY <1>2, SnapshotStep, LinkPreviousStep, ReplaceDestinationStep, BackupDoneStep, TruncateMainStep, RestoreDoneStep, RestoreFailsStep, UndoRestoreStep DEF Maintenance
<1>3. CASE UNCHANGED vars
  BY <1>3 DEF vars, files, history, IInv, TypeOK, FilesType, ControlType, FlagsType, CountersType, FilesOK, HolderOK,
              HadOK, OpenOK, RestoringOK, BackingOK, DamageOK, KeptOK, UndoOK, RowsKept, Restoring, Exposed, Kept,
              KeptBefore, Holds, Populated, Source
<1> QED
  BY <1>1, <1>2, <1>3, InitializeFailsStep, KillStep, BackupStep, RestoreStep, BackupFailsStep, WriteStep,
     LegacyWriteStep, StopServiceStep, PowerLossStep DEF Next

LEMMA Invariance == Spec => []IInv
<1>1. Init => IInv
  BY InitStep
<1>2. IInv /\ [Next]_vars => IInv'
  BY NextStep
<1> QED
  BY <1>1, <1>2, PTL DEF Spec

\* Whatever starts, failed migrations, backups, restores, kills and power losses
\* happen, and however many, the committed rows are in the database or, while a
\* restore cut short leaves it damaged, in a verified copy.
THEOREM RowsTheorem == Spec => []RowsSurvive
<1>1. IInv => RowsSurvive
  <2> SUFFICES ASSUME IInv PROVE Recoverable
    BY DEF IInv, RowsSurvive
  <2>1. disturbed /\ ~ reset => Kept
    BY DEF IInv, KeptOK, Exposed
  <2>2. ASSUME NEW d \in Destinations PROVE copy[d] \in {backup} \cup {copy[e] : e \in Destinations}
    OBVIOUS
  <2> QED
    BY <2>1, <2>2 DEF Recoverable, Kept, Holds
<1> QED
  BY <1>1, Invariance, PTL

\* A migration changes main.ver from 1 to SchemaVersion in one action only, and
\* there the holder of the lock knows what the backup is.
LEMMA MigrationStep ==
  ASSUME IInv, [Next]_vars, main.ver = 1, main'.ver = SchemaVersion, main'.data = main.data, main.data # 0
  PROVE  backup = [db |-> main, links |-> 1]
<1> USE DEF SchemaVersion, files, history
<1>1. main' # main
  OBVIOUS
<1>2. \/ \E p \in Procs : ApplyMigration(p) \/ RestorePreMigration(p)
      \/ TruncateMain \/ RestoreDone \/ UndoRestore \/ Write \/ LegacyWrite \/ PowerLoss
  BY <1>1 DEF Next, vars, Initializing, Maintenance, Initialize, Inspect, CopyLive, EnsureBackup, PublishBackup,
       Initialized, InitializeFails, Kill, Backup, Restore, BackupFails, StopService, Snapshot, LinkPrevious,
       ReplaceDestination, BackupDone, RestoreFails
<1>3. CASE \E p \in Procs : ApplyMigration(p)
  BY <1>3 DEF IInv, HolderOK, ApplyMigration
<1>4. CASE \E p \in Procs : RestorePreMigration(p)
  BY <1>4 DEF IInv, HolderOK, HadOK, RestorePreMigration
<1>5. CASE TruncateMain \/ PowerLoss
  BY <1>1, <1>5, Markers DEF TruncateMain, PowerLoss
<1>6. CASE RestoreDone \/ UndoRestore
  BY <1>6, Markers DEF IInv, RestoringOK, RestoreDone, UndoRestore, At
<1>7. CASE Write \/ LegacyWrite
  <2>1. main \in File /\ Readable(main) /\ main' = [main EXCEPT !.data = @ + 1] /\ main.data < MaxWrites
    BY <1>7, Databases DEF IInv, TypeOK, FilesType, Write, LegacyWrite
  <2> QED
    BY <2>1, OneMoreRow, Databases DEF Sound
<1> QED
  BY <1>2, <1>3, <1>4, <1>5, <1>6, <1>7

\* Rows of schema 1 are migrated only while .pre-migrate.bak holds exactly them under one name.
THEOREM BackupTheorem == Spec => MigrationHasBackup
<1>1. IInv /\ [Next]_vars =>
        [(main.ver = 1 /\ main'.ver = SchemaVersion /\ main'.data = main.data /\ main.data # 0)
           => backup = [db |-> main, links |-> 1]]_vars
  BY MigrationStep
<1> QED
  BY <1>1, Invariance, PTL DEF Spec, MigrationHasBackup
=============================================================================
