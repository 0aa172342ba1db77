------------------------ MODULE LinuxSecretStoreProofs ------------------------
(***************************************************************************)
(* Proofs about LinuxSecretStore for every set of processes, secret names   *)
(* and plaintexts, and every number of mutations and faults.  The guard     *)
(* record carries the argument: while it says FINALIZING on disk and in the *)
(* page cache no power loss can make a file that serves, and whenever it    *)
(* may say IDLE the secrets on disk are those in the cache.                 *)
(***************************************************************************)
EXTENDS LinuxSecretStore, SequenceTheorems, TLAPS

-----------------------------------------------------------------------------
(* The inductive invariant *)

OpRecord ==
  [kind : {"none", "open", "init", "put", "delete"}, key : Keys \cup {NoVal},
   val : Values \cup {NoVal}, tok : Nat, prev : Secrets, err : {"none", "failed", "cleanup"}]
Inspections ==
  [pc : {"idle", "guard", "check"}, state : Seq(StateSlots), guard : Seq(GuardSlots),
   seen : BOOLEAN, healthy : BOOLEAN]

FileTypes == cache \in Files /\ disk \in Files
ProcTypes ==
  /\ proc \in [Procs -> {"down", "opening", "idle", "waiting", "running"}]
  /\ fatal \in [Procs -> BOOLEAN] /\ loaded \in [Procs -> Nat]
  /\ req \in [Procs -> Requests \cup {NoReq}]
  /\ holder \in Procs \cup {NoProc}
  /\ \A p \in Procs : proc[p] = "running" <=> holder = p
OpTypes == pc \in Pcs /\ op \in OpRecord
HistTypes ==
  /\ allowed \in [Keys -> SUBSET (Values \cup {NoVal})]
  /\ before \in [Keys -> SUBSET (Values \cup {NoVal})]
  /\ clean \in BOOLEAN
CountTypes == ops \in 0..MaxOps /\ faults \in 0..MaxFaults

InsTypes == ins \in Inspections

Types == FileTypes /\ ProcTypes /\ OpTypes /\ HistTypes /\ CountTypes /\ InsTypes

Booting == {"boot_state", "guard_file", "boot_guard"}
Early == {"mutating_sync", "finalizing", "finalizing_sync", "key", "temp", "publish", "remove"}
Late == {"retire", "close", "healthy", "healthy_sync", "idle", "idle_sync", "idle_check"}
Poisoning == {"poison", "poison_sync", "recovery_marker"}
Begun == Early \cup {"validate"} \cup Late \cup Poisoning
Mutation == Begun \cup {"mutating"}
Quiet == {"none", "boot", "ready", "mutating", "ok", "failed", "indeterminate"}

Changes == op.kind \in {"put", "delete"}

\* Where the holder is, against the operation it performs.
PcOK ==
  /\ holder = NoProc <=> pc = "none"
  /\ holder # NoProc => op.kind # "none"
  /\ \A p \in Procs : proc[p] = "waiting" => req[p] \in Requests
  /\ pc \in Booting \cup {"boot", "ready"} => op.kind = "open"
  /\ pc \in {"none", "boot", "ready", "mutating"} \cup Booting \/ op.kind = "open" => op.tok = 0
  /\ pc \in Mutation => op.kind \in {"init", "put", "delete"}
  /\ Changes => op.key \in Keys
  /\ op.kind = "delete" => op.val = NoVal
  /\ pc = "mutating" => ops < MaxOps
  /\ pc \in Begun => op.tok = ops /\ ops # 0
  /\ pc = "key" => op.kind = "init"
  /\ pc \in {"temp", "publish", "validate", "retire"} => op.kind = "put"
  /\ pc = "remove" => op.kind = "delete"
  /\ pc \in Early \cup {"mutating", "validate", "retire", "close"} \/ op.kind = "open" => op.err = "none"
  /\ op.tok <= ops

\* No record carries a token that was not given out.
TokensUpTo(n, f) ==
  /\ \A i \in DOMAIN f.state : f.state[i].tok <= n
  /\ \A i \in DOMAIN f.guard : f.guard[i].tok <= n
TokensOK == TokensUpTo(ops, cache) /\ TokensUpTo(ops, disk)

\* Until the guard has its slots the store is empty and nobody serves.
BootOK ==
  /\ Len(cache.state) = 2 <=> Len(disk.state) = 2
  /\ Len(cache.guard) = 2 <=> Len(disk.guard) = 2
  /\ Len(cache.guard) # 2 =>
       /\ cache.sec = NoFiles.sec /\ cache.mkey = 0 /\ ~ cache.marker
       /\ disk.sec = NoFiles.sec /\ disk.mkey = 0 /\ ~ disk.marker
       /\ allowed = [k \in Keys |-> {NoVal}] /\ ops = 0
  /\ pc \in Booting => Len(cache.guard) # 2
  /\ pc = "boot_state" => Len(cache.state) # 2
  /\ pc \in {"guard_file", "boot_guard"} => cache.state = InitialState /\ disk.state = InitialState
  /\ pc = "ready" => cache.state # <<>> \/ cache.guard # <<>>

Interrupted(f, tok) ==
  StateSelectable(f.state) /\ State(f).st = "MUTATING" /\ State(f).tok = tok
Finalizing(f, tok) ==
  GuardSelectable(f.guard) /\ Guard(f).st = "FINALIZING" /\ Guard(f).tok = tok

\* No power loss can make a guard that is idle.
Sealed(d, c) == d.guard = c.guard /\ GuardSelectable(c.guard) /\ Guard(c).st = "FINALIZING"

\* The two records, at every place of the protocol.
RecordsOK ==
  /\ Readable(cache) => cache.state = disk.state
  /\ pc = "mutating" => Readable(cache)
  /\ pc \in {"mutating_sync", "finalizing"} =>
       /\ Interrupted(cache, op.tok)
       /\ GuardSelectable(cache.guard) /\ Guard(cache).st = "IDLE"
       /\ Guard(cache).store + 1 = State(cache).seq /\ Guard(cache).tok # op.tok
  /\ pc \in (Early \ {"mutating_sync"}) \cup {"validate", "retire", "close", "healthy", "poison"} =>
       Interrupted(cache, op.tok) /\ cache.state = disk.state
  /\ pc \in {"finalizing_sync", "key", "temp", "publish", "remove", "validate", "retire", "close", "healthy"} =>
       Finalizing(cache, op.tok) /\ Guard(cache).store = State(cache).seq + 1
  /\ pc \in {"healthy_sync", "idle"} =>
       /\ StateSelectable(cache.state) /\ State(cache).st = "HEALTHY" /\ State(cache).tok = op.tok
       /\ Finalizing(cache, op.tok) /\ Guard(cache).store = State(cache).seq
  /\ pc = "idle" => cache.state = disk.state
  /\ pc \in {"idle_sync", "idle_check"} => Readable(cache)
  /\ pc = "idle_check" => cache.guard = disk.guard
  /\ pc \in {"key", "temp", "publish", "remove", "validate", "retire", "close", "healthy", "healthy_sync", "idle"}
             \cup Poisoning => Sealed(disk, cache)
  /\ pc \in Mutation \ Poisoning => ~ cache.marker

\* As long as nothing was cut short the page cache is on disk when nobody is inside.
CleanOK ==
  /\ clean => ~ cache.marker /\ ~ disk.marker /\ pc \notin Poisoning
  /\ clean /\ pc \in Quiet /\ Len(cache.guard) = 2 =>
       Readable(cache) /\ cache.state = disk.state /\ cache.guard = disk.guard

\* A power loss may leave an idle guard.
MayServe(d, c) ==
  \E g \in LostSlots(d.guard, c.guard, TornGuard) :
    Consecutive(g) /\ g[Newer(g)].st = "IDLE"

\* The secrets are on disk, expected and can be decrypted.
Good(d, c, expected) ==
  /\ d.sec = c.sec /\ d.mkey = c.mkey
  /\ \A k \in Keys :
       /\ c.sec[k].val \in expected[k]
       /\ c.sec[k].val # NoVal => c.mkey # 0 /\ c.sec[k].key = c.mkey

GoodOK == MayServe(disk, cache) => Good(disk, cache, allowed)

\* What each key holds when the body is over.
Result == [k \in Keys |-> IF Changes /\ k = op.key /\ op.err # "failed" THEN {op.val} ELSE before[k]]

\* What the mutation has done to the secrets, at every place of its body.
BodyOK ==
  /\ pc \in Begun =>
       \A k \in Keys :
         /\ before[k] \subseteq allowed[k]
         /\ Changes /\ k = op.key => op.val \in allowed[k]
  /\ pc \in Mutation /\ Changes => loaded[holder] # 0
  /\ pc \in Early => Good(disk, cache, before)
  /\ pc \in Early \cup {"mutating"} /\ op.kind = "init" => cache.mkey = 0
  /\ pc \in {"temp", "publish", "validate"} => cache.mkey = loaded[holder]
  /\ pc = "publish" => op.prev = cache.sec[op.key]
  /\ pc = "validate" =>
       /\ op.prev = disk.sec[op.key] /\ disk.mkey = cache.mkey
       /\ cache.sec = [disk.sec EXCEPT ![op.key] = [val |-> op.val, key |-> loaded[holder]]]
       /\ \A k \in Keys :
            /\ disk.sec[k].val \in before[k]
            /\ disk.sec[k].val # NoVal => disk.sec[k].key = disk.mkey
  /\ pc \in Late =>
       /\ Good(disk, cache, Result)
       /\ op.kind = "init" /\ op.err # "failed" => cache.mkey # 0

\* What the caller is about to be told.
AnswerOK ==
  /\ pc = "ok" /\ Changes /\ op.tok # 0 /\ MayServe(disk, cache) => cache.sec[op.key].val = op.val
  /\ pc = "failed" /\ Changes /\ op.tok # 0 /\ MayServe(disk, cache) => cache.sec[op.key].val \in before[op.key]

\* A process that opened the store without a key did so because it is blocked, for good.
Keyless(p) ==
  /\ loaded[p] = 0
  /\ \/ proc[p] \in {"idle", "waiting"}
     \/ holder = p /\ (Changes \/ (pc = "ok" /\ op.kind \in {"open", "init"}))
StuckOK ==
  \A p \in Procs : Keyless(p) =>
    /\ pc \in {"none", "boot", "ready", "ok", "failed"}
    /\ ~ Readable(cache) /\ (cache.state # <<>> \/ cache.guard # <<>>)

\* The state record was written since the inspection read it.
Moved(c, i) ==
  \/ ~ Consecutive(c.state) \/ ~ Consecutive(i.state)
  \/ State(c).seq > State(i).seq
InspectionOK ==
  /\ ins.pc # "idle" => Len(cache.state) = 2 /\ ~ ins.healthy
  /\ ins.pc = "guard" => cache.state = ins.state \/ Moved(cache, ins)
  /\ ins.pc = "check" /\ ~ ins.seen =>
       \/ Moved(cache, ins) \/ cache.marker
       \/ ~ StateSelectable(ins.state) \/ State(ins).st # "HEALTHY" \/ ~ GuardReleases(ins)
  /\ InspectionTruthful

IInv ==
  /\ Types /\ PcOK /\ TokensOK /\ BootOK /\ RecordsOK /\ CleanOK
  /\ GoodOK /\ BodyOK /\ AnswerOK /\ StuckOK /\ InspectionOK

-----------------------------------------------------------------------------
(* Slots and records *)

LEMMA Elements ==
  ASSUME NEW S, NEW s \in Seq(S)
  PROVE  /\ Len(s) \in Nat /\ DOMAIN s = 1..Len(s)
         /\ \A i \in DOMAIN s : s[i] \in S
         /\ Len(s) = 2 => DOMAIN s = 1..2 /\ s[1] \in S /\ s[2] \in S
<1>1. Len(s) \in Nat /\ s \in [1..Len(s) -> S]
  BY LenProperties
<1> QED
  BY <1>1

LEMMA Pair ==
  ASSUME NEW S, NEW t \in [1..2 -> S]
  PROVE  t \in Seq(S) /\ Len(t) = 2
<1>1. t \in Seq(S)
  BY SeqDef
<1>2. DOMAIN t = 1..2 /\ DOMAIN t = 1..Len(t) /\ Len(t) \in Nat
  BY <1>1, Elements
<1> QED
  BY <1>1, <1>2

LEMMA Slots ==
  /\ TornState \in StateSlots /\ TornGuard \in GuardSlots
  /\ \A x \in StateSlots : x.seq \in Nat /\ x.tok \in Nat
  /\ \A x \in GuardSlots : x.seq \in Nat /\ x.tok \in Nat /\ x.store \in Nat
BY DEF TornState, TornGuard, StateSlots, GuardSlots

LEMMA FirstSlots ==
  /\ <<TornState>> \in Seq(StateSlots) /\ Len(<<TornState>>) = 1 /\ <<TornState>>[1].tok = 0
  /\ <<TornGuard>> \in Seq(GuardSlots) /\ Len(<<TornGuard>>) = 1 /\ <<TornGuard>>[1].tok = 0
  /\ InitialState \in Seq(StateSlots) /\ Len(InitialState) = 2
  /\ InitialState[1].tok = 0 /\ InitialState[2].tok = 0
  /\ InitialGuard \in Seq(GuardSlots) /\ Len(InitialGuard) = 2
  /\ InitialGuard[1].tok = 0 /\ InitialGuard[2].tok = 0
BY DEF TornState, TornGuard, StateSlots, GuardSlots, InitialState, InitialGuard

\* A store whose records are new serves.
LEMMA FirstRecords ==
  ASSUME NEW f, f.state = InitialState, f.guard = InitialGuard, ~ f.marker
  PROVE  Readable(f)
<1>1. Newer(InitialState) = 1 /\ Newer(InitialGuard) = 1 /\ Other(1) = 2
  BY DEF Newer, Other, InitialState, InitialGuard
<1>2. Consecutive(InitialState) /\ Consecutive(InitialGuard)
  BY <1>1, FirstSlots DEF Consecutive, InitialState, InitialGuard
<1>3. StateSelectable(InitialState) /\ GuardSelectable(InitialGuard)
  BY <1>2 DEF StateSelectable, GuardSelectable
<1>4. State(f) = InitialState[1] /\ Guard(f) = InitialGuard[1]
  BY <1>1 DEF State, Guard
<1> QED
  BY <1>3, <1>4 DEF Readable, GuardReleases, InitialState, InitialGuard

\* The older slot of a pair that decodes is overwritten by its successor.
LEMMA Overwrite ==
  ASSUME NEW S, NEW s \in Seq(S), Consecutive(s), s[1].seq \in Nat, s[2].seq \in Nat,
         NEW x \in S, x.st = "torn" \/ x.seq = s[Newer(s)].seq + 1,
         NEW t \in [1..2 -> S], t[Other(Newer(s))] = x, t[Newer(s)] = s[Newer(s)]
  PROVE  /\ t \in Seq(S) /\ Len(t) = 2 /\ DOMAIN t = 1..2
         /\ \A i \in 1..2 : t[i] = x \/ (i \in DOMAIN s /\ t[i] = s[i])
         /\ x.st = "torn" => ~ Consecutive(t)
         /\ x.st # "torn" => Consecutive(t) /\ t[Newer(t)] = x /\ t[Other(Newer(t))] = s[Newer(s)]
<1>1. /\ DOMAIN s = 1..2 /\ Len(s) = 2 /\ s[1] \in S /\ s[2] \in S /\ s[1].st # "torn" /\ s[2].st # "torn"
  BY Elements DEF Consecutive
<1>2. Newer(s) \in 1..2 /\ Other(Newer(s)) \in 1..2 /\ Other(Newer(s)) # Newer(s)
      /\ Other(1) = 2 /\ Other(2) = 1
  BY DEF Newer, Other
<1>3. t \in Seq(S) /\ DOMAIN t = 1..2 /\ Len(t) = 2
  BY Pair
<1>4. \A i \in 1..2 : i = Newer(s) \/ i = Other(Newer(s))
  BY <1>2
<1>5. \A i \in 1..2 : t[i] = x \/ (i \in DOMAIN s /\ t[i] = s[i])
  BY <1>1, <1>4
<1>6. CASE x.st = "torn"
  BY <1>2, <1>3, <1>5, <1>6 DEF Consecutive
<1>7. CASE x.st # "torn"
  <2>1. Newer(t) = Other(Newer(s)) /\ Other(Newer(t)) = Newer(s)
    <3>1. CASE Newer(s) = 1
      BY <1>1, <1>2, <1>7, <3>1 DEF Newer
    <3>2. CASE Newer(s) = 2
      BY <1>1, <1>2, <1>7, <3>2 DEF Newer
    <3> QED
      BY <1>2, <3>1, <3>2
  <2>2. \A i \in 1..2 : t[i].st # "torn"
    BY <1>1, <1>2, <1>4, <1>7
  <2> QED
    BY <1>1, <1>2, <1>3, <1>5, <1>7, <2>1, <2>2 DEF Consecutive
<1> QED
  BY <1>3, <1>5, <1>6, <1>7

\* What the records say depends on nothing else in the files.
LEMMA SameRecords ==
  ASSUME NEW f, NEW g, f.state = g.state, f.guard = g.guard
  PROVE  /\ State(f) = State(g) /\ Guard(f) = Guard(g) /\ (GuardReleases(f) <=> GuardReleases(g))
         /\ \A t : (Interrupted(f, t) <=> Interrupted(g, t)) /\ (Finalizing(f, t) <=> Finalizing(g, t))
         /\ f.marker = g.marker => (Readable(f) <=> Readable(g))
         /\ ~ Readable(g) /\ ~ g.marker => ~ Readable(f)
         /\ \A n : TokensUpTo(n, g) => TokensUpTo(n, f)
<1>1. State(f) = State(g) /\ Guard(f) = Guard(g)
  BY DEF State, Guard
<1>2. GuardReleases(f) <=> GuardReleases(g)
  BY <1>1 DEF GuardReleases
<1> QED
  BY <1>1, <1>2 DEF Interrupted, Finalizing, Readable, TokensUpTo

\* A guard that both copies hold and that says FINALIZING stays so through a power loss.
LEMMA SealedServesNot ==
  ASSUME NEW d, NEW c, Sealed(d, c)
  PROVE  ~ MayServe(d, c)
<1>1. LostSlots(d.guard, c.guard, TornGuard) = {d.guard} /\ d.guard = c.guard
  BY DEF Sealed, LostSlots
<1>2. c.guard[Newer(c.guard)].st = "FINALIZING"
  BY DEF Sealed, Guard
<1> QED
  BY <1>1, <1>2 DEF MayServe

\* A store that serves may do so after a power loss: both copies are what is left of them.
LEMMA BothMayBeLeft ==
  ASSUME NEW d \in Seq(GuardSlots), NEW c \in Seq(GuardSlots), Len(c) = 2 <=> Len(d) = 2
  PROVE  d \in LostSlots(d, c, TornGuard) /\ c \in LostSlots(d, c, TornGuard)
<1>1. CASE d = c
  BY <1>1 DEF LostSlots
<1>2. CASE d # c /\ Len(d) # 2
  BY <1>2 DEF LostSlots
<1>3. CASE d # c /\ Len(d) = 2
  <2>1. d = <<d[1], d[2]>> /\ c = <<c[1], c[2]>>
    BY <1>3
  <2>2. LostSlots(d, c, TornGuard) =
          {<<x, y>> : x \in {d[1], c[1]} \cup (IF d[1] = c[1] THEN {} ELSE {TornGuard}),
                      y \in {d[2], c[2]} \cup (IF d[2] = c[2] THEN {} ELSE {TornGuard})}
    BY <1>3 DEF LostSlots
  <2>3. \A x \in {d[1], c[1]}, y \in {d[2], c[2]} : <<x, y>> \in LostSlots(d, c, TornGuard)
    BY <2>2
  <2> QED
    BY <2>1, <2>3
<1> QED
  BY <1>1, <1>2, <1>3

LEMMA ReadableMayServe ==
  ASSUME FileTypes, Len(cache.guard) = 2 <=> Len(disk.guard) = 2, Readable(cache) \/ Readable(disk)
  PROVE  MayServe(disk, cache)
<1>1. /\ disk.guard \in LostSlots(disk.guard, cache.guard, TornGuard)
      /\ cache.guard \in LostSlots(disk.guard, cache.guard, TornGuard)
  BY BothMayBeLeft DEF FileTypes, Files
<1>2. \A f : Readable(f) => Consecutive(f.guard) /\ f.guard[Newer(f.guard)].st = "IDLE"
  BY DEF Readable, GuardReleases, GuardSelectable, Guard
<1> QED
  BY <1>1, <1>2 DEF MayServe

LEMMA ReadableRecords ==
  ASSUME NEW f, Readable(f)
  PROVE  /\ StateSelectable(f.state) /\ State(f).st = "HEALTHY" /\ Len(f.state) = 2
         /\ GuardSelectable(f.guard) /\ Guard(f).st = "IDLE" /\ Len(f.guard) = 2
         /\ Guard(f).store = State(f).seq /\ Guard(f).tok = State(f).tok /\ ~ f.marker
BY DEF Readable, GuardReleases, StateSelectable, GuardSelectable, Consecutive

\* What a power loss leaves of the guard may be left already.
LEMMA LossMayServe ==
  ASSUME NEW f, f.guard \in LostSlots(disk.guard, cache.guard, TornGuard), MayServe(f, f)
  PROVE  MayServe(disk, cache)
<1>1. LostSlots(f.guard, f.guard, TornGuard) = {f.guard}
  BY DEF LostSlots
<1> QED
  BY <1>1 DEF MayServe

LEMMA SameGuards ==
  ASSUME NEW d, NEW c, NEW e, NEW f, d.guard = e.guard, c.guard = f.guard
  PROVE  (MayServe(d, c) <=> MayServe(e, f)) /\ (Sealed(d, c) <=> Sealed(e, f))
<1>1. Guard(c) = Guard(f)
  BY DEF Guard
<1> QED
  BY <1>1 DEF MayServe, Sealed

-----------------------------------------------------------------------------
(* The writes of the two records *)

\* f is the cache with another pair in one of the two records.
StateOnly(f, n) ==
  /\ f \in Files /\ Len(f.state) = 2 /\ TokensUpTo(n, f)
  /\ f.guard = cache.guard /\ f.sec = cache.sec /\ f.mkey = cache.mkey /\ f.marker = cache.marker
GuardOnly(f, n) ==
  /\ f \in Files /\ Len(f.guard) = 2 /\ TokensUpTo(n, f)
  /\ f.state = cache.state /\ f.sec = cache.sec /\ f.mkey = cache.mkey /\ f.marker = cache.marker

StateAt(a) == IF a = "mutating" THEN "MUTATING" ELSE IF a = "healthy" THEN "HEALTHY" ELSE "POISONED"
TokenAt(a) == IF a = "mutating" THEN ops + 1 ELSE op.tok

LEMMA StatePut ==
  ASSUME cache \in Files, Consecutive(cache.state), NEW x \in StateSlots, NEW n \in Nat,
         TokensUpTo(n, cache), x.tok <= n,
         x.st = "torn" \/ x.seq = State(cache).seq + 1
  PROVE  /\ StateOnly(PutState(x), n)
         /\ x.st = "torn" => ~ Consecutive(PutState(x).state)
         /\ x.st # "torn" =>
              /\ Consecutive(PutState(x).state) /\ State(PutState(x)) = x
              /\ PutState(x).state[Other(Newer(PutState(x).state))] = State(cache)
<1>1. /\ cache.state \in Seq(StateSlots) /\ DOMAIN cache.state = 1..2
      /\ cache.state[1] \in StateSlots /\ cache.state[2] \in StateSlots
      /\ cache.state[1].seq \in Nat /\ cache.state[2].seq \in Nat
  BY Elements, Slots DEF Files, Consecutive
<1>2. Newer(cache.state) \in 1..2 /\ Other(Newer(cache.state)) \in 1..2 /\ Newer(cache.state) # Other(Newer(cache.state))
  BY DEF Newer, Other
<1>3. PICK t : t = [cache.state EXCEPT ![Other(Newer(cache.state))] = x]
  OBVIOUS
<1>4. /\ PutState(x).state = t /\ PutState(x).guard = cache.guard /\ PutState(x).sec = cache.sec
      /\ PutState(x).mkey = cache.mkey /\ PutState(x).marker = cache.marker
      /\ t \in Seq(StateSlots) => PutState(x) \in Files
  BY <1>3 DEF PutState, Files
<1>5. /\ t \in [1..2 -> StateSlots] /\ t[Other(Newer(cache.state))] = x
      /\ t[Newer(cache.state)] = cache.state[Newer(cache.state)]
  BY <1>1, <1>2, <1>3
<1>6. x.st = "torn" \/ x.seq = cache.state[Newer(cache.state)].seq + 1
  BY DEF State
<1>7. /\ t \in Seq(StateSlots) /\ Len(t) = 2 /\ DOMAIN t = 1..2
      /\ \A i \in 1..2 : t[i] = x \/ (i \in DOMAIN cache.state /\ t[i] = cache.state[i])
      /\ x.st = "torn" => ~ Consecutive(t)
      /\ x.st # "torn" =>
           Consecutive(t) /\ t[Newer(t)] = x /\ t[Other(Newer(t))] = cache.state[Newer(cache.state)]
  BY <1>1, <1>5, <1>6, Overwrite
<1> QED
  BY <1>4, <1>7 DEF StateOnly, TokensUpTo, State

LEMMA GuardPut ==
  ASSUME cache \in Files, Consecutive(cache.guard), NEW x \in GuardSlots, NEW n \in Nat,
         TokensUpTo(n, cache), x.tok <= n,
         x.st = "torn" \/ x.seq = Guard(cache).seq + 1
  PROVE  /\ GuardOnly(PutGuard(x), n)
         /\ x.st = "torn" => ~ Consecutive(PutGuard(x).guard)
         /\ x.st # "torn" =>
              /\ Consecutive(PutGuard(x).guard) /\ Guard(PutGuard(x)) = x
              /\ PutGuard(x).guard[Other(Newer(PutGuard(x).guard))] = Guard(cache)
<1>1. /\ cache.guard \in Seq(GuardSlots) /\ DOMAIN cache.guard = 1..2
      /\ cache.guard[1] \in GuardSlots /\ cache.guard[2] \in GuardSlots
      /\ cache.guard[1].seq \in Nat /\ cache.guard[2].seq \in Nat
  BY Elements, Slots DEF Files, Consecutive
<1>2. Newer(cache.guard) \in 1..2 /\ Other(Newer(cache.guard)) \in 1..2 /\ Newer(cache.guard) # Other(Newer(cache.guard))
  BY DEF Newer, Other
<1>3. PICK t : t = [cache.guard EXCEPT ![Other(Newer(cache.guard))] = x]
  OBVIOUS
<1>4. /\ PutGuard(x).guard = t /\ PutGuard(x).state = cache.state /\ PutGuard(x).sec = cache.sec
      /\ PutGuard(x).mkey = cache.mkey /\ PutGuard(x).marker = cache.marker
      /\ t \in Seq(GuardSlots) => PutGuard(x) \in Files
  BY <1>3 DEF PutGuard, Files
<1>5. /\ t \in [1..2 -> GuardSlots] /\ t[Other(Newer(cache.guard))] = x
      /\ t[Newer(cache.guard)] = cache.guard[Newer(cache.guard)]
  BY <1>1, <1>2, <1>3
<1>6. x.st = "torn" \/ x.seq = cache.guard[Newer(cache.guard)].seq + 1
  BY DEF Guard
<1>7. /\ t \in Seq(GuardSlots) /\ Len(t) = 2 /\ DOMAIN t = 1..2
      /\ \A i \in 1..2 : t[i] = x \/ (i \in DOMAIN cache.guard /\ t[i] = cache.guard[i])
      /\ x.st = "torn" => ~ Consecutive(t)
      /\ x.st # "torn" =>
           Consecutive(t) /\ t[Newer(t)] = x /\ t[Other(Newer(t))] = cache.guard[Newer(cache.guard)]
  BY <1>1, <1>5, <1>6, Overwrite
<1> QED
  BY <1>4, <1>7 DEF GuardOnly, TokensUpTo, Guard

LEMMA MoreTokens ==
  ASSUME NEW f \in Files, NEW m \in Nat, NEW n \in Nat, m <= n, TokensUpTo(m, f)
  PROVE  TokensUpTo(n, f)
<1>1. f.state \in Seq(StateSlots) /\ f.guard \in Seq(GuardSlots)
  BY DEF Files
<1>2. \A i \in DOMAIN f.state : f.state[i].tok \in Nat
  BY <1>1, Elements, Slots
<1>3. \A i \in DOMAIN f.guard : f.guard[i].tok \in Nat
  BY <1>1, Elements, Slots
<1> QED
  BY <1>2, <1>3 DEF TokensUpTo

LEMMA Newest ==
  ASSUME cache \in Files
  PROVE  /\ Consecutive(cache.state) => State(cache) \in StateSlots
              /\ \E i \in DOMAIN cache.state : State(cache) = cache.state[i]
         /\ Consecutive(cache.guard) => Guard(cache) \in GuardSlots
              /\ \E i \in DOMAIN cache.guard : Guard(cache) = cache.guard[i]
<1>1. \A s : Newer(s) \in 1..2
  BY DEF Newer
<1> QED
  BY <1>1 DEF Files, State, Guard, Consecutive

\* The write of a slot of .store-state: whole, torn, or not begun.
LEMMA StateWrite ==
  ASSUME FileTypes, CountTypes, OpTypes, PcOK, TokensOK, RecordsOK, pc \in {"mutating", "healthy", "poison"},
         NEW n, n = IF pc = "mutating" THEN ops + 1 ELSE ops
  PROVE  /\ StateOnly(cache, n) /\ StateOnly(TornWrite(pc), n) /\ StateOnly(Written(pc), n)
         /\ Consecutive(cache.state) /\ ~ Consecutive(TornWrite(pc).state)
         /\ StateSelectable(Written(pc).state)
         /\ State(Written(pc)) = [seq |-> State(cache).seq + 1, st |-> StateAt(pc), tok |-> TokenAt(pc)]
<1>1. /\ StateSelectable(cache.state) /\ Consecutive(cache.state) /\ Len(cache.state) = 2
      /\ pc = "mutating" => State(cache).st = "HEALTHY"
      /\ pc # "mutating" => State(cache).st = "MUTATING" /\ State(cache).tok = op.tok
  BY ReadableRecords DEF RecordsOK, Mutation, Begun, Early, Late, Poisoning, Interrupted, StateSelectable, Consecutive
<1>2. /\ cache \in Files /\ ops \in Nat /\ n \in Nat /\ ops <= n
      /\ op.tok \in Nat /\ (pc # "mutating" => op.tok <= ops)
  BY DEF FileTypes, CountTypes, OpTypes, OpRecord, PcOK, Begun, Early, Late, Poisoning
<1>3. State(cache) \in StateSlots /\ State(cache).tok <= ops /\ State(cache).seq \in Nat /\ State(cache).tok \in Nat
  BY <1>1, <1>2, Newest DEF TokensOK, TokensUpTo, StateSlots
<1>4. TokensUpTo(n, cache)
  BY <1>2, MoreTokens DEF TokensOK
<1> DEFINE x == NextState(StateAt(pc), TokenAt(pc))
<1>5. /\ x \in StateSlots /\ x.tok <= n /\ x = [seq |-> State(cache).seq + 1, st |-> StateAt(pc), tok |-> TokenAt(pc)]
      /\ x.seq = State(cache).seq + 1 /\ x.st = StateAt(pc) /\ x.tok = TokenAt(pc) /\ x.st # "torn"
  BY <1>2, <1>3 DEF NextState, StateSlots, StateAt, TokenAt
<1>6. Written(pc) = PutState(x) /\ TornWrite(pc) = PutState(TornState)
  BY DEF Written, TornWrite, StateAt, TokenAt
<1> HIDE DEF x
<1>7. TornState \in StateSlots /\ TornState.tok <= n /\ TornState.st = "torn"
  BY <1>2, Slots DEF TornState
<1>8. /\ StateOnly(PutState(x), n) /\ Consecutive(PutState(x).state) /\ State(PutState(x)) = x
      /\ PutState(x).state[Other(Newer(PutState(x).state))] = State(cache)
  BY <1>1, <1>2, <1>4, <1>5, StatePut
<1>9. StateOnly(PutState(TornState), n) /\ ~ Consecutive(PutState(TornState).state)
  BY <1>1, <1>2, <1>4, <1>7, StatePut
<1>10. StateOnly(cache, n)
  BY <1>1, <1>2, <1>4 DEF StateOnly
<1>11. StateSelectable(PutState(x).state)
  <2>1. PutState(x).state[Newer(PutState(x).state)] = x
    BY <1>8 DEF State
  <2>2. pc = "mutating" => x.st = "MUTATING" /\ x.tok # State(cache).tok
    BY <1>2, <1>3, <1>5 DEF StateAt, TokenAt
  <2>3. pc # "mutating" => x.st \in {"HEALTHY", "POISONED"} /\ x.tok = State(cache).tok
    BY <1>1, <1>5 DEF StateAt, TokenAt
  <2> QED
    BY <1>1, <1>8, <2>1, <2>2, <2>3 DEF StateSelectable
<1> QED
  BY <1>1, <1>5, <1>6, <1>8, <1>9, <1>10, <1>11

\* The write of a slot of .store-completion-guard.
LEMMA GuardWrite ==
  ASSUME FileTypes, CountTypes, OpTypes, PcOK, TokensOK, RecordsOK, pc \in {"finalizing", "idle"}
  PROVE  /\ GuardOnly(cache, ops) /\ GuardOnly(TornWrite(pc), ops) /\ GuardOnly(Written(pc), ops)
         /\ GuardSelectable(Written(pc).guard)
         /\ Guard(Written(pc)) = [seq |-> Guard(cache).seq + 1,
                                  st |-> IF pc = "idle" THEN "IDLE" ELSE "FINALIZING",
                                  store |-> IF pc = "idle" THEN State(cache).seq ELSE State(cache).seq + 1,
                                  tok |-> op.tok]
<1>1. /\ GuardSelectable(cache.guard) /\ Consecutive(cache.guard) /\ Len(cache.guard) = 2
      /\ StateSelectable(cache.state) /\ Consecutive(cache.state)
      /\ pc = "finalizing" =>
           Guard(cache).st = "IDLE" /\ Guard(cache).store + 1 = State(cache).seq /\ Guard(cache).tok # op.tok
      /\ pc = "idle" =>
           Guard(cache).st = "FINALIZING" /\ Guard(cache).store = State(cache).seq /\ Guard(cache).tok = op.tok
  BY DEF RecordsOK, Interrupted, Finalizing, GuardSelectable, StateSelectable, Consecutive
<1>2. cache \in Files /\ ops \in Nat /\ op.tok \in Nat /\ op.tok <= ops /\ TokensUpTo(ops, cache)
  BY DEF FileTypes, CountTypes, OpTypes, OpRecord, PcOK, Begun, Early, Late, TokensOK
<1>3. /\ State(cache) \in StateSlots /\ State(cache).seq \in Nat
      /\ Guard(cache) \in GuardSlots /\ Guard(cache).seq \in Nat /\ Guard(cache).store \in Nat
  BY <1>1, <1>2, Newest DEF StateSlots, GuardSlots
<1> DEFINE st == IF pc = "idle" THEN "IDLE" ELSE "FINALIZING"
           store == IF pc = "idle" THEN State(cache).seq ELSE State(cache).seq + 1
           x == NextGuard(st, store, op.tok)
<1>4. /\ x \in GuardSlots /\ x.tok <= ops /\ x = [seq |-> Guard(cache).seq + 1, st |-> st, store |-> store, tok |-> op.tok]
      /\ x.seq = Guard(cache).seq + 1 /\ x.st = st /\ x.tok = op.tok /\ x.st # "torn" /\ x.store = store
  BY <1>2, <1>3 DEF NextGuard, GuardSlots
<1>5. Written(pc) = PutGuard(x) /\ TornWrite(pc) = PutGuard(TornGuard)
  BY DEF Written, TornWrite
<1> HIDE DEF x
<1>6. TornGuard \in GuardSlots /\ TornGuard.tok <= ops /\ TornGuard.st = "torn"
  BY <1>2, Slots DEF TornGuard
<1>7. /\ GuardOnly(PutGuard(x), ops) /\ Consecutive(PutGuard(x).guard) /\ Guard(PutGuard(x)) = x
      /\ PutGuard(x).guard[Other(Newer(PutGuard(x).guard))] = Guard(cache)
  BY <1>1, <1>2, <1>4, GuardPut
<1>8. GuardOnly(PutGuard(TornGuard), ops)
  BY <1>1, <1>2, <1>6, GuardPut
<1>9. GuardOnly(cache, ops)
  BY <1>1, <1>2 DEF GuardOnly
<1>10. GuardSelectable(PutGuard(x).guard)
  <2>1. PutGuard(x).guard[Newer(PutGuard(x).guard)] = x
    BY <1>7 DEF Guard
  <2>2. pc = "finalizing" => x.st = "FINALIZING" /\ x.store = Guard(cache).store + 2 /\ x.tok # Guard(cache).tok
    BY <1>1, <1>3, <1>4
  <2>3. pc = "idle" => x.st = "IDLE" /\ x.store = Guard(cache).store /\ x.tok = Guard(cache).tok
    BY <1>1, <1>4
  <2> QED
    BY <1>1, <1>7, <2>1, <2>2, <2>3 DEF GuardSelectable
<1> QED
  BY <1>4, <1>5, <1>7, <1>8, <1>9, <1>10

-----------------------------------------------------------------------------
(* The read-only inspection *)

\* A state record that was written since the inspection read it stays another one.
LEMMA Moves ==
  ASSUME InsTypes, Consecutive(cache.state), State(cache).seq \in Nat, NEW f,
         ~ Consecutive(f.state) \/ (Consecutive(f.state) /\ State(f).seq = State(cache).seq + 1),
         cache.state = ins.state \/ Moved(cache, ins)
  PROVE  Moved(f, ins)
<1>1. CASE cache.state = ins.state
  BY <1>1 DEF Moved, State
<1>2. CASE Moved(cache, ins) /\ Consecutive(ins.state)
  <2>1. ins.state \in Seq(StateSlots) /\ Newer(ins.state) \in 1..2
    BY DEF InsTypes, Inspections, Newer
  <2>2. State(ins).seq \in Nat
    BY <1>2, <2>1, Elements, Slots DEF State, Consecutive
  <2> QED
    BY <1>2, <2>2 DEF Moved
<1> QED
  BY <1>1, <1>2 DEF Moved

-----------------------------------------------------------------------------
(* What the steps have in common *)

\* A step that writes neither record.
KeepsRecords ==
  /\ cache'.state = cache.state /\ cache'.guard = cache.guard
  /\ disk'.state = disk.state /\ disk'.guard = disk.guard
  /\ State(cache') = State(cache) /\ Guard(cache') = Guard(cache)
  /\ \A t : (Interrupted(cache', t) <=> Interrupted(cache, t)) /\ (Finalizing(cache', t) <=> Finalizing(cache, t))
  /\ (Sealed(disk', cache') <=> Sealed(disk, cache)) /\ (MayServe(disk', cache') <=> MayServe(disk, cache))
  /\ cache'.marker = cache.marker => (Readable(cache') <=> Readable(cache))

\* A step inside a mutation whose guard record is FINALIZING on disk.
StaysSealed ==
  /\ Sealed(disk, cache) /\ ~ MayServe(disk, cache) /\ ~ Readable(cache)
  /\ Sealed(disk', cache') /\ ~ MayServe(disk', cache') /\ ~ Readable(cache')

LEMMA RecordsKept ==
  ASSUME cache'.state = cache.state, cache'.guard = cache.guard,
         disk'.state = disk.state, disk'.guard = disk.guard
  PROVE  KeepsRecords
<1>1. /\ State(cache') = State(cache) /\ Guard(cache') = Guard(cache)
      /\ \A t : (Interrupted(cache', t) <=> Interrupted(cache, t)) /\ (Finalizing(cache', t) <=> Finalizing(cache, t))
      /\ cache'.marker = cache.marker => (Readable(cache') <=> Readable(cache))
  BY SameRecords
<1>2. (Sealed(disk', cache') <=> Sealed(disk, cache)) /\ (MayServe(disk', cache') <=> MayServe(disk, cache))
  BY SameGuards
<1> QED
  BY <1>1, <1>2 DEF KeepsRecords

SealedPlaces ==
  {"key", "temp", "publish", "remove", "validate", "retire", "close", "healthy", "healthy_sync", "idle"} \cup Poisoning

LEMMA SealKept ==
  ASSUME IInv, pc \in SealedPlaces, cache'.guard = cache.guard, disk'.guard \in {disk.guard, cache.guard}
  PROVE  StaysSealed
<1>1. Sealed(disk, cache)
  BY DEF IInv, RecordsOK, SealedPlaces
<1>2. Sealed(disk', cache')
  BY <1>1 DEF Sealed, Guard
<1>3. ~ MayServe(disk, cache) /\ ~ MayServe(disk', cache')
  BY <1>1, <1>2, SealedServesNot
<1>4. ~ Readable(cache) /\ ~ Readable(cache')
  BY <1>1, <1>2 DEF Sealed, Readable, GuardReleases
<1> QED
  BY <1>1, <1>2, <1>3, <1>4 DEF StaysSealed

\* Before and after the body every secret on disk is one a caller may expect.
LEMMA BodyGood ==
  ASSUME IInv, pc \in Early \cup Late
  PROVE  Good(disk, cache, allowed)
<1>1. \A k \in Keys : before[k] \subseteq allowed[k] /\ (Changes /\ k = op.key => op.val \in allowed[k])
  BY DEF IInv, BodyOK, Begun
<1>2. CASE pc \in Early
  BY <1>1, <1>2 DEF IInv, BodyOK, Good
<1>3. CASE pc \in Late
  <2>1. \A k \in Keys : Result[k] \subseteq allowed[k]
    BY <1>1 DEF Result
  <2> QED
    BY <1>3, <2>1 DEF IInv, BodyOK, Good
<1> QED
  BY <1>2, <1>3

\* The state record once place pc has written its slot
NextWritten(f) ==
  /\ StateSelectable(f.state) /\ Consecutive(f.state)
  /\ State(f).seq = State(cache).seq + 1 /\ State(f).st = StateAt(pc) /\ State(f).tok = TokenAt(pc)

LEMMA StateWritten ==
  ASSUME IInv, pc \in {"mutating", "healthy", "poison"}, cache' \in {cache, TornWrite(pc), Written(pc)},
         NEW n, n = IF pc = "mutating" THEN ops + 1 ELSE ops
  PROVE  /\ StateOnly(cache', n) /\ Consecutive(cache.state) /\ State(cache).seq \in Nat
         /\ cache' = cache \/ ~ Consecutive(cache'.state) \/ NextWritten(cache')
         /\ cache' = Written(pc) => NextWritten(cache') /\ ~ Readable(cache')
         /\ Readable(cache') => cache' = cache
         /\ Guard(cache') = Guard(cache) /\ Len(cache.state) = 2 /\ Len(cache.guard) = 2
         /\ cache'.guard = cache.guard /\ (MayServe(disk, cache') <=> MayServe(disk, cache))
<1> USE DEF IInv, Types
<1>1. /\ StateOnly(cache, n) /\ StateOnly(TornWrite(pc), n) /\ StateOnly(Written(pc), n)
      /\ Consecutive(cache.state) /\ ~ Consecutive(TornWrite(pc).state)
      /\ StateSelectable(Written(pc).state)
      /\ State(Written(pc)) = [seq |-> State(cache).seq + 1, st |-> StateAt(pc), tok |-> TokenAt(pc)]
  BY StateWrite
<1>2. StateOnly(cache', n) /\ cache'.guard = cache.guard
  BY <1>1 DEF StateOnly
<1>3. Guard(cache') = Guard(cache) /\ (MayServe(disk, cache') <=> MayServe(disk, cache))
  BY <1>2, SameGuards DEF Guard
<1>4. State(cache).seq \in Nat /\ Len(cache.state) = 2
  BY <1>1, Newest DEF FileTypes, StateSlots, Consecutive
<1>5. GuardSelectable(cache.guard) /\ Len(cache.guard) = 2 /\ (pc # "mutating" => Guard(cache).st = "FINALIZING")
  BY ReadableRecords DEF RecordsOK, Sealed, GuardSelectable, Consecutive, Poisoning
<1>6. NextWritten(Written(pc))
  BY <1>1 DEF NextWritten, StateSelectable
<1>7. cache' = Written(pc) => ~ Readable(cache')
  <2>1. pc # "mutating" => ~ Readable(cache')
    BY <1>3, <1>5 DEF Readable, GuardReleases
  <2>2. pc = "mutating" /\ cache' = Written(pc) => State(cache').st = "MUTATING"
    BY <1>6 DEF NextWritten, StateAt
  <2> QED
    BY <2>1, <2>2 DEF Readable
<1>8. ~ Consecutive(cache'.state) => ~ Readable(cache')
  BY DEF Readable, StateSelectable
<1> QED
  BY <1>1, <1>2, <1>3, <1>4, <1>5, <1>6, <1>7, <1>8

LEMMA GuardWritten ==
  ASSUME IInv, pc \in {"finalizing", "idle"}, cache' \in {cache, TornWrite(pc), Written(pc)}
  PROVE  /\ GuardOnly(cache', ops) /\ State(cache') = State(cache)
         /\ Len(cache.state) = 2 /\ Len(cache.guard) = 2 /\ Good(disk, cache, allowed)
         /\ cache' = Written(pc) =>
              /\ GuardSelectable(cache'.guard)
              /\ Guard(cache').st = IF pc = "idle" THEN "IDLE" ELSE "FINALIZING"
              /\ Guard(cache').store = IF pc = "idle" THEN State(cache).seq ELSE State(cache).seq + 1
              /\ Guard(cache').tok = op.tok
              /\ Readable(cache') <=> pc = "idle"
<1> USE DEF IInv, Types
<1>1. /\ GuardOnly(cache, ops) /\ GuardOnly(TornWrite(pc), ops) /\ GuardOnly(Written(pc), ops)
      /\ GuardSelectable(Written(pc).guard)
      /\ Guard(Written(pc)) = [seq |-> Guard(cache).seq + 1,
                               st |-> IF pc = "idle" THEN "IDLE" ELSE "FINALIZING",
                               store |-> IF pc = "idle" THEN State(cache).seq ELSE State(cache).seq + 1,
                               tok |-> op.tok]
  BY GuardWrite
<1>2. GuardOnly(cache', ops) /\ cache'.state = cache.state /\ cache'.marker = cache.marker
  BY <1>1 DEF GuardOnly
<1>3. State(cache') = State(cache)
  BY <1>2 DEF State
<1>4. /\ StateSelectable(cache.state) /\ Len(cache.state) = 2 /\ Len(cache.guard) = 2 /\ ~ cache.marker
      /\ pc = "idle" => State(cache).st = "HEALTHY" /\ State(cache).tok = op.tok
  BY DEF RecordsOK, Interrupted, Finalizing, StateSelectable, GuardSelectable, Consecutive, Mutation, Begun, Early, Late, Poisoning
<1>5. Good(disk, cache, allowed)
  BY BodyGood DEF Early, Late
<1>6. cache' = Written(pc) => (Readable(cache') <=> pc = "idle")
  BY <1>1, <1>2, <1>3, <1>4 DEF Readable, GuardReleases
<1> QED
  BY <1>1, <1>2, <1>3, <1>4, <1>5, <1>6

\* What a power loss leaves of a file with two slots still has two slots, and is either copy of
\* a slot, or torn.
LEMMA Lost ==
  ASSUME NEW S, NEW d \in Seq(S), NEW c \in Seq(S), NEW torn \in S, Len(c) = 2 <=> Len(d) = 2,
         NEW s \in LostSlots(d, c, torn)
  PROVE  /\ s \in Seq(S) /\ (Len(s) = 2 <=> Len(c) = 2) /\ (d = c => s = c)
         /\ \A i \in DOMAIN s : s[i] = torn \/ (i \in DOMAIN d /\ s[i] = d[i]) \/ (i \in DOMAIN c /\ s[i] = c[i])
<1>1. CASE d = c
  BY <1>1 DEF LostSlots
<1>2. CASE d # c /\ Len(d) # 2
  <2>1. s = d \/ s = c \/ s = <<torn>>
    BY <1>2 DEF LostSlots
  <2>2. <<torn>> \in Seq(S) /\ Len(<<torn>>) = 1 /\ DOMAIN <<torn>> = {1} /\ <<torn>>[1] = torn
    OBVIOUS
  <2>3. CASE s = d \/ s = c
    BY <1>2, <2>3
  <2>4. CASE s = <<torn>>
    BY <1>2, <2>2, <2>4
  <2> QED
    BY <2>1, <2>3, <2>4
<1>3. CASE d # c /\ Len(d) = 2
  <2>1. d[1] \in S /\ d[2] \in S /\ c[1] \in S /\ c[2] \in S /\ DOMAIN d = 1..2 /\ DOMAIN c = 1..2
    BY <1>3, Elements
  <2>2. PICK x \in {d[1], c[1], torn}, y \in {d[2], c[2], torn} : s = <<x, y>>
    BY <1>3 DEF LostSlots
  <2>3. s \in Seq(S) /\ Len(s) = 2 /\ DOMAIN s = 1..2 /\ s[1] = x /\ s[2] = y
    BY <2>1, <2>2
  <2> QED
    BY <1>3, <2>1, <2>2, <2>3
<1> QED
  BY <1>1, <1>2, <1>3

LEMMA Loss ==
  ASSUME IInv, PowerLoss
  PROVE  /\ faults < MaxFaults
         /\ faults' = faults + 1
         /\ cache' \in Files
         /\ disk' = cache'
         /\ TokensUpTo(ops, cache')
         /\ (Len(cache.state) = 2 <=> Len(cache'.state) = 2)
         /\ (Len(cache.guard) = 2 <=> Len(cache'.guard) = 2)
         /\ (disk.state = cache.state => cache'.state = cache.state)
         /\ (disk.guard = cache.guard => cache'.guard = cache.guard)
         /\ (\A k \in Keys : cache'.sec[k] \in {disk.sec[k], cache.sec[k]})
         /\ (disk.sec = cache.sec => cache'.sec = cache.sec)
         /\ cache'.mkey \in {disk.mkey, cache.mkey}
         /\ cache'.marker \in {disk.marker, cache.marker}
         /\ (MayServe(cache', cache') => MayServe(disk, cache))
         /\ (Readable(cache) /\ disk.state = cache.state /\ disk.guard = cache.guard /\ ~ disk.marker => Readable(cache'))
         /\ proc' = [p \in Procs |-> "down"]
         /\ fatal' = [p \in Procs |-> FALSE]
         /\ loaded' = [p \in Procs |-> 0]
         /\ req' = [p \in Procs |-> NoReq]
         /\ holder' = NoProc
         /\ pc' = "none"
         /\ op' = NoOp
         /\ clean' = (clean /\ holder = NoProc)
         /\ ins' = NoInspection
         /\ UNCHANGED <<hist, ops>>
<1> USE DEF IInv, Types
<1>1. PICK s \in LostSlots(disk.state, cache.state, TornState), g \in LostSlots(disk.guard, cache.guard, TornGuard),
           x \in [Keys -> {disk, cache}], m \in {disk.mkey, cache.mkey}, b \in {disk.marker, cache.marker} :
        cache' = [state |-> s, guard |-> g, sec |-> [k \in Keys |-> x[k].sec[k]], mkey |-> m, marker |-> b]
  BY DEF PowerLoss
<1>2. cache'.state = s /\ cache'.guard = g /\ cache'.sec = [k \in Keys |-> x[k].sec[k]] /\ cache'.mkey = m /\ cache'.marker = b
  BY <1>1
<1>3. /\ disk.state \in Seq(StateSlots) /\ cache.state \in Seq(StateSlots)
      /\ disk.guard \in Seq(GuardSlots) /\ cache.guard \in Seq(GuardSlots)
      /\ disk.sec \in [Keys -> Secrets] /\ cache.sec \in [Keys -> Secrets]
      /\ m \in Nat /\ b \in BOOLEAN /\ ops \in Nat
  BY DEF FileTypes, Files, CountTypes
<1>4. /\ s \in Seq(StateSlots) /\ (Len(s) = 2 <=> Len(cache.state) = 2) /\ (disk.state = cache.state => s = cache.state)
      /\ \A i \in DOMAIN s : s[i] = TornState \/ (i \in DOMAIN disk.state /\ s[i] = disk.state[i])
           \/ (i \in DOMAIN cache.state /\ s[i] = cache.state[i])
  BY <1>3, Lost, Slots DEF BootOK
<1>5. /\ g \in Seq(GuardSlots) /\ (Len(g) = 2 <=> Len(cache.guard) = 2) /\ (disk.guard = cache.guard => g = cache.guard)
      /\ \A i \in DOMAIN g : g[i] = TornGuard \/ (i \in DOMAIN disk.guard /\ g[i] = disk.guard[i])
           \/ (i \in DOMAIN cache.guard /\ g[i] = cache.guard[i])
  BY <1>3, Lost, Slots DEF BootOK
<1>6. \A k \in Keys : cache'.sec[k] \in {disk.sec[k], cache.sec[k]}
  BY <1>2
<1>7. cache'.sec \in [Keys -> Secrets] /\ (disk.sec = cache.sec => cache'.sec = cache.sec)
  <2>1. \A k \in Keys : x[k] = disk \/ x[k] = cache
    OBVIOUS
  <2>2. \A k \in Keys : x[k].sec[k] \in {disk.sec[k], cache.sec[k]} /\ disk.sec[k] \in Secrets /\ cache.sec[k] \in Secrets
    BY <1>3, <2>1
  <2>3. cache'.sec \in [Keys -> Secrets]
    BY <1>2, <2>2
  <2>4. disk.sec = cache.sec => \A k \in Keys : cache'.sec[k] = cache.sec[k]
    BY <1>2, <2>2
  <2> QED
    BY <1>3, <2>3, <2>4
<1>8. cache' \in Files
  BY <1>1, <1>2, <1>3, <1>4, <1>5, <1>7 DEF Files
<1>9. TokensUpTo(ops, cache')
  <2>1. \A i \in DOMAIN s : s[i].tok <= ops
    BY <1>3, <1>4 DEF TokensOK, TokensUpTo, TornState
  <2>2. \A i \in DOMAIN g : g[i].tok <= ops
    BY <1>3, <1>5 DEF TokensOK, TokensUpTo, TornGuard
  <2> QED
    BY <1>2, <2>1, <2>2 DEF TokensUpTo
<1>10. MayServe(cache', cache') => MayServe(disk, cache)
  BY <1>2, LossMayServe
<1>11. Readable(cache) /\ disk.state = cache.state /\ disk.guard = cache.guard /\ ~ disk.marker => Readable(cache')
  BY <1>2, <1>4, <1>5, SameRecords, ReadableRecords
<1>12. /\ faults < MaxFaults
       /\ faults' = faults + 1
       /\ disk' = cache'
       /\ proc' = [p \in Procs |-> "down"]
       /\ fatal' = [p \in Procs |-> FALSE]
       /\ loaded' = [p \in Procs |-> 0]
       /\ req' = [p \in Procs |-> NoReq]
       /\ holder' = NoProc
       /\ pc' = "none"
       /\ op' = NoOp
       /\ clean' = (clean /\ holder = NoProc)
       /\ ins' = NoInspection
       /\ UNCHANGED <<hist, ops>>
  BY DEF PowerLoss, Abandon, Fault, hist
<1> QED
  BY <1>2, <1>4, <1>5, <1>6, <1>7, <1>8, <1>9, <1>10, <1>11, <1>12

-----------------------------------------------------------------------------
(* The steps: one lemma for each action, one step for each conjunct of IInv. *)
(* First processes and the lock, and a kill of the holder or of another one  *)

LEMMA StartStep ==
  ASSUME IInv, NEW p \in Procs, Start(p)
  PROVE  IInv'
<1> USE DEF IInv, Types
<1>1. FileTypes' /\ ProcTypes' /\ OpTypes'
  BY DEF Start, files, hist, FileTypes, ProcTypes, OpTypes, Pcs, OpRecord
<1>2. HistTypes' /\ CountTypes' /\ InsTypes'
  BY DEF Start, files, hist, HistTypes, CountTypes, InsTypes, Inspections
<1>3. PcOK'
  BY DEF Start, files, hist, PcOK, Booting, Early, Late, Poisoning, Begun, Mutation, Changes
<1>4. TokensOK'
  BY DEF Start, files, hist, TokensOK
<1>5. BootOK'
  BY DEF Start, files, hist, BootOK, Booting
<1>6. RecordsOK'
  BY DEF Start, files, hist, RecordsOK, Early, Late, Poisoning, Begun, Mutation
<1>7. CleanOK'
  BY DEF Start, files, hist, CleanOK, Quiet, Poisoning
<1>8. GoodOK'
  BY DEF Start, files, hist, GoodOK
<1>9. BodyOK'
  BY DEF Start, files, hist, BodyOK, Early, Late, Poisoning, Begun, Mutation, Changes, Result
<1>10. AnswerOK'
  BY DEF Start, files, hist, AnswerOK, Changes
<1>11. StuckOK'
  BY DEF Start, files, hist, StuckOK, Keyless, Changes
<1>12. InspectionOK'
  BY DEF Start, files, hist, InspectionOK, InspectionTruthful
<1> QED
  BY <1>1, <1>2, <1>3, <1>4, <1>5, <1>6, <1>7, <1>8, <1>9, <1>10, <1>11, <1>12

LEMMA LockTimesOutStep ==
  ASSUME IInv, NEW p \in Procs, LockTimesOut(p)
  PROVE  IInv'
<1> USE DEF IInv, Types
<1>1. FileTypes' /\ ProcTypes' /\ OpTypes'
  BY DEF LockTimesOut, files, hist, FileTypes, ProcTypes, OpTypes, Pcs, OpRecord
<1>2. HistTypes' /\ CountTypes' /\ InsTypes'
  BY DEF LockTimesOut, files, hist, HistTypes, CountTypes, InsTypes, Inspections
<1>3. PcOK'
  BY DEF LockTimesOut, files, hist, PcOK, Booting, Early, Late, Poisoning, Begun, Mutation, Changes,
     CountTypes, OpTypes, Pcs, OpRecord, ProcTypes
<1>4. TokensOK'
  BY DEF LockTimesOut, files, hist, TokensOK
<1>5. BootOK'
  BY DEF LockTimesOut, files, hist, BootOK, Booting
<1>6. RecordsOK'
  BY DEF LockTimesOut, files, hist, RecordsOK, Early, Late, Poisoning, Begun, Mutation
<1>7. CleanOK'
  BY DEF LockTimesOut, files, hist, CleanOK, Quiet, Poisoning
<1>8. GoodOK'
  BY DEF LockTimesOut, files, hist, GoodOK
<1>9. BodyOK'
  BY DEF LockTimesOut, files, hist, BodyOK, Early, Late, Poisoning, Begun, Mutation, Changes, Result
<1>10. AnswerOK'
  BY DEF LockTimesOut, files, hist, AnswerOK, Changes
<1>11. StuckOK'
  BY DEF LockTimesOut, files, hist, StuckOK, Keyless, Changes
<1>12. InspectionOK'
  BY DEF LockTimesOut, files, hist, InspectionOK, InspectionTruthful
<1> QED
  BY <1>1, <1>2, <1>3, <1>4, <1>5, <1>6, <1>7, <1>8, <1>9, <1>10, <1>11, <1>12

LEMMA CallStep ==
  ASSUME IInv, NEW p \in Procs, NEW r \in Requests, Call(p, r)
  PROVE  IInv'
<1> USE DEF IInv, Types
<1>1. FileTypes' /\ ProcTypes' /\ OpTypes'
  BY DEF Call, files, hist, FileTypes, ProcTypes, OpTypes, Pcs, OpRecord
<1>2. HistTypes' /\ CountTypes' /\ InsTypes'
  BY DEF Call, files, hist, HistTypes, CountTypes, InsTypes, Inspections
<1>3. PcOK'
  BY DEF Call, files, hist, PcOK, Booting, Early, Late, Poisoning, Begun, Mutation, Changes,
     CountTypes, OpTypes, Pcs, OpRecord, ProcTypes
<1>4. TokensOK'
  BY DEF Call, files, hist, TokensOK
<1>5. BootOK'
  BY DEF Call, files, hist, BootOK, Booting
<1>6. RecordsOK'
  BY DEF Call, files, hist, RecordsOK, Early, Late, Poisoning, Begun, Mutation
<1>7. CleanOK'
  BY DEF Call, files, hist, CleanOK, Quiet, Poisoning
<1>8. GoodOK'
  BY DEF Call, files, hist, GoodOK
<1>9. BodyOK'
  BY DEF Call, files, hist, BodyOK, Early, Late, Poisoning, Begun, Mutation, Changes, Result
<1>10. AnswerOK'
  BY DEF Call, files, hist, AnswerOK, Changes
<1>11. StuckOK'
  BY DEF Call, files, hist, StuckOK, Keyless, Changes
<1>12. InspectionOK'
  BY DEF Call, files, hist, InspectionOK, InspectionTruthful
<1> QED
  BY <1>1, <1>2, <1>3, <1>4, <1>5, <1>6, <1>7, <1>8, <1>9, <1>10, <1>11, <1>12

LEMMA AcquireOpeningStep ==
  ASSUME IInv, NEW p \in Procs, Acquire(p), proc[p] = "opening"
  PROVE  IInv'
<1> USE DEF IInv, Types
<1>1. p # NoProc /\ (proc[p] = "waiting" => req[p].kind \in {"put", "delete"} /\ req[p].key \in Keys)
  BY SecretStoreAssumption DEF PcOK, Requests
<1>2. /\ holder = NoProc /\ holder' = p /\ p # NoProc /\ pc' = "boot" /\ op'.kind = "open"
      /\ op'.tok = 0 /\ op'.err = "none"
      /\ UNCHANGED <<cache, disk, fatal, loaded, allowed, before, clean, ops, faults, ins>>
      /\ proc' = [proc EXCEPT ![p] = "running"]
  BY <1>1 DEF Acquire, Go, NoOp, files, hist
<1> USE <1>1, <1>2
<1>3. FileTypes'
  BY DEF Acquire, Go, files, hist, FileTypes
<1>4. ProcTypes'
  BY SecretStoreAssumption, FirstSlots DEF Acquire, Go, files, hist, ProcTypes,
     SecretStoreAssumption
<1>5. OpTypes'
  <2>0. NoReq \in [kind : {"none"}, key : {NoVal}, val : {NoVal}]
    BY DEF NoReq
  <2>1. req[p] \in [kind : {"none", "put", "delete"}, key : Keys \cup {NoVal}, val : Values \cup {NoVal}]
    BY <2>0 DEF ProcTypes, Requests
  <2>2. proc[p] # "opening" => req[p].kind # "none"
    BY DEF Acquire, PcOK, Requests
  <2>3. op' = [kind |-> IF proc[p] = "opening" THEN "open" ELSE req[p].kind, key |-> req[p].key, val |-> req[p].val, tok |-> 0, prev |-> NoSecret, err |-> "none"]
    BY DEF Acquire, NoOp
  <2>4. pc' \in Pcs
    BY DEF Acquire, Go, Pcs
  <2>5. NoSecret \in Secrets
    BY DEF NoSecret, Secrets
  <2> QED
    BY <2>1, <2>3, <2>4, <2>5 DEF OpTypes, OpRecord
<1>6. HistTypes' /\ CountTypes' /\ InsTypes'
  BY DEF Acquire, Go, files, hist, HistTypes, CountTypes, InsTypes, Inspections
<1>7. PcOK'
  BY DEF Acquire, Go, files, hist, PcOK, Booting, Early, Late, Poisoning, Begun, Mutation, Changes
<1>8. TokensOK'
  BY DEF Acquire, Go, files, hist, TokensOK
<1>9. BootOK'
  BY DEF Acquire, Go, files, hist, BootOK, Booting
<1>10. RecordsOK'
  BY DEF Acquire, Go, files, hist, RecordsOK, Early, Late, Poisoning, Begun, Mutation
<1>11. CleanOK'
  BY DEF CleanOK, Quiet, Poisoning, RecordsOK, Early, Late, Begun, Mutation, PcOK, Booting, Changes
<1>12. GoodOK'
  BY DEF GoodOK
<1>13. BodyOK'
  BY DEF BodyOK, Early, Late, Poisoning, Begun, Mutation, Changes, Result
<1>14. AnswerOK'
  BY DEF AnswerOK, Changes
<1>15. StuckOK'
  BY DEF StuckOK, Keyless, Changes
<1>16. InspectionOK'
  BY DEF InspectionOK, InspectionTruthful
<1> QED
  BY <1>3, <1>4, <1>5, <1>6, <1>7, <1>8, <1>9, <1>10, <1>11, <1>12, <1>13, <1>14, <1>15, <1>16

LEMMA AcquireWaitingStep ==
  ASSUME IInv, NEW p \in Procs, Acquire(p), proc[p] = "waiting"
  PROVE  IInv'
<1> USE DEF IInv, Types
<1>1. p # NoProc /\ (proc[p] = "waiting" => req[p].kind \in {"put", "delete"} /\ req[p].key \in Keys)
  BY SecretStoreAssumption DEF PcOK, Requests
<1>2. /\ holder = NoProc /\ holder' = p /\ p # NoProc
      /\ \/ pc' = "mutating" /\ Readable(cache) /\ ops < MaxOps
         \/ pc' = "failed"
      /\ op'.kind \in {"put", "delete"} /\ op'.key \in Keys /\ op'.tok = 0 /\ op'.err = "none"
      /\ UNCHANGED <<cache, disk, fatal, loaded, allowed, before, clean, ops, faults, ins>>
      /\ proc' = [proc EXCEPT ![p] = "running"]
  BY <1>1 DEF Acquire, Go, NoOp, files, hist
<1> USE <1>1, <1>2
<1>3. FileTypes'
  BY DEF Acquire, Go, files, hist, FileTypes
<1>4. ProcTypes'
  BY SecretStoreAssumption, FirstSlots DEF Acquire, Go, files, hist, ProcTypes,
     SecretStoreAssumption
<1>5. OpTypes'
  <2>0. NoReq \in [kind : {"none"}, key : {NoVal}, val : {NoVal}]
    BY DEF NoReq
  <2>1. req[p] \in [kind : {"none", "put", "delete"}, key : Keys \cup {NoVal}, val : Values \cup {NoVal}]
    BY <2>0 DEF ProcTypes, Requests
  <2>2. proc[p] # "opening" => req[p].kind # "none"
    BY DEF Acquire, PcOK, Requests
  <2>3. op' = [kind |-> IF proc[p] = "opening" THEN "open" ELSE req[p].kind, key |-> req[p].key, val |-> req[p].val, tok |-> 0, prev |-> NoSecret, err |-> "none"]
    BY DEF Acquire, NoOp
  <2>4. pc' \in Pcs
    BY DEF Acquire, Go, Pcs
  <2>5. NoSecret \in Secrets
    BY DEF NoSecret, Secrets
  <2> QED
    BY <2>1, <2>3, <2>4, <2>5 DEF OpTypes, OpRecord
<1>6. HistTypes' /\ CountTypes' /\ InsTypes'
  BY DEF Acquire, Go, files, hist, HistTypes, CountTypes, InsTypes, Inspections
<1>7. PcOK'
  BY DEF Acquire, Go, files, hist, PcOK, Booting, Early, Late, Poisoning, Begun, Mutation, Changes,
     NoOp, ProcTypes, Requests, NoReq, CountTypes
<1>8. TokensOK'
  BY DEF Acquire, Go, files, hist, TokensOK
<1>9. BootOK'
  BY DEF Acquire, Go, files, hist, BootOK, Booting
<1>10. RecordsOK'
  BY DEF RecordsOK, Early, Late, Poisoning, Begun, Mutation, Readable
<1>11. CleanOK'
  BY DEF CleanOK, Quiet, Poisoning, RecordsOK, Early, Late, Begun, Mutation, PcOK, Booting, Changes
<1>12. GoodOK'
  BY DEF GoodOK
<1>13. BodyOK'
  BY DEF Changes, BodyOK, Early, Late, Poisoning, Begun, Mutation, StuckOK, Keyless, ProcTypes,
     PcOK, Booting, Result, Good
<1>14. AnswerOK'
  BY DEF AnswerOK, Changes
<1>15. StuckOK'
  BY DEF StuckOK, Keyless, Changes
<1>16. InspectionOK'
  BY DEF InspectionOK, InspectionTruthful
<1> QED
  BY <1>3, <1>4, <1>5, <1>6, <1>7, <1>8, <1>9, <1>10, <1>11, <1>12, <1>13, <1>14, <1>15, <1>16

LEMMA CrashHolderStep ==
  ASSUME IInv, NEW p \in Procs, Crash(p), holder = p
  PROVE  IInv'
<1> USE DEF IInv, Types
<1>1. /\ UNCHANGED <<cache, disk, allowed, before, ops, ins>> /\ p # NoProc
      /\ (\A q \in Procs : q # p => proc'[q] = proc[q] /\ loaded'[q] = loaded[q])
      /\ proc'[p] = "down" /\ holder' = NoProc /\ pc' = "none" /\ op' = NoOp /\ ~ clean'
  BY SecretStoreAssumption DEF Crash, Abandon, files, hist, ProcTypes
<1> USE <1>1
<1>2. FileTypes'
  BY DEF Crash, Fault, Abandon, files, hist, FileTypes
<1>3. ProcTypes'
  BY SecretStoreAssumption, FirstSlots DEF Crash, Fault, Abandon, files, hist, ProcTypes,
     SecretStoreAssumption
<1>4. OpTypes'
  BY SecretStoreAssumption, FirstSlots DEF Crash, Fault, Abandon, files, hist, OpTypes, Pcs,
     OpRecord, ProcTypes, NoOp, Requests, NoReq, Secrets, NoSecret, SecretStoreAssumption
<1>5. HistTypes'
  BY DEF Crash, Fault, Abandon, files, hist, HistTypes
<1>6. CountTypes'
  BY SecretStoreAssumption DEF Crash, Fault, Abandon, files, hist, CountTypes, SecretStoreAssumption
<1>7. InsTypes'
  BY DEF Crash, Fault, Abandon, files, hist, InsTypes, Inspections
<1>8. PcOK'
  BY DEF Crash, Fault, Abandon, files, hist, PcOK, Booting, Early, Late, Poisoning, Begun, Mutation,
     Changes, NoOp, ProcTypes, Requests, NoReq, CountTypes
<1>9. TokensOK'
  BY DEF Crash, Fault, Abandon, files, hist, TokensOK
<1>10. BootOK'
  BY DEF Crash, Fault, Abandon, files, hist, BootOK, Booting
<1>11. RecordsOK'
  BY DEF Crash, Fault, Abandon, files, hist, RecordsOK, Early, Late, Poisoning, Begun, Mutation
<1>12. CleanOK'
  BY DEF Crash, Fault, Abandon, files, hist, CleanOK, Quiet, Poisoning
<1>13. GoodOK'
  BY DEF Crash, Fault, Abandon, files, hist, GoodOK
<1>14. BodyOK'
  BY DEF Crash, Fault, Abandon, files, hist, BodyOK, Early, Late, Poisoning, Begun, Mutation,
     Changes, Result
<1>15. AnswerOK'
  BY DEF Crash, Fault, Abandon, files, hist, AnswerOK, Changes
<1>16. StuckOK'
  BY SecretStoreAssumption DEF Changes, StuckOK, Keyless, ProcTypes, PcOK, Booting, Early, Late,
     Poisoning, Begun, Mutation, BodyOK, Result, Good, SecretStoreAssumption
<1>17. InspectionOK'
  BY DEF InspectionOK, InspectionTruthful
<1> QED
  BY <1>2, <1>3, <1>4, <1>5, <1>6, <1>7, <1>8, <1>9, <1>10, <1>11, <1>12, <1>13, <1>14, <1>15, <1>16, <1>17

LEMMA CrashOtherStep ==
  ASSUME IInv, NEW p \in Procs, Crash(p), holder # p
  PROVE  IInv'
<1> USE DEF IInv, Types
<1>1. /\ UNCHANGED <<cache, disk, allowed, before, ops, ins>> /\ p # NoProc
      /\ (\A q \in Procs : q # p => proc'[q] = proc[q] /\ loaded'[q] = loaded[q])
      /\ proc'[p] = "down" /\ UNCHANGED <<holder, pc, op, clean>>
  BY SecretStoreAssumption DEF Crash, Abandon, files, hist, ProcTypes
<1> USE <1>1
<1>2. FileTypes' /\ ProcTypes' /\ OpTypes'
  BY DEF Crash, Fault, Abandon, files, hist, FileTypes, ProcTypes, OpTypes, Pcs, OpRecord
<1>3. HistTypes' /\ CountTypes' /\ InsTypes'
  BY SecretStoreAssumption DEF Crash, Fault, Abandon, files, hist, HistTypes, CountTypes, InsTypes,
     Inspections, SecretStoreAssumption
<1>4. PcOK'
  BY DEF Crash, Fault, Abandon, files, hist, PcOK, Booting, Early, Late, Poisoning, Begun, Mutation,
     Changes
<1>5. TokensOK'
  BY DEF Crash, Fault, Abandon, files, hist, TokensOK
<1>6. BootOK'
  BY DEF Crash, Fault, Abandon, files, hist, BootOK, Booting
<1>7. RecordsOK'
  BY DEF Crash, Fault, Abandon, files, hist, RecordsOK, Early, Late, Poisoning, Begun, Mutation
<1>8. CleanOK'
  BY DEF Crash, Fault, Abandon, files, hist, CleanOK, Quiet, Poisoning
<1>9. GoodOK'
  BY DEF Crash, Fault, Abandon, files, hist, GoodOK
<1>10. BodyOK'
  BY DEF Crash, Fault, Abandon, files, hist, BodyOK, Early, Late, Poisoning, Begun, Mutation,
     Changes, Result
<1>11. AnswerOK'
  BY DEF Crash, Fault, Abandon, files, hist, AnswerOK, Changes
<1>12. StuckOK'
  BY DEF Changes, StuckOK, Keyless, ProcTypes, PcOK, Booting, Early, Late, Poisoning, Begun,
     Mutation, BodyOK, Result, Good
<1>13. InspectionOK'
  BY DEF InspectionOK, InspectionTruthful
<1> QED
  BY <1>2, <1>3, <1>4, <1>5, <1>6, <1>7, <1>8, <1>9, <1>10, <1>11, <1>12, <1>13

-----------------------------------------------------------------------------
(* The constructor, and leaving the lock *)

LEMMA BootStep ==
  ASSUME IInv, Boot
  PROVE  IInv'
<1> USE DEF IInv, Types
<1>1. Len(<<>>) = 0 /\ Len(<<TornState>>) = 1 /\ (\A f : Len(f.state) = 1 => ~ Readable(f))
  BY DEF Readable, StateSelectable, Consecutive
<1>2. /\ UNCHANGED <<disk, fatal, loaded, proc, req, holder, op, allowed, before, clean, ops, faults, ins>>
      /\ pc = "boot" /\ holder # NoProc /\ cache'.guard = cache.guard /\ cache'.sec = cache.sec
      /\ cache'.mkey = cache.mkey /\ cache'.marker = cache.marker
      /\ \/ cache.state = <<>> /\ cache.guard = <<>> /\ Len(cache.state) = 0
            /\ Len(cache'.state) = 1 /\ Len(cache.guard) # 2 /\ Len(cache.state) # 2
            /\ pc' = "boot_state" /\ ~ Readable(cache')
         \/ cache' = cache /\ (pc' = "failed" \/ (pc' = "ready"
            /\ (cache.state # <<>> \/ cache.guard # <<>>)))
  <2>1. CASE cache.state = <<>> /\ cache.guard = <<>>
    <3>1. cache' = [cache EXCEPT !.state = <<TornState>>] /\ pc' = "boot_state"
      BY <2>1 DEF Boot, Go
    <3>2. /\ cache'.state = <<TornState>> /\ cache'.guard = cache.guard /\ cache'.sec = cache.sec
          /\ cache'.mkey = cache.mkey /\ cache'.marker = cache.marker
      BY <3>1 DEF FileTypes, Files
    <3>3. Len(cache.state) = 0 /\ Len(cache.guard) # 2 /\ Len(cache.state) # 2 /\ Len(cache'.state) = 1
      BY <1>1, <2>1, <3>2
    <3>4. ~ Readable(cache')
      BY <1>1, <3>3
    <3>5. UNCHANGED <<disk, fatal, loaded, proc, req, holder, op, allowed, before, clean, ops, faults, ins>> /\ pc = "boot" /\ holder # NoProc
      BY DEF Boot, At, Keep, hist
    <3> QED
      BY <2>1, <3>1, <3>2, <3>3, <3>4, <3>5
  <2>2. CASE ~ (cache.state = <<>> /\ cache.guard = <<>>)
    BY <2>2 DEF Boot, At, Go, Keep, hist
  <2> QED
    BY <2>1, <2>2
<1>3. cache' = cache \/ Good(disk', cache', allowed)
  <2>1. cache' = cache \/ Len(cache.guard) # 2
    BY <1>2
  <2>2. CASE Len(cache.guard) # 2
    BY <1>2, <2>2 DEF BootOK, Good, NoFiles, NoSecret
  <2> QED
    BY <2>1, <2>2
<1> USE <1>1, <1>2, <1>3
<1>4. FileTypes'
  BY SecretStoreAssumption, FirstSlots DEF Boot, At, Go, Keep, hist, FileTypes, Files,
     SecretStoreAssumption
<1>5. ProcTypes'
  BY DEF Boot, At, Go, Keep, hist, ProcTypes
<1>6. OpTypes'
  BY DEF Boot, At, Go, Keep, hist, OpTypes, Pcs, OpRecord
<1>7. HistTypes' /\ CountTypes' /\ InsTypes'
  BY DEF Boot, At, Go, Keep, hist, HistTypes, CountTypes, InsTypes, Inspections
<1>8. PcOK'
  BY DEF Changes, PcOK, Booting, Early, Late, Poisoning, Begun, Mutation
<1>9. TokensOK'
  <2>1. cache' = cache \/ cache' = [cache EXCEPT !.state = <<TornState>>]
    BY DEF Boot
  <2>2. DOMAIN <<TornState>> = {1} /\ <<TornState>>[1].tok = 0
    BY DEF TornState
  <2>3. cache'.guard = cache.guard /\ (cache'.state = cache.state \/ cache'.state = <<TornState>>) /\ UNCHANGED <<disk, ops>>
    BY <2>1 DEF FileTypes, Files, Boot, Keep
  <2>4. ops \in Nat
    BY DEF CountTypes
  <2> QED
    BY <2>2, <2>3, <2>4 DEF TokensOK, TokensUpTo
<1>10. BootOK'
  <2>0. Len(<<>>) = 0 /\ Len(<<TornState>>) = 1
    OBVIOUS
  <2>1. CASE cache.state = <<>> /\ cache.guard = <<>>
    <3>1. cache' = [cache EXCEPT !.state = <<TornState>>] /\ pc' = "boot_state" /\ UNCHANGED <<disk, allowed, ops>>
      BY <2>1 DEF Boot, Go, Keep, hist
    <3>2. /\ cache'.state = <<TornState>> /\ cache'.guard = cache.guard /\ cache'.sec = cache.sec /\ cache'.mkey = cache.mkey /\ cache'.marker = cache.marker
      BY <3>1 DEF FileTypes, Files
    <3> QED
      BY <2>0, <2>1, <3>1, <3>2 DEF BootOK, Booting
  <2>2. CASE ~ (cache.state = <<>> /\ cache.guard = <<>>)
    BY <2>2 DEF Boot, Go, Keep, hist, BootOK, Booting
  <2> QED
    BY <2>1, <2>2
<1>11. RecordsOK'
  BY DEF RecordsOK, Early, Late, Poisoning, Begun, Mutation
<1>12. CleanOK'
  BY DEF CleanOK, Quiet, Poisoning
<1>13. GoodOK'
  BY DEF GoodOK
<1>14. BodyOK'
  BY DEF BodyOK, Early, Late, Poisoning, Begun, Mutation, Changes, Result
<1>15. AnswerOK'
  BY DEF AnswerOK, Changes, PcOK, Booting, Early, Late, Poisoning, Begun, Mutation
<1>16. StuckOK'
  BY DEF StuckOK, Keyless, Changes
<1>17. InspectionOK'
  BY DEF InspectionOK, InspectionTruthful
<1> QED
  BY <1>4, <1>5, <1>6, <1>7, <1>8, <1>9, <1>10, <1>11, <1>12, <1>13, <1>14, <1>15, <1>16, <1>17

LEMMA BootStateStep ==
  ASSUME IInv, BootState
  PROVE  IInv'
<1> USE DEF IInv, Types
<1>1. Len(InitialState) = 2 /\ Len(InitialGuard) = 2 /\ Len(<<TornGuard>>) = 1
  BY FirstSlots
<1>2. /\ UNCHANGED <<fatal, loaded, proc, req, holder, op, allowed, before, clean, ops, faults, ins>>
      /\ pc = "boot_state" /\ pc' = "guard_file" /\ Len(InitialState) = 2 /\ Len(cache.state) # 2
      /\ cache'.state = InitialState /\ cache'.guard = cache.guard /\ cache'.sec = cache.sec
      /\ cache'.mkey = cache.mkey /\ cache'.marker = cache.marker /\ disk'.state = InitialState
      /\ disk'.guard = disk.guard /\ disk'.sec = disk.sec /\ disk'.mkey = disk.mkey
      /\ disk'.marker = disk.marker /\ Len(cache.guard) # 2 /\ Len(disk.guard) # 2 /\ ops = 0
      /\ ~ cache.marker /\ ~ disk.marker /\ holder # NoProc
  BY <1>1, FirstRecords DEF BootState, At, Go, Keep, hist, FileTypes, Files, BootOK, Booting, State, NoFiles
<1>3. /\ Good(disk, cache, allowed) /\ Good(disk', cache', allowed)
  BY <1>2 DEF BootOK, Good, NoFiles, NoSecret
<1> USE <1>1, <1>2, <1>3
<1>4. FileTypes'
  BY SecretStoreAssumption, FirstSlots DEF BootState, At, Go, Keep, hist, FileTypes, Files,
     SecretStoreAssumption
<1>5. ProcTypes'
  BY DEF BootState, At, Go, Keep, hist, ProcTypes
<1>6. OpTypes'
  BY DEF BootState, At, Go, Keep, hist, OpTypes, Pcs, OpRecord
<1>7. HistTypes' /\ CountTypes' /\ InsTypes'
  BY DEF BootState, At, Go, Keep, hist, HistTypes, CountTypes, InsTypes, Inspections
<1>8. PcOK'
  BY DEF Changes, PcOK, Booting, Early, Late, Poisoning, Begun, Mutation
<1>9. TokensOK'
  <2>2. DOMAIN InitialState = 1..2 /\ \A i \in 1..2 : InitialState[i].tok = 0
    BY DEF InitialState
  <2>3. cache'.guard = cache.guard /\ cache'.state = InitialState /\ disk'.guard = disk.guard /\ disk'.state = InitialState /\ UNCHANGED ops
    BY DEF FileTypes, Files, BootState, Keep
  <2>4. ops \in Nat
    BY DEF CountTypes
  <2> QED
    BY <2>2, <2>3, <2>4 DEF TokensOK, TokensUpTo
<1>10. BootOK'
  BY DEF BootState, At, Go, Keep, hist, BootOK, Booting, FileTypes, Files
<1>11. RecordsOK'
  BY DEF BootState, At, Go, Keep, hist, RecordsOK, Early, Late, Poisoning, Begun, Mutation
<1>12. CleanOK'
  BY DEF BootState, At, Go, Keep, hist, CleanOK, Quiet, Poisoning
<1>13. GoodOK'
  BY DEF GoodOK
<1>14. BodyOK'
  BY DEF BodyOK, Early, Late, Poisoning, Begun, Mutation, Changes, Result
<1>15. AnswerOK'
  BY DEF AnswerOK, Changes
<1>16. StuckOK'
  BY DEF StuckOK, Keyless, Changes
<1>17. InspectionOK'
  BY DEF InspectionOK, InspectionTruthful
<1> QED
  BY <1>4, <1>5, <1>6, <1>7, <1>8, <1>9, <1>10, <1>11, <1>12, <1>13, <1>14, <1>15, <1>16, <1>17

LEMMA BootGuardFileStep ==
  ASSUME IInv, BootGuardFile
  PROVE  IInv'
<1> USE DEF IInv, Types
<1>1. Len(InitialState) = 2 /\ Len(InitialGuard) = 2 /\ Len(<<TornGuard>>) = 1
  BY FirstSlots
<1>2. /\ UNCHANGED <<fatal, loaded, proc, req, holder, op, allowed, before, clean, ops, faults, ins>>
      /\ pc = "guard_file" /\ pc' = "boot_guard" /\ disk' = disk /\ Len(cache.state) = 2
      /\ Len(cache'.guard) = 1 /\ cache.state = disk.state /\ cache'.state = cache.state
      /\ cache'.guard = <<TornGuard>> /\ cache'.sec = cache.sec /\ cache'.mkey = cache.mkey
      /\ cache'.marker = cache.marker /\ Len(cache.guard) # 2 /\ Len(disk.guard) # 2 /\ ops = 0
      /\ ~ cache.marker /\ ~ disk.marker /\ holder # NoProc /\ State(cache') = State(cache)
  BY <1>1, FirstRecords DEF BootGuardFile, At, Go, Keep, hist, FileTypes, Files, BootOK, Booting, State, NoFiles
<1>3. /\ Good(disk, cache, allowed) /\ Good(disk', cache', allowed)
  BY <1>2 DEF BootOK, Good, NoFiles, NoSecret
<1> USE <1>1, <1>2, <1>3
<1>4. FileTypes'
  BY SecretStoreAssumption, FirstSlots DEF BootGuardFile, At, Go, Keep, hist, FileTypes, Files,
     SecretStoreAssumption
<1>5. ProcTypes'
  BY DEF BootGuardFile, At, Go, Keep, hist, ProcTypes
<1>6. OpTypes'
  BY DEF BootGuardFile, At, Go, Keep, hist, OpTypes, Pcs, OpRecord
<1>7. HistTypes' /\ CountTypes' /\ InsTypes'
  BY DEF BootGuardFile, At, Go, Keep, hist, HistTypes, CountTypes, InsTypes, Inspections
<1>8. PcOK'
  BY DEF Changes, PcOK, Booting, Early, Late, Poisoning, Begun, Mutation
<1>9. TokensOK'
  <2>2. DOMAIN <<TornGuard>> = {1} /\ <<TornGuard>>[1].tok = 0
    BY DEF TornGuard
  <2>3. cache'.state = cache.state /\ cache'.guard = <<TornGuard>> /\ UNCHANGED <<disk, ops>>
    BY DEF FileTypes, Files, BootGuardFile, Keep
  <2>4. ops \in Nat
    BY DEF CountTypes
  <2> QED
    BY <2>2, <2>3, <2>4 DEF TokensOK, TokensUpTo
<1>10. BootOK'
  BY DEF BootGuardFile, At, Go, Keep, hist, BootOK, Booting, FileTypes, Files
<1>11. RecordsOK'
  BY DEF BootGuardFile, At, Go, Keep, hist, RecordsOK, Early, Late, Poisoning, Begun, Mutation,
     PcOK, Booting, Changes, BootOK
<1>12. CleanOK'
  BY DEF BootGuardFile, At, Go, Keep, hist, CleanOK, Quiet, Poisoning
<1>13. GoodOK'
  BY DEF GoodOK
<1>14. BodyOK'
  BY DEF BodyOK, Early, Late, Poisoning, Begun, Mutation, Changes, Result
<1>15. AnswerOK'
  BY DEF AnswerOK, Changes
<1>16. StuckOK'
  BY DEF StuckOK, Keyless, Changes
<1>17. InspectionOK'
  <2>1. Moved(cache', ins) <=> Moved(cache, ins)
    BY DEF Moved
  <2> QED
    BY <2>1 DEF InspectionOK, InspectionTruthful
<1> QED
  BY <1>4, <1>5, <1>6, <1>7, <1>8, <1>9, <1>10, <1>11, <1>12, <1>13, <1>14, <1>15, <1>16, <1>17

LEMMA BootGuardStep ==
  ASSUME IInv, BootGuard
  PROVE  IInv'
<1> USE DEF IInv, Types
<1>1. Len(InitialState) = 2 /\ Len(InitialGuard) = 2 /\ Len(<<TornGuard>>) = 1
  BY FirstSlots
<1>2. /\ UNCHANGED <<fatal, loaded, proc, req, holder, op, allowed, before, clean, ops, faults, ins>>
      /\ pc = "boot_guard" /\ pc' = "ready" /\ Readable(cache') /\ Len(cache.state) = 2
      /\ Len(InitialGuard) = 2 /\ cache.state = disk.state /\ cache'.state = cache.state
      /\ cache'.guard = InitialGuard /\ cache'.sec = cache.sec /\ cache'.mkey = cache.mkey
      /\ cache'.marker = cache.marker /\ disk'.state = disk.state /\ disk'.guard = InitialGuard
      /\ disk'.sec = disk.sec /\ disk'.mkey = disk.mkey /\ disk'.marker = disk.marker
      /\ Len(cache.guard) # 2 /\ Len(disk.guard) # 2 /\ ops = 0 /\ ~ cache.marker /\ ~ disk.marker
      /\ holder # NoProc /\ State(cache') = State(cache)
  BY <1>1, FirstRecords DEF BootGuard, At, Go, Keep, hist, FileTypes, Files, BootOK, Booting, State, NoFiles
<1>3. /\ Good(disk, cache, allowed) /\ Good(disk', cache', allowed)
  BY <1>2 DEF BootOK, Good, NoFiles, NoSecret
<1> USE <1>1, <1>2, <1>3
<1>4. FileTypes'
  BY SecretStoreAssumption, FirstSlots DEF BootGuard, At, Go, Keep, hist, FileTypes, Files,
     SecretStoreAssumption
<1>5. ProcTypes'
  BY DEF BootGuard, At, Go, Keep, hist, ProcTypes
<1>6. OpTypes'
  BY DEF BootGuard, At, Go, Keep, hist, OpTypes, Pcs, OpRecord
<1>7. HistTypes' /\ CountTypes' /\ InsTypes'
  BY DEF BootGuard, At, Go, Keep, hist, HistTypes, CountTypes, InsTypes, Inspections
<1>8. PcOK'
  BY DEF Changes, PcOK, Booting, Early, Late, Poisoning, Begun, Mutation
<1>9. TokensOK'
  <2>2. DOMAIN InitialGuard = 1..2 /\ \A i \in 1..2 : InitialGuard[i].tok = 0
    BY DEF InitialGuard
  <2>3. cache'.state = cache.state /\ cache'.guard = InitialGuard /\ disk'.state = disk.state /\ disk'.guard = InitialGuard /\ UNCHANGED ops
    BY DEF FileTypes, Files, BootGuard, Keep
  <2>4. ops \in Nat
    BY DEF CountTypes
  <2> QED
    BY <2>2, <2>3, <2>4 DEF TokensOK, TokensUpTo
<1>10. BootOK'
  <2>0. Len(InitialGuard) = 2 /\ InitialGuard # <<>>
    BY FirstSlots DEF InitialGuard
  <2>3. cache'.state = cache.state /\ cache'.guard = InitialGuard /\ disk'.state = disk.state /\ disk'.guard = InitialGuard /\ UNCHANGED ops /\ pc' = "ready"
    BY DEF FileTypes, Files, BootGuard, Keep, Go
  <2> QED
    BY <2>0, <2>3 DEF BootOK, Booting
<1>11. RecordsOK'
  BY DEF BootGuard, At, Go, Keep, hist, RecordsOK, Early, Late, Poisoning, Begun, Mutation, PcOK,
     Booting, Changes, BootOK
<1>12. CleanOK'
  BY DEF CleanOK, Quiet, Poisoning
<1>13. GoodOK'
  BY DEF GoodOK
<1>14. BodyOK'
  BY DEF BodyOK, Early, Late, Poisoning, Begun, Mutation, Changes, Result
<1>15. AnswerOK'
  BY DEF AnswerOK, Changes
<1>16. StuckOK'
  BY DEF StuckOK, Keyless, Changes
<1>17. InspectionOK'
  <2>1. Moved(cache', ins) <=> Moved(cache, ins)
    BY DEF Moved
  <2> QED
    BY <2>1 DEF InspectionOK, InspectionTruthful
<1> QED
  BY <1>4, <1>5, <1>6, <1>7, <1>8, <1>9, <1>10, <1>11, <1>12, <1>13, <1>14, <1>15, <1>16, <1>17

LEMMA BootFailsStep ==
  ASSUME IInv, BootFails
  PROVE  IInv'
<1> USE DEF IInv, Types
<1>1. FileTypes' /\ ProcTypes' /\ OpTypes'
  BY DEF BootFails, Fault, Go, files, hist, FileTypes, ProcTypes, OpTypes, Pcs, OpRecord
<1>2. HistTypes'
  BY DEF BootFails, Fault, Go, files, hist, HistTypes
<1>3. CountTypes'
  BY SecretStoreAssumption DEF BootFails, Fault, Go, files, hist, CountTypes, SecretStoreAssumption
<1>4. InsTypes'
  BY DEF BootFails, Fault, Go, files, hist, InsTypes, Inspections
<1>5. PcOK'
  BY DEF BootFails, Fault, Go, files, hist, PcOK, Booting, Early, Late, Poisoning, Begun, Mutation,
     Changes
<1>6. TokensOK'
  BY DEF BootFails, Fault, Go, files, hist, TokensOK
<1>7. BootOK'
  BY DEF BootFails, Fault, Go, files, hist, BootOK, Booting
<1>8. RecordsOK'
  BY DEF BootFails, Fault, Go, files, hist, RecordsOK, Early, Late, Poisoning, Begun, Mutation
<1>9. CleanOK'
  BY DEF BootFails, Fault, Go, files, hist, CleanOK, Quiet, Poisoning
<1>10. GoodOK'
  BY DEF BootFails, Fault, Go, files, hist, GoodOK
<1>11. BodyOK'
  BY DEF BootFails, Fault, Go, files, hist, BodyOK, Early, Late, Poisoning, Begun, Mutation,
     Changes, Result
<1>12. AnswerOK'
  BY DEF BootFails, Fault, Go, files, hist, AnswerOK, Changes, PcOK, Booting, Early, Late,
     Poisoning, Begun, Mutation
<1>13. StuckOK'
  BY DEF BootFails, Fault, Go, files, hist, StuckOK, Keyless, Changes
<1>14. InspectionOK'
  BY DEF BootFails, Fault, Go, files, hist, InspectionOK, InspectionTruthful
<1> QED
  BY <1>1, <1>2, <1>3, <1>4, <1>5, <1>6, <1>7, <1>8, <1>9, <1>10, <1>11, <1>12, <1>13, <1>14

LEMMA ReadyStep ==
  ASSUME IInv, Ready
  PROVE  IInv'
<1> USE DEF IInv, Types
<1>1. /\ op'.tok = op.tok /\ op'.err = op.err /\ op'.key = op.key
      /\ UNCHANGED <<cache, disk, fatal, proc, req, holder, allowed, before, clean, ops, faults, ins>>
      /\ holder # NoProc /\ pc = "ready"
      /\ \/ ~ Readable(cache) /\ pc' = "ok" /\ op' = op /\ loaded' = loaded
         \/ Readable(cache) /\ cache.mkey # 0 /\ pc' = "ok" /\ op' = op
            /\ loaded' = [loaded EXCEPT ![holder] = cache.mkey]
         \/ Readable(cache) /\ cache.mkey = 0 /\ op'.kind = "init" /\ loaded' = loaded
            /\ (pc' = "failed" \/ (pc' = "mutating" /\ ops < MaxOps))
  <2>1. UNCHANGED <<cache, disk, fatal, proc, req, holder, allowed, before, clean, ops, faults, ins>> /\ holder # NoProc /\ pc = "ready"
    BY DEF Ready, At, hist, files
  <2>2. op' = op \/ op' = [op EXCEPT !.kind = "init"]
    BY DEF Ready
  <2>3. op'.tok = op.tok /\ op'.err = op.err /\ op'.key = op.key /\ (op' = [op EXCEPT !.kind = "init"] => op'.kind = "init")
    BY <2>2 DEF OpTypes, OpRecord
  <2>4. CASE ~ Readable(cache)
    <3>1. pc' = "ok" /\ op' = op /\ loaded' = loaded
      BY <2>4 DEF Ready, Go
    <3> QED
      BY <2>1, <2>3, <2>4, <3>1
  <2>5. CASE Readable(cache) /\ cache.mkey # 0
    <3>1. pc' = "ok" /\ op' = op /\ loaded' = [loaded EXCEPT ![holder] = cache.mkey]
      BY <2>5 DEF Ready, Go
    <3> QED
      BY <2>1, <2>3, <2>5, <3>1
  <2>6. CASE Readable(cache) /\ cache.mkey = 0
    BY <2>1, <2>3, <2>6 DEF Ready, Go
  <2> QED
    BY <2>1, <2>3, <2>4, <2>5, <2>6
<1> USE <1>1
<1>2. FileTypes'
  BY DEF Ready, At, Go, files, hist, FileTypes
<1>3. ProcTypes'
  <2>1. loaded' = loaded \/ loaded' = [loaded EXCEPT ![holder] = cache.mkey]
    BY DEF Ready
  <2>2. UNCHANGED <<proc, fatal, req, holder>> /\ cache.mkey \in Nat
    BY DEF Ready, FileTypes, Files
  <2> QED
    BY <2>1, <2>2, SecretStoreAssumption DEF ProcTypes
<1>4. OpTypes'
  BY DEF Ready, At, Go, files, hist, OpTypes, Pcs, OpRecord
<1>5. HistTypes' /\ CountTypes' /\ InsTypes'
  BY DEF Ready, At, Go, files, hist, HistTypes, CountTypes, InsTypes, Inspections
<1>6. PcOK'
  BY DEF Changes, PcOK, Booting, Early, Late, Poisoning, Begun, Mutation
<1>7. TokensOK'
  BY DEF Ready, At, Go, files, hist, TokensOK
<1>8. BootOK'
  BY DEF Ready, At, Go, files, hist, BootOK, Booting
<1>9. RecordsOK'
  BY DEF RecordsOK, Early, Late, Poisoning, Begun, Mutation, Readable
<1>10. CleanOK'
  BY DEF CleanOK, Quiet, Poisoning
<1>11. GoodOK'
  BY DEF GoodOK
<1>12. BodyOK'
  BY DEF BodyOK, Early, Late, Poisoning, Begun, Mutation, Changes, Result
<1>13. AnswerOK'
  BY DEF Changes, AnswerOK, PcOK, Booting, Early, Late, Poisoning, Begun, Mutation
<1>14. StuckOK'
  <2>1. op.kind = "open" /\ holder \in Procs /\ (cache.state # <<>> \/ cache.guard # <<>>)
    BY DEF PcOK, ProcTypes, BootOK
  <2>2. CASE ~ Readable(cache)
    BY <2>1, <2>2 DEF StuckOK
  <2>3. CASE Readable(cache)
    <3>1. \A q \in Procs : ~ Keyless(q)
      BY <2>3 DEF StuckOK
    <3>2. ~ Changes' /\ (pc' = "ok" => loaded'[holder] # 0) /\ \A q \in Procs : q # holder => loaded'[q] = loaded[q]
      BY <2>1, <2>3 DEF Changes, ProcTypes
    <3>3. \A q \in Procs : ~ Keyless(q)'
      BY <2>1, <2>3, <3>1, <3>2 DEF Keyless, Changes, ProcTypes
    <3> QED
      BY <3>3 DEF StuckOK
  <2> QED
    BY <2>2, <2>3
<1>15. InspectionOK'
  BY DEF InspectionOK, InspectionTruthful
<1> QED
  BY <1>2, <1>3, <1>4, <1>5, <1>6, <1>7, <1>8, <1>9, <1>10, <1>11, <1>12, <1>13, <1>14, <1>15

LEMMA UnlockStep ==
  ASSUME IInv, NEW bad \in BOOLEAN, Leave(bad), faults' \in 0..MaxFaults
  PROVE  IInv'
<1> USE DEF IInv, Types
<1>1. /\ UNCHANGED <<cache, disk, req, before, clean, ops, ins>> /\ holder # NoProc
      /\ holder' = NoProc /\ pc' = "none" /\ op' = NoOp /\ pc \in {"ok", "failed", "indeterminate"}
      /\ (~ Changes \/ op.tok = 0 => allowed' = allowed)
      /\ (Changes /\ op.tok # 0 => \A k \in Keys : allowed'[k] = IF k = op.key
           /\ pc = "ok" THEN {op.val} ELSE IF k = op.key
           /\ pc = "failed" THEN before[k] ELSE allowed[k])
      /\ (\A q \in Procs : q # holder => proc'[q] = proc[q] /\ loaded'[q] = loaded[q])
      /\ \/ proc'[holder] = "down"
         \/ proc'[holder] = "idle" /\ loaded'[holder] = loaded[holder]
            /\ (op.kind \in {"open", "init"} => pc = "ok")
  BY DEF Leave, Expect, files, Changes, ProcTypes, HistTypes, PcOK
<1> USE <1>1
<1>2. FileTypes'
  BY DEF Leave, Expect, files, FileTypes
<1>3. ProcTypes'
  BY SecretStoreAssumption, FirstSlots DEF Leave, Expect, files, ProcTypes, SecretStoreAssumption
<1>4. OpTypes'
  BY SecretStoreAssumption, FirstSlots DEF Leave, Expect, files, OpTypes, Pcs, OpRecord, ProcTypes,
     NoOp, Requests, NoReq, Secrets, NoSecret, SecretStoreAssumption
<1>5. HistTypes'
  BY DEF Leave, Expect, files, HistTypes, PcOK, Booting, Early, Late, Poisoning, Begun, Mutation,
     Changes, OpTypes, Pcs, OpRecord, ProcTypes, FileTypes
<1>6. CountTypes'
  BY SecretStoreAssumption DEF Leave, Expect, files, CountTypes, SecretStoreAssumption
<1>7. InsTypes'
  BY DEF Leave, Expect, files, InsTypes, Inspections
<1>8. PcOK'
  BY DEF Changes, PcOK, Booting, Early, Late, Poisoning, Begun, Mutation, NoOp, ProcTypes, Requests,
     NoReq, CountTypes
<1>9. TokensOK'
  BY DEF Leave, Expect, files, TokensOK
<1>10. BootOK'
  <2>1. /\ UNCHANGED <<cache, disk, ops>> /\ pc' = "none" /\ pc \in {"ok", "failed", "indeterminate"} /\ Expect
    BY DEF Leave, files
  <2>2. ops = 0 => op.tok = 0
    BY DEF PcOK, OpTypes, OpRecord, CountTypes
  <2>2a. ops = 0 => allowed' = allowed
    BY <2>1, <2>2 DEF Expect
  <2> QED
    BY <2>1, <2>2a DEF BootOK, Booting
<1>11. RecordsOK'
  BY DEF Leave, Expect, files, RecordsOK, Early, Late, Poisoning, Begun, Mutation
<1>12. CleanOK'
  BY DEF Leave, Expect, files, CleanOK, Quiet, Poisoning
<1>13. GoodOK'
  BY DEF Changes, GoodOK, Good, AnswerOK, PcOK, Booting, Early, Late, Poisoning, Begun, Mutation
<1>14. BodyOK'
  BY DEF Leave, Expect, files, BodyOK, Early, Late, Poisoning, Begun, Mutation, Changes, Result
<1>15. AnswerOK'
  BY DEF Leave, Expect, files, AnswerOK, Changes
<1>16. StuckOK'
  <2> SUFFICES ASSUME NEW q \in Procs, loaded'[q] = 0, proc'[q] \in {"idle", "waiting"}
               PROVE  pc \in {"ok", "failed"} /\ ~ Readable(cache) /\ (cache.state # <<>> \/ cache.guard # <<>>)
    BY SecretStoreAssumption DEF StuckOK, Keyless
  <2>1. op.kind \in {"open", "init", "put", "delete"}
    BY DEF PcOK, OpTypes, OpRecord
  <2>2. Keyless(q)
    BY <2>1 DEF Keyless, Changes
  <2> QED
    BY <2>2 DEF StuckOK
<1>17. InspectionOK'
  BY DEF Changes, InspectionOK, InspectionTruthful
<1> QED
  BY <1>2, <1>3, <1>4, <1>5, <1>6, <1>7, <1>8, <1>9, <1>10, <1>11, <1>12, <1>13, <1>14, <1>15, <1>16, <1>17

-----------------------------------------------------------------------------
(* The records: their older slot is written, torn or whole *)

LEMMA WriteMutatingStep ==
  ASSUME IInv, Write, pc = "mutating"
  PROVE  IInv'
<1> USE DEF IInv, Types
<1>1. /\ disk' = disk /\ UNCHANGED <<proc, loaded, req, holder, ins>> /\ holder # NoProc
      /\ ops' = ops + 1 /\ op'.kind = op.kind /\ op'.key = op.key /\ op'.val = op.val
      /\ op'.prev = op.prev /\ op'.err = op.err /\ op'.tok = ops + 1 /\ before' = allowed
      /\ (Changes => op.val \in allowed'[op.key]) /\ clean' = clean /\ pc' = "mutating_sync"
  BY DEF Write, Begin, Go, SyncOf, ProtocolFails, AfterFailure, procs, hist, OpTypes, OpRecord, HistTypes, PcOK, Changes
<1>2. cache' \in {cache, TornWrite(pc), Written(pc)} /\ ("Write" = "Write" => cache' = Written(pc))
  BY DEF Write
<1>3. Readable(cache) /\ ops \in Nat /\ disk \in Files /\ cache \in Files
  BY DEF RecordsOK, CountTypes, FileTypes
<1>4. Good(disk, cache, allowed)
  BY <1>3, ReadableMayServe DEF GoodOK, BootOK
<1>5. \A k \in Keys : allowed[k] \subseteq allowed'[k]
  BY DEF Write, Begin, HistTypes
<1>6. TokensUpTo(ops + 1, disk) /\ Guard(cache).tok \in Nat /\ Guard(cache).tok <= ops
  BY <1>3, MoreTokens, Newest, ReadableRecords DEF TokensOK, TokensUpTo, GuardSlots, GuardSelectable
<1>7. /\ StateOnly(cache', ops + 1) /\ Consecutive(cache.state) /\ State(cache).seq \in Nat
      /\ StateSelectable(cache'.state) /\ Consecutive(cache'.state)
           /\ State(cache').seq = State(cache).seq + 1 /\ State(cache').st = "MUTATING"
           /\ State(cache').tok = ops + 1
      /\ Guard(cache') = Guard(cache) /\ Len(cache.guard) = 2 /\ Len(cache.state) = 2
      /\ TokensUpTo(ops + 1, disk) /\ Guard(cache).tok \in Nat /\ Guard(cache).tok <= ops
      /\ GuardSelectable(cache.guard) /\ Guard(cache).st = "IDLE"
           /\ Guard(cache).store = State(cache).seq /\ ~ cache.marker
      /\ ~ Readable(cache') /\ Good(disk, cache, allowed)
      /\ (\A k \in Keys : allowed[k] \subseteq allowed'[k])
      /\ (MayServe(disk, cache') <=> MayServe(disk, cache))
  BY <1>2, <1>3, <1>4, <1>5, <1>6, StateWritten, ReadableRecords DEF StateAt, TokenAt, NextWritten
<1> USE <1>1, <1>2, <1>3, <1>4, <1>5, <1>6, <1>7
<1>8. FileTypes'
  BY DEF Write, Go, Begin, SyncOf, procs, hist, StateOnly, FileTypes
<1>9. ProcTypes'
  BY DEF Write, Go, Begin, Written, PutState, PutGuard, NextState, NextGuard, SyncOf, procs, hist,
     ProcTypes
<1>10. OpTypes'
  <2>1. op' = [op EXCEPT !.tok = ops + 1] /\ pc' \in Pcs /\ ops \in Nat
    BY DEF Write, WriteFails, Begin, CountTypes, Go, ProtocolFails, AfterFailure, SyncOf, Pcs
  <2> QED
    BY <2>1 DEF OpTypes, OpRecord
<1>11. HistTypes'
  BY DEF Write, Go, Begin, Written, PutState, PutGuard, NextState, NextGuard, SyncOf, procs, hist,
     HistTypes, PcOK, Booting, Early, Late, Poisoning, Begun, Mutation, Changes, OpTypes, Pcs,
     OpRecord, ProcTypes, FileTypes
<1>12. CountTypes'
  BY SecretStoreAssumption DEF Write, Go, Begin, SyncOf, procs, hist, StateOnly, CountTypes, PcOK,
     Booting, Early, Late, Poisoning, Begun, Mutation, Changes, SecretStoreAssumption
<1>13. InsTypes'
  BY DEF Write, Go, Begin, Written, PutState, PutGuard, NextState, NextGuard, SyncOf, procs, hist,
     InsTypes, Inspections
<1>14. PcOK'
  BY DEF StateOnly, Changes, PcOK, Booting, Early, Late, Poisoning, Begun, Mutation, CountTypes,
     OpTypes, Pcs, OpRecord, ProcTypes
<1>15. TokensOK'
  BY DEF Write, Go, Begin, SyncOf, procs, hist, StateOnly, TokensOK
<1>16. BootOK'
  BY DEF Write, Go, Begin, SyncOf, procs, hist, StateOnly, BootOK, Booting
<1>17. RecordsOK'
  BY DEF StateOnly, RecordsOK, Early, Late, Poisoning, Begun, Mutation, Interrupted, Finalizing,
     PcOK, Booting, Changes, CountTypes
<1>18. CleanOK'
  BY DEF StateOnly, CleanOK, Quiet, Poisoning
<1>19. GoodOK'
  BY DEF StateOnly, GoodOK, Good
<1>20. BodyOK'
  BY DEF StateOnly, BodyOK, Early, Late, Poisoning, Begun, Mutation, Changes, Result, Good
<1>21. AnswerOK'
  BY DEF StateOnly, AnswerOK, Changes
<1>22. StuckOK'
  BY DEF StateOnly, StuckOK, Keyless, Changes
<1>23. InspectionOK'
  <2>1. cache' = cache \/ ~ Consecutive(cache'.state) \/ (Consecutive(cache'.state) /\ State(cache').seq = State(cache).seq + 1)
    OBVIOUS
  <2>2. cache.state = ins.state \/ Moved(cache, ins) => cache' = cache \/ Moved(cache', ins)
    BY <2>1, Moves
  <2>3. Len(cache'.state) = 2 /\ cache'.marker = cache.marker
    BY DEF StateOnly
  <2> QED
    BY <2>2, <2>3 DEF InspectionOK, InspectionTruthful
<1> QED
  BY <1>8, <1>9, <1>10, <1>11, <1>12, <1>13, <1>14, <1>15, <1>16, <1>17, <1>18, <1>19, <1>20, <1>21, <1>22, <1>23

LEMMA WriteHealthyStep ==
  ASSUME IInv, Write, pc = "healthy"
  PROVE  IInv'
<1> USE DEF IInv, Types
<1>1. /\ disk' = disk /\ UNCHANGED <<proc, loaded, req, holder, ins>> /\ holder # NoProc
      /\ UNCHANGED <<ops, hist>> /\ op' = op /\ clean' = clean /\ pc' = "healthy_sync"
  BY DEF Write, Begin, Go, SyncOf, ProtocolFails, AfterFailure, procs, hist
<1>2. cache' \in {cache, TornWrite(pc), Written(pc)} /\ ("Write" = "Write" => cache' = Written(pc))
  BY DEF Write
<1>3. /\ StateOnly(cache', ops) /\ Consecutive(cache.state) /\ State(cache).seq \in Nat
      /\ cache' = cache \/ ~ Consecutive(cache'.state) \/ NextWritten(cache')
      /\ cache' = Written(pc) => NextWritten(cache') /\ ~ Readable(cache')
      /\ Readable(cache') => cache' = cache
      /\ Guard(cache') = Guard(cache) /\ Len(cache.state) = 2 /\ Len(cache.guard) = 2
      /\ cache'.guard = cache.guard
  BY <1>2, StateWritten
<1>4. StaysSealed
  BY <1>1, <1>3, SealKept DEF SealedPlaces, Poisoning
<1>5. /\ StateOnly(cache', ops) /\ Consecutive(cache.state) /\ State(cache).seq \in Nat
      /\ StateSelectable(cache'.state) /\ Consecutive(cache'.state)
           /\ State(cache').seq = State(cache).seq + 1 /\ State(cache').st = "HEALTHY"
           /\ State(cache').tok = op.tok
      /\ Guard(cache') = Guard(cache) /\ Len(cache.guard) = 2 /\ Len(cache.state) = 2
      /\ Sealed(disk, cache') /\ ~ MayServe(disk, cache') /\ Finalizing(cache', op.tok)
      /\ ~ Readable(cache')
  BY <1>1, <1>2, <1>3, <1>4 DEF StateAt, TokenAt, NextWritten, StaysSealed, RecordsOK, Finalizing
<1> USE <1>1, <1>2, <1>3, <1>4, <1>5
<1>6. FileTypes' /\ ProcTypes' /\ OpTypes'
  BY DEF Write, Go, Begin, SyncOf, procs, hist, StateOnly, FileTypes, Written, PutState, PutGuard,
     NextState, NextGuard, ProcTypes, OpTypes, Pcs, OpRecord
<1>7. HistTypes' /\ CountTypes' /\ InsTypes'
  BY DEF Write, Go, Begin, Written, PutState, PutGuard, NextState, NextGuard, SyncOf, procs, hist,
     HistTypes, StateOnly, CountTypes, InsTypes, Inspections
<1>8. PcOK'
  BY DEF hist, StateOnly, Changes, PcOK, Booting, Early, Late, Poisoning, Begun, Mutation
<1>9. TokensOK'
  BY DEF Write, Go, Begin, SyncOf, procs, hist, StateOnly, TokensOK
<1>10. BootOK'
  BY DEF Write, Go, Begin, SyncOf, procs, hist, StateOnly, BootOK, Booting
<1>11. RecordsOK'
  BY DEF Write, Go, Begin, SyncOf, procs, hist, StateOnly, RecordsOK, Early, Late, Poisoning, Begun,
     Mutation
<1>12. CleanOK'
  BY DEF hist, StateOnly, CleanOK, Quiet, Poisoning
<1>13. GoodOK'
  BY DEF hist, StateOnly, GoodOK
<1>14. BodyOK'
  BY DEF hist, StateOnly, BodyOK, Early, Late, Poisoning, Begun, Mutation, Changes, Result, Good
<1>15. AnswerOK'
  BY DEF hist, StateOnly, AnswerOK, Changes
<1>16. StuckOK'
  BY DEF hist, StateOnly, StuckOK, Keyless, Changes
<1>17. InspectionOK'
  <2>1. cache' = cache \/ ~ Consecutive(cache'.state) \/ (Consecutive(cache'.state) /\ State(cache').seq = State(cache).seq + 1)
    OBVIOUS
  <2>2. cache.state = ins.state \/ Moved(cache, ins) => cache' = cache \/ Moved(cache', ins)
    BY <2>1, Moves
  <2>3. Len(cache'.state) = 2 /\ cache'.marker = cache.marker
    BY DEF StateOnly
  <2> QED
    BY <2>2, <2>3 DEF InspectionOK, InspectionTruthful
<1> QED
  BY <1>6, <1>7, <1>8, <1>9, <1>10, <1>11, <1>12, <1>13, <1>14, <1>15, <1>16, <1>17

LEMMA WritePoisonStep ==
  ASSUME IInv, Write, pc = "poison"
  PROVE  IInv'
<1> USE DEF IInv, Types
<1>1. /\ disk' = disk /\ UNCHANGED <<proc, loaded, req, holder, ins>> /\ holder # NoProc
      /\ UNCHANGED <<ops, hist>> /\ op' = op /\ clean' = clean /\ pc' = "poison_sync"
  BY DEF Write, Begin, Go, SyncOf, ProtocolFails, AfterFailure, procs, hist
<1>2. cache' \in {cache, TornWrite(pc), Written(pc)} /\ ("Write" = "Write" => cache' = Written(pc))
  BY DEF Write
<1>3. /\ StateOnly(cache', ops) /\ Consecutive(cache.state) /\ State(cache).seq \in Nat
      /\ cache' = cache \/ ~ Consecutive(cache'.state) \/ NextWritten(cache')
      /\ cache' = Written(pc) => NextWritten(cache') /\ ~ Readable(cache')
      /\ Readable(cache') => cache' = cache
      /\ Guard(cache') = Guard(cache) /\ Len(cache.state) = 2 /\ Len(cache.guard) = 2
      /\ cache'.guard = cache.guard
  BY <1>2, StateWritten
<1>4. StaysSealed
  BY <1>1, <1>3, SealKept DEF SealedPlaces, Poisoning
<1>5. /\ StateOnly(cache', ops) /\ Consecutive(cache.state) /\ State(cache).seq \in Nat
      /\ StateSelectable(cache'.state) /\ Consecutive(cache'.state)
           /\ State(cache').seq = State(cache).seq + 1 /\ State(cache').st = "POISONED"
           /\ State(cache').tok = op.tok
      /\ Guard(cache') = Guard(cache) /\ Len(cache.guard) = 2 /\ Len(cache.state) = 2
      /\ Sealed(disk, cache') /\ ~ MayServe(disk, cache') /\ ~ Readable(cache')
  BY <1>1, <1>2, <1>3, <1>4 DEF StateAt, TokenAt, NextWritten, StaysSealed, RecordsOK, Finalizing
<1> USE <1>1, <1>2, <1>3, <1>4, <1>5
<1>6. FileTypes' /\ ProcTypes' /\ OpTypes'
  BY DEF Write, Go, Begin, SyncOf, procs, hist, StateOnly, FileTypes, Written, PutState, PutGuard,
     NextState, NextGuard, ProcTypes, OpTypes, Pcs, OpRecord
<1>7. HistTypes' /\ CountTypes' /\ InsTypes'
  BY DEF Write, Go, Begin, Written, PutState, PutGuard, NextState, NextGuard, SyncOf, procs, hist,
     HistTypes, StateOnly, CountTypes, InsTypes, Inspections
<1>8. PcOK'
  BY DEF hist, StateOnly, Changes, PcOK, Booting, Early, Late, Poisoning, Begun, Mutation
<1>9. TokensOK'
  BY DEF Write, Go, Begin, SyncOf, procs, hist, StateOnly, TokensOK
<1>10. BootOK'
  BY DEF Write, Go, Begin, SyncOf, procs, hist, StateOnly, BootOK, Booting
<1>11. RecordsOK'
  BY DEF Write, Go, Begin, SyncOf, procs, hist, StateOnly, RecordsOK, Early, Late, Poisoning, Begun,
     Mutation
<1>12. CleanOK'
  BY DEF hist, StateOnly, CleanOK, Quiet, Poisoning
<1>13. GoodOK'
  BY DEF hist, StateOnly, GoodOK
<1>14. BodyOK'
  BY DEF hist, StateOnly, BodyOK, Early, Late, Poisoning, Begun, Mutation, Changes, Result
<1>15. AnswerOK'
  BY DEF hist, StateOnly, AnswerOK, Changes
<1>16. StuckOK'
  BY DEF hist, StateOnly, StuckOK, Keyless, Changes
<1>17. InspectionOK'
  <2>1. cache' = cache \/ ~ Consecutive(cache'.state) \/ (Consecutive(cache'.state) /\ State(cache').seq = State(cache).seq + 1)
    OBVIOUS
  <2>2. cache.state = ins.state \/ Moved(cache, ins) => cache' = cache \/ Moved(cache', ins)
    BY <2>1, Moves
  <2>3. Len(cache'.state) = 2 /\ cache'.marker = cache.marker
    BY DEF StateOnly
  <2> QED
    BY <2>2, <2>3 DEF InspectionOK, InspectionTruthful
<1> QED
  BY <1>6, <1>7, <1>8, <1>9, <1>10, <1>11, <1>12, <1>13, <1>14, <1>15, <1>16, <1>17

LEMMA WriteFinalizingStep ==
  ASSUME IInv, Write, pc = "finalizing"
  PROVE  IInv'
<1> USE DEF IInv, Types
<1>1. /\ disk' = disk /\ UNCHANGED <<proc, loaded, req, holder, ins>> /\ holder # NoProc
      /\ UNCHANGED <<ops, hist>> /\ op' = op /\ clean' = clean /\ pc' = "finalizing_sync"
  BY DEF Write, Go, SyncOf, ProtocolFails, AfterFailure, procs, hist
<1>2. cache' \in {cache, TornWrite(pc), Written(pc)} /\ ("Write" = "Write" => cache' = Written(pc))
  BY DEF Write
<1>3. /\ GuardOnly(cache', ops)
      /\ GuardSelectable(cache'.guard) /\ Guard(cache').st = "FINALIZING"
           /\ Guard(cache').store = State(cache).seq + 1 /\ Guard(cache').tok = op.tok
      /\ State(cache') = State(cache) /\ Len(cache.guard) = 2 /\ Len(cache.state) = 2
      /\ ~ Readable(cache') /\ Good(disk, cache, allowed)
  BY <1>2, GuardWritten
<1> USE <1>1, <1>2, <1>3
<1>4. FileTypes' /\ ProcTypes' /\ OpTypes'
  BY DEF Write, Go, Begin, SyncOf, procs, hist, GuardOnly, FileTypes, Written, PutState, PutGuard,
     NextState, NextGuard, ProcTypes, OpTypes, Pcs, OpRecord
<1>5. HistTypes' /\ CountTypes' /\ InsTypes'
  BY DEF Write, Go, Begin, Written, PutState, PutGuard, NextState, NextGuard, SyncOf, procs, hist,
     HistTypes, GuardOnly, CountTypes, InsTypes, Inspections
<1>6. PcOK'
  BY DEF hist, GuardOnly, Changes, PcOK, Booting, Early, Late, Poisoning, Begun, Mutation
<1>7. TokensOK'
  BY DEF Write, Go, Begin, SyncOf, procs, hist, GuardOnly, TokensOK
<1>8. BootOK'
  BY DEF Write, Go, Begin, SyncOf, procs, hist, GuardOnly, BootOK, Booting
<1>9. RecordsOK'
  BY DEF hist, GuardOnly, RecordsOK, Early, Late, Poisoning, Begun, Mutation, Interrupted,
     Finalizing, PcOK, Booting, Changes
<1>10. CleanOK'
  BY DEF hist, GuardOnly, CleanOK, Quiet, Poisoning
<1>11. GoodOK'
  BY DEF hist, GuardOnly, GoodOK, Good
<1>12. BodyOK'
  BY DEF hist, GuardOnly, BodyOK, Early, Late, Poisoning, Begun, Mutation, Changes, Result, Good
<1>13. AnswerOK'
  BY DEF hist, GuardOnly, AnswerOK, Changes
<1>14. StuckOK'
  BY DEF hist, GuardOnly, StuckOK, Keyless, Changes
<1>15. InspectionOK'
  BY DEF hist, GuardOnly, InspectionOK, InspectionTruthful, Moved
<1> QED
  BY <1>4, <1>5, <1>6, <1>7, <1>8, <1>9, <1>10, <1>11, <1>12, <1>13, <1>14, <1>15

LEMMA WriteIdleStep ==
  ASSUME IInv, Write, pc = "idle"
  PROVE  IInv'
<1> USE DEF IInv, Types
<1>1. /\ disk' = disk /\ UNCHANGED <<proc, loaded, req, holder, ins>> /\ holder # NoProc
      /\ UNCHANGED <<ops, hist>> /\ op' = op /\ clean' = clean /\ pc' = "idle_sync"
  BY DEF Write, Go, SyncOf, ProtocolFails, AfterFailure, procs, hist
<1>2. cache' \in {cache, TornWrite(pc), Written(pc)} /\ ("Write" = "Write" => cache' = Written(pc))
  BY DEF Write
<1>3. /\ GuardOnly(cache', ops)
      /\ GuardSelectable(cache'.guard) /\ Guard(cache').st = "IDLE"
           /\ Guard(cache').store = State(cache).seq /\ Guard(cache').tok = op.tok
      /\ State(cache') = State(cache) /\ Len(cache.guard) = 2 /\ Len(cache.state) = 2
      /\ Readable(cache') /\ Good(disk, cache, allowed)
  BY <1>2, GuardWritten
<1> USE <1>1, <1>2, <1>3
<1>4. FileTypes' /\ ProcTypes' /\ OpTypes'
  BY DEF Write, Go, Begin, SyncOf, procs, hist, GuardOnly, FileTypes, Written, PutState, PutGuard,
     NextState, NextGuard, ProcTypes, OpTypes, Pcs, OpRecord
<1>5. HistTypes' /\ CountTypes' /\ InsTypes'
  BY DEF Write, Go, Begin, Written, PutState, PutGuard, NextState, NextGuard, SyncOf, procs, hist,
     HistTypes, GuardOnly, CountTypes, InsTypes, Inspections
<1>6. PcOK'
  BY DEF hist, GuardOnly, Changes, PcOK, Booting, Early, Late, Poisoning, Begun, Mutation
<1>7. TokensOK'
  BY DEF Write, Go, Begin, SyncOf, procs, hist, GuardOnly, TokensOK
<1>8. BootOK'
  BY DEF Write, Go, Begin, SyncOf, procs, hist, GuardOnly, BootOK, Booting
<1>9. RecordsOK'
  BY DEF Write, Go, Begin, SyncOf, procs, hist, GuardOnly, RecordsOK, Early, Late, Poisoning, Begun,
     Mutation
<1>10. CleanOK'
  BY DEF hist, GuardOnly, CleanOK, Quiet, Poisoning
<1>11. GoodOK'
  BY DEF hist, GuardOnly, GoodOK, Good
<1>12. BodyOK'
  BY DEF hist, GuardOnly, BodyOK, Early, Late, Poisoning, Begun, Mutation, Changes, Result, Good
<1>13. AnswerOK'
  BY DEF hist, GuardOnly, AnswerOK, Changes
<1>14. StuckOK'
  BY DEF hist, GuardOnly, StuckOK, Keyless, Changes
<1>15. InspectionOK'
  BY DEF hist, GuardOnly, InspectionOK, InspectionTruthful, Moved
<1> QED
  BY <1>4, <1>5, <1>6, <1>7, <1>8, <1>9, <1>10, <1>11, <1>12, <1>13, <1>14, <1>15

LEMMA WriteFailsMutatingStep ==
  ASSUME IInv, WriteFails, pc = "mutating"
  PROVE  IInv'
<1> USE DEF IInv, Types
<1>1. /\ disk' = disk /\ UNCHANGED <<proc, loaded, req, holder, ins>> /\ holder # NoProc
      /\ ops' = ops + 1 /\ op'.kind = op.kind /\ op'.key = op.key /\ op'.val = op.val
      /\ op'.prev = op.prev /\ op'.err = op.err /\ op'.tok = ops + 1 /\ before' = allowed
      /\ (Changes => op.val \in allowed'[op.key]) /\ ~ clean' /\ pc' = "failed"
  BY DEF WriteFails, Begin, Go, SyncOf, ProtocolFails, AfterFailure, procs, hist, OpTypes, OpRecord, HistTypes, PcOK, Changes
<1>2. cache' \in {cache, TornWrite(pc), Written(pc)} /\ ("WriteFails" = "Write" => cache' = Written(pc))
  BY DEF WriteFails
<1>3. Readable(cache) /\ ops \in Nat /\ disk \in Files /\ cache \in Files
  BY DEF RecordsOK, CountTypes, FileTypes
<1>4. Good(disk, cache, allowed)
  BY <1>3, ReadableMayServe DEF GoodOK, BootOK
<1>5. \A k \in Keys : allowed[k] \subseteq allowed'[k]
  BY DEF WriteFails, Begin, HistTypes
<1>6. TokensUpTo(ops + 1, disk) /\ Guard(cache).tok \in Nat /\ Guard(cache).tok <= ops
  BY <1>3, MoreTokens, Newest, ReadableRecords DEF TokensOK, TokensUpTo, GuardSlots, GuardSelectable
<1>7. /\ StateOnly(cache', ops + 1) /\ Consecutive(cache.state) /\ State(cache).seq \in Nat
      /\ \/ cache' = cache
         \/ ~ Consecutive(cache'.state)
         \/ StateSelectable(cache'.state) /\ Consecutive(cache'.state)
            /\ State(cache').seq = State(cache).seq + 1 /\ State(cache').st = "MUTATING"
            /\ State(cache').tok = ops + 1
      /\ Guard(cache') = Guard(cache) /\ Len(cache.guard) = 2 /\ Len(cache.state) = 2
      /\ TokensUpTo(ops + 1, disk) /\ Guard(cache).tok \in Nat /\ Guard(cache).tok <= ops
      /\ GuardSelectable(cache.guard) /\ Guard(cache).st = "IDLE"
           /\ Guard(cache).store = State(cache).seq /\ ~ cache.marker
      /\ (Readable(cache') => cache' = cache) /\ Good(disk, cache, allowed)
      /\ (\A k \in Keys : allowed[k] \subseteq allowed'[k])
      /\ (MayServe(disk, cache') <=> MayServe(disk, cache))
  BY <1>2, <1>3, <1>4, <1>5, <1>6, StateWritten, ReadableRecords DEF StateAt, TokenAt, NextWritten
<1> USE <1>1, <1>2, <1>3, <1>4, <1>5, <1>6, <1>7
<1>8. FileTypes'
  BY DEF WriteFails, Fault, Begin, ProtocolFails, Go, AfterFailure, hist, StateOnly, FileTypes
<1>9. ProcTypes'
  BY DEF WriteFails, Fault, Begin, Written, PutState, PutGuard, NextState, NextGuard, TornWrite,
     ProtocolFails, Go, AfterFailure, hist, ProcTypes
<1>10. OpTypes'
  <2>1. op' = [op EXCEPT !.tok = ops + 1] /\ pc' \in Pcs /\ ops \in Nat
    BY DEF Write, WriteFails, Begin, CountTypes, Go, ProtocolFails, AfterFailure, SyncOf, Pcs
  <2> QED
    BY <2>1 DEF OpTypes, OpRecord
<1>11. HistTypes'
  <2>1. before' = allowed /\ clean' = FALSE
    BY DEF WriteFails, Begin, ProtocolFails
  <2>2. op.kind \in {"init", "put", "delete"} /\ (op.kind # "init" => op.key \in Keys /\ op.val \in Values \cup {NoVal})
    BY DEF PcOK, Changes, Mutation, OpTypes, OpRecord
  <2>3. allowed' = allowed \/ allowed' = [allowed EXCEPT ![op.key] = @ \cup {op.val}]
    BY DEF WriteFails, Begin
  <2>4. allowed' = allowed \/ op.val \in Values \cup {NoVal}
    BY <2>2 DEF WriteFails, Begin
  <2>5. allowed' \in [Keys -> SUBSET (Values \cup {NoVal})]
    BY <2>3, <2>4 DEF HistTypes
  <2> QED
    BY <2>1, <2>5 DEF HistTypes
<1>12. CountTypes'
  BY SecretStoreAssumption DEF WriteFails, Fault, Begin, ProtocolFails, Go, AfterFailure, hist,
     StateOnly, CountTypes, PcOK, Booting, Early, Late, Poisoning, Begun, Mutation, Changes,
     SecretStoreAssumption
<1>13. InsTypes'
  BY DEF WriteFails, Fault, Begin, Written, PutState, PutGuard, NextState, NextGuard, TornWrite,
     ProtocolFails, Go, AfterFailure, hist, InsTypes, Inspections
<1>14. PcOK'
  BY DEF StateOnly, Changes, PcOK, Booting, Early, Late, Poisoning, Begun, Mutation
<1>15. TokensOK'
  BY DEF WriteFails, Fault, Begin, ProtocolFails, Go, AfterFailure, hist, StateOnly, TokensOK
<1>16. BootOK'
  BY DEF WriteFails, Fault, Begin, ProtocolFails, Go, AfterFailure, hist, StateOnly, BootOK, Booting
<1>17. RecordsOK'
  BY DEF WriteFails, Fault, Begin, ProtocolFails, Go, AfterFailure, hist, StateOnly, RecordsOK,
     Early, Late, Poisoning, Begun, Mutation
<1>18. CleanOK'
  BY DEF StateOnly, CleanOK, Quiet, Poisoning
<1>19. GoodOK'
  BY DEF StateOnly, GoodOK, Good
<1>20. BodyOK'
  BY DEF StateOnly, BodyOK, Early, Late, Poisoning, Begun, Mutation, Changes, Result
<1>21. AnswerOK'
  BY DEF StateOnly, AnswerOK, Changes, PcOK, Booting, Early, Late, Poisoning, Begun, Mutation,
     BodyOK, Good, Result
<1>22. StuckOK'
  BY DEF StateOnly, StuckOK, Keyless, Changes
<1>23. InspectionOK'
  <2>1. cache' = cache \/ ~ Consecutive(cache'.state) \/ (Consecutive(cache'.state) /\ State(cache').seq = State(cache).seq + 1)
    OBVIOUS
  <2>2. cache.state = ins.state \/ Moved(cache, ins) => cache' = cache \/ Moved(cache', ins)
    BY <2>1, Moves
  <2>3. Len(cache'.state) = 2 /\ cache'.marker = cache.marker
    BY DEF StateOnly
  <2> QED
    BY <2>2, <2>3 DEF InspectionOK, InspectionTruthful
<1> QED
  BY <1>8, <1>9, <1>10, <1>11, <1>12, <1>13, <1>14, <1>15, <1>16, <1>17, <1>18, <1>19, <1>20, <1>21, <1>22, <1>23

LEMMA WriteFailsHealthyStep ==
  ASSUME IInv, WriteFails, pc = "healthy"
  PROVE  IInv'
<1> USE DEF IInv, Types
<1>1. /\ disk' = disk /\ UNCHANGED <<proc, loaded, req, holder, ins>> /\ holder # NoProc
      /\ UNCHANGED <<ops, hist>> /\ op' = op /\ ~ clean' /\ pc' = "failed"
  BY DEF WriteFails, Begin, Go, SyncOf, ProtocolFails, AfterFailure, procs, hist
<1>2. cache' \in {cache, TornWrite(pc), Written(pc)} /\ ("WriteFails" = "Write" => cache' = Written(pc))
  BY DEF WriteFails
<1>3. /\ StateOnly(cache', ops) /\ Consecutive(cache.state) /\ State(cache).seq \in Nat
      /\ cache' = cache \/ ~ Consecutive(cache'.state) \/ NextWritten(cache')
      /\ cache' = Written(pc) => NextWritten(cache') /\ ~ Readable(cache')
      /\ Readable(cache') => cache' = cache
      /\ Guard(cache') = Guard(cache) /\ Len(cache.state) = 2 /\ Len(cache.guard) = 2
      /\ cache'.guard = cache.guard
  BY <1>2, StateWritten
<1>4. StaysSealed
  BY <1>1, <1>3, SealKept DEF SealedPlaces, Poisoning
<1>5. /\ StateOnly(cache', ops) /\ Consecutive(cache.state) /\ State(cache).seq \in Nat
      /\ \/ cache' = cache
         \/ ~ Consecutive(cache'.state)
         \/ StateSelectable(cache'.state) /\ Consecutive(cache'.state)
            /\ State(cache').seq = State(cache).seq + 1 /\ State(cache').st = "HEALTHY"
            /\ State(cache').tok = op.tok
      /\ Guard(cache') = Guard(cache) /\ Len(cache.guard) = 2 /\ Len(cache.state) = 2
      /\ Sealed(disk, cache') /\ ~ MayServe(disk, cache') /\ Finalizing(cache', op.tok)
      /\ (Readable(cache') => cache' = cache)
  BY <1>1, <1>2, <1>3, <1>4 DEF StateAt, TokenAt, NextWritten, StaysSealed, RecordsOK, Finalizing
<1> USE <1>1, <1>2, <1>3, <1>4, <1>5
<1>6. FileTypes' /\ ProcTypes' /\ OpTypes'
  BY DEF WriteFails, Fault, Begin, ProtocolFails, Go, AfterFailure, hist, StateOnly, FileTypes,
     Written, PutState, PutGuard, NextState, NextGuard, TornWrite, ProcTypes, OpTypes, Pcs, OpRecord
<1>7. HistTypes'
  BY DEF WriteFails, Fault, Begin, Written, PutState, PutGuard, NextState, NextGuard, TornWrite,
     ProtocolFails, Go, AfterFailure, hist, HistTypes
<1>8. CountTypes'
  BY SecretStoreAssumption DEF WriteFails, Fault, Begin, ProtocolFails, Go, AfterFailure, hist,
     StateOnly, CountTypes, SecretStoreAssumption
<1>9. InsTypes'
  BY DEF WriteFails, Fault, Begin, Written, PutState, PutGuard, NextState, NextGuard, TornWrite,
     ProtocolFails, Go, AfterFailure, hist, InsTypes, Inspections
<1>10. PcOK'
  BY DEF hist, StateOnly, Changes, PcOK, Booting, Early, Late, Poisoning, Begun, Mutation
<1>11. TokensOK'
  BY DEF WriteFails, Fault, Begin, ProtocolFails, Go, AfterFailure, hist, StateOnly, TokensOK
<1>12. BootOK'
  BY DEF WriteFails, Fault, Begin, ProtocolFails, Go, AfterFailure, hist, StateOnly, BootOK, Booting
<1>13. RecordsOK'
  BY DEF WriteFails, Fault, Begin, ProtocolFails, Go, AfterFailure, hist, StateOnly, RecordsOK,
     Early, Late, Poisoning, Begun, Mutation
<1>14. CleanOK'
  BY DEF hist, StateOnly, CleanOK, Quiet, Poisoning
<1>15. GoodOK'
  BY DEF hist, StateOnly, GoodOK
<1>16. BodyOK'
  BY DEF hist, StateOnly, BodyOK, Early, Late, Poisoning, Begun, Mutation, Changes, Result
<1>17. AnswerOK'
  BY DEF hist, StateOnly, AnswerOK, Changes
<1>18. StuckOK'
  BY DEF hist, StateOnly, StuckOK, Keyless, Changes
<1>19. InspectionOK'
  <2>1. cache' = cache \/ ~ Consecutive(cache'.state) \/ (Consecutive(cache'.state) /\ State(cache').seq = State(cache).seq + 1)
    OBVIOUS
  <2>2. cache.state = ins.state \/ Moved(cache, ins) => cache' = cache \/ Moved(cache', ins)
    BY <2>1, Moves
  <2>3. Len(cache'.state) = 2 /\ cache'.marker = cache.marker
    BY DEF StateOnly
  <2> QED
    BY <2>2, <2>3 DEF InspectionOK, InspectionTruthful
<1> QED
  BY <1>6, <1>7, <1>8, <1>9, <1>10, <1>11, <1>12, <1>13, <1>14, <1>15, <1>16, <1>17, <1>18, <1>19

LEMMA WriteFailsPoisonStep ==
  ASSUME IInv, WriteFails, pc = "poison"
  PROVE  IInv'
<1> USE DEF IInv, Types
<1>1. /\ disk' = disk /\ UNCHANGED <<proc, loaded, req, holder, ins>> /\ holder # NoProc
      /\ UNCHANGED <<ops, hist>> /\ op' = op /\ ~ clean' /\ pc' = "recovery_marker"
  BY DEF WriteFails, Begin, Go, SyncOf, ProtocolFails, AfterFailure, procs, hist
<1>2. cache' \in {cache, TornWrite(pc), Written(pc)} /\ ("WriteFails" = "Write" => cache' = Written(pc))
  BY DEF WriteFails
<1>3. /\ StateOnly(cache', ops) /\ Consecutive(cache.state) /\ State(cache).seq \in Nat
      /\ cache' = cache \/ ~ Consecutive(cache'.state) \/ NextWritten(cache')
      /\ cache' = Written(pc) => NextWritten(cache') /\ ~ Readable(cache')
      /\ Readable(cache') => cache' = cache
      /\ Guard(cache') = Guard(cache) /\ Len(cache.state) = 2 /\ Len(cache.guard) = 2
      /\ cache'.guard = cache.guard
  BY <1>2, StateWritten
<1>4. StaysSealed
  BY <1>1, <1>3, SealKept DEF SealedPlaces, Poisoning
<1>5. /\ StateOnly(cache', ops) /\ Consecutive(cache.state) /\ State(cache).seq \in Nat
      /\ \/ cache' = cache
         \/ ~ Consecutive(cache'.state)
         \/ StateSelectable(cache'.state) /\ Consecutive(cache'.state)
            /\ State(cache').seq = State(cache).seq + 1 /\ State(cache').st = "POISONED"
            /\ State(cache').tok = op.tok
      /\ Guard(cache') = Guard(cache) /\ Len(cache.guard) = 2 /\ Len(cache.state) = 2
      /\ Sealed(disk, cache') /\ ~ MayServe(disk, cache') /\ (Readable(cache') => cache' = cache)
  BY <1>1, <1>2, <1>3, <1>4 DEF StateAt, TokenAt, NextWritten, StaysSealed, RecordsOK, Finalizing
<1> USE <1>1, <1>2, <1>3, <1>4, <1>5
<1>6. FileTypes' /\ ProcTypes' /\ OpTypes'
  BY DEF WriteFails, Fault, Begin, ProtocolFails, Go, AfterFailure, hist, StateOnly, FileTypes,
     Written, PutState, PutGuard, NextState, NextGuard, TornWrite, ProcTypes, OpTypes, Pcs, OpRecord
<1>7. HistTypes'
  BY DEF WriteFails, Fault, Begin, Written, PutState, PutGuard, NextState, NextGuard, TornWrite,
     ProtocolFails, Go, AfterFailure, hist, HistTypes
<1>8. CountTypes'
  BY SecretStoreAssumption DEF WriteFails, Fault, Begin, ProtocolFails, Go, AfterFailure, hist,
     StateOnly, CountTypes, SecretStoreAssumption
<1>9. InsTypes'
  BY DEF WriteFails, Fault, Begin, Written, PutState, PutGuard, NextState, NextGuard, TornWrite,
     ProtocolFails, Go, AfterFailure, hist, InsTypes, Inspections
<1>10. PcOK'
  BY DEF hist, StateOnly, Changes, PcOK, Booting, Early, Late, Poisoning, Begun, Mutation
<1>11. TokensOK'
  BY DEF WriteFails, Fault, Begin, ProtocolFails, Go, AfterFailure, hist, StateOnly, TokensOK
<1>12. BootOK'
  BY DEF WriteFails, Fault, Begin, ProtocolFails, Go, AfterFailure, hist, StateOnly, BootOK, Booting
<1>13. RecordsOK'
  BY DEF WriteFails, Fault, Begin, ProtocolFails, Go, AfterFailure, hist, StateOnly, RecordsOK,
     Early, Late, Poisoning, Begun, Mutation
<1>14. CleanOK'
  BY DEF hist, StateOnly, CleanOK, Quiet, Poisoning
<1>15. GoodOK'
  BY DEF hist, StateOnly, GoodOK
<1>16. BodyOK'
  BY DEF hist, StateOnly, BodyOK, Early, Late, Poisoning, Begun, Mutation, Changes, Result
<1>17. AnswerOK'
  BY DEF hist, StateOnly, AnswerOK, Changes
<1>18. StuckOK'
  BY DEF hist, StateOnly, StuckOK, Keyless, Changes
<1>19. InspectionOK'
  <2>1. cache' = cache \/ ~ Consecutive(cache'.state) \/ (Consecutive(cache'.state) /\ State(cache').seq = State(cache).seq + 1)
    OBVIOUS
  <2>2. cache.state = ins.state \/ Moved(cache, ins) => cache' = cache \/ Moved(cache', ins)
    BY <2>1, Moves
  <2>3. Len(cache'.state) = 2 /\ cache'.marker = cache.marker
    BY DEF StateOnly
  <2> QED
    BY <2>2, <2>3 DEF InspectionOK, InspectionTruthful
<1> QED
  BY <1>6, <1>7, <1>8, <1>9, <1>10, <1>11, <1>12, <1>13, <1>14, <1>15, <1>16, <1>17, <1>18, <1>19

LEMMA WriteFailsFinalizingStep ==
  ASSUME IInv, WriteFails, pc = "finalizing"
  PROVE  IInv'
<1> USE DEF IInv, Types
<1>1. /\ disk' = disk /\ UNCHANGED <<proc, loaded, req, holder, ins>> /\ holder # NoProc
      /\ UNCHANGED <<ops, hist>> /\ op' = op /\ ~ clean' /\ pc' = "failed"
  BY DEF WriteFails, Go, SyncOf, ProtocolFails, AfterFailure, procs, hist
<1>2. cache' \in {cache, TornWrite(pc), Written(pc)} /\ ("WriteFails" = "Write" => cache' = Written(pc))
  BY DEF WriteFails
<1>3. /\ GuardOnly(cache', ops) /\ State(cache') = State(cache) /\ Len(cache.guard) = 2
      /\ Len(cache.state) = 2 /\ Good(disk, cache, allowed)
  BY <1>2, GuardWritten
<1> USE <1>1, <1>2, <1>3
<1>4. FileTypes' /\ ProcTypes' /\ OpTypes'
  BY DEF WriteFails, Fault, Begin, ProtocolFails, Go, AfterFailure, hist, GuardOnly, FileTypes,
     Written, PutState, PutGuard, NextState, NextGuard, TornWrite, ProcTypes, OpTypes, Pcs, OpRecord
<1>5. HistTypes'
  BY DEF WriteFails, Fault, Begin, Written, PutState, PutGuard, NextState, NextGuard, TornWrite,
     ProtocolFails, Go, AfterFailure, hist, HistTypes
<1>6. CountTypes'
  BY SecretStoreAssumption DEF WriteFails, Fault, Begin, ProtocolFails, Go, AfterFailure, hist,
     GuardOnly, CountTypes, SecretStoreAssumption
<1>7. InsTypes'
  BY DEF WriteFails, Fault, Begin, Written, PutState, PutGuard, NextState, NextGuard, TornWrite,
     ProtocolFails, Go, AfterFailure, hist, InsTypes, Inspections
<1>8. PcOK'
  BY DEF hist, GuardOnly, Changes, PcOK, Booting, Early, Late, Poisoning, Begun, Mutation
<1>9. TokensOK'
  BY DEF WriteFails, Fault, Begin, ProtocolFails, Go, AfterFailure, hist, GuardOnly, TokensOK
<1>10. BootOK'
  BY DEF WriteFails, Fault, Begin, ProtocolFails, Go, AfterFailure, hist, GuardOnly, BootOK, Booting
<1>11. RecordsOK'
  BY DEF WriteFails, Fault, Begin, ProtocolFails, Go, AfterFailure, hist, GuardOnly, RecordsOK,
     Early, Late, Poisoning, Begun, Mutation
<1>12. CleanOK'
  BY DEF hist, GuardOnly, CleanOK, Quiet, Poisoning
<1>13. GoodOK'
  BY DEF hist, GuardOnly, GoodOK, Good
<1>14. BodyOK'
  BY DEF hist, GuardOnly, BodyOK, Early, Late, Poisoning, Begun, Mutation, Changes, Result
<1>15. AnswerOK'
  BY DEF hist, GuardOnly, AnswerOK, Changes, PcOK, Booting, Early, Late, Poisoning, Begun, Mutation,
     BodyOK, Good, Result
<1>16. StuckOK'
  BY DEF hist, GuardOnly, StuckOK, Keyless, Changes
<1>17. InspectionOK'
  BY DEF hist, GuardOnly, InspectionOK, InspectionTruthful, Moved
<1> QED
  BY <1>4, <1>5, <1>6, <1>7, <1>8, <1>9, <1>10, <1>11, <1>12, <1>13, <1>14, <1>15, <1>16, <1>17

LEMMA WriteFailsIdleStep ==
  ASSUME IInv, WriteFails, pc = "idle"
  PROVE  IInv'
<1> USE DEF IInv, Types
<1>1. /\ disk' = disk /\ UNCHANGED <<proc, loaded, req, holder, ins>> /\ holder # NoProc
      /\ UNCHANGED <<ops, hist>> /\ op' = op /\ ~ clean' /\ pc' = "indeterminate"
  BY DEF WriteFails, Go, SyncOf, ProtocolFails, AfterFailure, procs, hist
<1>2. cache' \in {cache, TornWrite(pc), Written(pc)} /\ ("WriteFails" = "Write" => cache' = Written(pc))
  BY DEF WriteFails
<1>3. /\ GuardOnly(cache', ops) /\ State(cache') = State(cache) /\ Len(cache.guard) = 2
      /\ Len(cache.state) = 2 /\ Good(disk, cache, allowed)
  BY <1>2, GuardWritten
<1> USE <1>1, <1>2, <1>3
<1>4. FileTypes' /\ ProcTypes' /\ OpTypes'
  BY DEF WriteFails, Fault, Begin, ProtocolFails, Go, AfterFailure, hist, GuardOnly, FileTypes,
     Written, PutState, PutGuard, NextState, NextGuard, TornWrite, ProcTypes, OpTypes, Pcs, OpRecord
<1>5. HistTypes'
  BY DEF WriteFails, Fault, Begin, Written, PutState, PutGuard, NextState, NextGuard, TornWrite,
     ProtocolFails, Go, AfterFailure, hist, HistTypes
<1>6. CountTypes'
  BY SecretStoreAssumption DEF WriteFails, Fault, Begin, ProtocolFails, Go, AfterFailure, hist,
     GuardOnly, CountTypes, SecretStoreAssumption
<1>7. InsTypes'
  BY DEF WriteFails, Fault, Begin, Written, PutState, PutGuard, NextState, NextGuard, TornWrite,
     ProtocolFails, Go, AfterFailure, hist, InsTypes, Inspections
<1>8. PcOK'
  BY DEF hist, GuardOnly, Changes, PcOK, Booting, Early, Late, Poisoning, Begun, Mutation
<1>9. TokensOK'
  BY DEF WriteFails, Fault, Begin, ProtocolFails, Go, AfterFailure, hist, GuardOnly, TokensOK
<1>10. BootOK'
  BY DEF WriteFails, Fault, Begin, ProtocolFails, Go, AfterFailure, hist, GuardOnly, BootOK, Booting
<1>11. RecordsOK'
  BY DEF WriteFails, Fault, Begin, ProtocolFails, Go, AfterFailure, hist, GuardOnly, RecordsOK,
     Early, Late, Poisoning, Begun, Mutation
<1>12. CleanOK'
  BY DEF hist, GuardOnly, CleanOK, Quiet, Poisoning
<1>13. GoodOK'
  BY DEF hist, GuardOnly, GoodOK, Good
<1>14. BodyOK'
  BY DEF hist, GuardOnly, BodyOK, Early, Late, Poisoning, Begun, Mutation, Changes, Result
<1>15. AnswerOK'
  BY DEF hist, GuardOnly, AnswerOK, Changes
<1>16. StuckOK'
  BY DEF hist, GuardOnly, StuckOK, Keyless, Changes
<1>17. InspectionOK'
  BY DEF hist, GuardOnly, InspectionOK, InspectionTruthful, Moved
<1> QED
  BY <1>4, <1>5, <1>6, <1>7, <1>8, <1>9, <1>10, <1>11, <1>12, <1>13, <1>14, <1>15, <1>16, <1>17

-----------------------------------------------------------------------------
(* The records: fsync, and the read-back after the last one *)

LEMMA SyncMutatingStep ==
  ASSUME IInv, Sync, pc = "mutating_sync"
  PROVE  IInv'
<1> USE DEF IInv, Types
<1>1. /\ UNCHANGED <<proc, loaded, req, holder, ops, clean, ins>> /\ holder # NoProc
      /\ cache' = cache /\ disk'.sec = disk.sec /\ disk'.mkey = disk.mkey
      /\ disk'.marker = disk.marker /\ UNCHANGED hist /\ disk'.state = cache.state
      /\ disk'.guard = disk.guard /\ pc' = "finalizing" /\ op' = op
  BY DEF Sync, Go, Body, ProtocolFails, AfterFailure, procs, hist, FileTypes, Files, OpTypes, OpRecord
<1>2. \A e : Good(disk', cache, e) <=> Good(disk, cache, e)
  BY <1>1 DEF Good
<1>3. MayServe(disk', cache) <=> MayServe(disk, cache)
  BY <1>1, BodyGood, SameGuards, SealedServesNot DEF Late, Early, RecordsOK, Finalizing, Sealed
<1> USE <1>1, <1>2, <1>3
<1>4. FileTypes' /\ ProcTypes' /\ OpTypes'
  BY DEF Sync, Go, Body, hist, FileTypes, Files, ProcTypes, OpTypes, Pcs, OpRecord
<1>5. HistTypes' /\ CountTypes' /\ InsTypes'
  BY DEF Sync, Go, Body, hist, HistTypes, CountTypes, InsTypes, Inspections
<1>6. PcOK'
  BY DEF hist, Changes, PcOK, Booting, Early, Late, Poisoning, Begun, Mutation
<1>7. TokensOK'
  BY DEF Sync, Go, Body, hist, TokensOK, FileTypes, Files, TokensUpTo
<1>8. BootOK'
  BY DEF Sync, Go, Body, hist, BootOK, Booting, FileTypes, Files
<1>9. RecordsOK'
  BY DEF hist, RecordsOK, Early, Late, Poisoning, Begun, Mutation
<1>10. CleanOK'
  BY DEF hist, CleanOK, Quiet, Poisoning
<1>11. GoodOK'
  BY DEF hist, GoodOK
<1>12. BodyOK'
  BY DEF hist, BodyOK, Early, Late, Poisoning, Begun, Mutation, Changes, Result
<1>13. AnswerOK'
  BY DEF hist, AnswerOK, Changes
<1>14. StuckOK'
  BY DEF hist, StuckOK, Keyless, Changes
<1>15. InspectionOK'
  BY DEF hist, InspectionOK, InspectionTruthful
<1> QED
  BY <1>4, <1>5, <1>6, <1>7, <1>8, <1>9, <1>10, <1>11, <1>12, <1>13, <1>14, <1>15

LEMMA SyncFinalizingStep ==
  ASSUME IInv, Sync, pc = "finalizing_sync"
  PROVE  IInv'
<1> USE DEF IInv, Types
<1>1. /\ UNCHANGED <<proc, loaded, req, holder, ops, clean, ins>> /\ holder # NoProc
      /\ cache' = cache /\ disk'.sec = disk.sec /\ disk'.mkey = disk.mkey
      /\ disk'.marker = disk.marker /\ UNCHANGED hist /\ disk'.guard = cache.guard
      /\ disk'.state = disk.state /\ pc' = Body /\ op'.kind = op.kind /\ op'.key = op.key
      /\ op'.val = op.val /\ op'.tok = op.tok /\ op'.prev = op.prev
      /\ (Body # "healthy" => op' = op) /\ (Body = "healthy" => op'.err = "failed")
  BY DEF Sync, Go, Body, ProtocolFails, AfterFailure, procs, hist, FileTypes, Files, OpTypes, OpRecord
<1>2. \A e : Good(disk', cache, e) <=> Good(disk, cache, e)
  BY <1>1 DEF Good
<1>3. /\ Sealed(disk', cache) /\ ~ MayServe(disk', cache)
  BY <1>1, BodyGood, SameGuards, SealedServesNot DEF Late, Early, RecordsOK, Finalizing, Sealed
<1> USE <1>1, <1>2, <1>3
<1>4. FileTypes'
  BY DEF Sync, Go, Body, hist, FileTypes, Files
<1>5. ProcTypes'
  BY DEF Sync, Go, Body, hist, ProcTypes
<1>6. OpTypes'
  BY DEF Sync, Go, Body, hist, OpTypes, Pcs, OpRecord
<1>7. HistTypes' /\ CountTypes' /\ InsTypes'
  BY DEF Sync, Go, Body, hist, HistTypes, CountTypes, InsTypes, Inspections
<1>8. PcOK'
  BY DEF hist, Body, Changes, PcOK, Booting, Early, Late, Poisoning, Begun, Mutation
<1>9. TokensOK'
  BY DEF Sync, Go, Body, hist, TokensOK, FileTypes, Files, TokensUpTo
<1>10. BootOK'
  BY DEF Sync, Go, Body, hist, BootOK, Booting, FileTypes, Files
<1>11. RecordsOK'
  BY DEF hist, Body, RecordsOK, Early, Late, Poisoning, Begun, Mutation
<1>12. CleanOK'
  BY DEF hist, Body, CleanOK, Quiet, Poisoning
<1>13. GoodOK'
  BY DEF hist, Body, GoodOK
<1>14. BodyOK'
  BY DEF hist, Body, BodyOK, Early, Late, Poisoning, Begun, Mutation, Changes, Result, Good
<1>15. AnswerOK'
  BY DEF hist, Body, AnswerOK, Changes
<1>16. StuckOK'
  BY DEF hist, Body, StuckOK, Keyless, Changes
<1>17. InspectionOK'
  BY DEF hist, Body, InspectionOK, InspectionTruthful
<1> QED
  BY <1>4, <1>5, <1>6, <1>7, <1>8, <1>9, <1>10, <1>11, <1>12, <1>13, <1>14, <1>15, <1>16, <1>17

LEMMA SyncHealthyStep ==
  ASSUME IInv, Sync, pc = "healthy_sync"
  PROVE  IInv'
<1> USE DEF IInv, Types
<1>1. /\ UNCHANGED <<proc, loaded, req, holder, ops, clean, ins>> /\ holder # NoProc
      /\ cache' = cache /\ disk'.sec = disk.sec /\ disk'.mkey = disk.mkey
      /\ disk'.marker = disk.marker /\ UNCHANGED hist /\ disk'.state = cache.state
      /\ disk'.guard = disk.guard /\ pc' = "idle" /\ op' = op
  BY DEF Sync, Go, Body, ProtocolFails, AfterFailure, procs, hist, FileTypes, Files, OpTypes, OpRecord
<1>2. \A e : Good(disk', cache, e) <=> Good(disk, cache, e)
  BY <1>1 DEF Good
<1>4. StaysSealed
  BY <1>1, SealKept DEF SealedPlaces, Poisoning
<1> USE <1>1, <1>2, <1>4 DEF KeepsRecords, StaysSealed
<1>5. FileTypes' /\ ProcTypes' /\ OpTypes'
  BY DEF Sync, Go, Body, hist, FileTypes, Files, ProcTypes, OpTypes, Pcs, OpRecord
<1>6. HistTypes' /\ CountTypes' /\ InsTypes'
  BY DEF Sync, Go, Body, hist, HistTypes, CountTypes, InsTypes, Inspections
<1>7. PcOK'
  BY DEF hist, Changes, PcOK, Booting, Early, Late, Poisoning, Begun, Mutation
<1>8. TokensOK'
  BY DEF Sync, Go, Body, hist, TokensOK, FileTypes, Files, TokensUpTo
<1>9. BootOK'
  BY DEF Sync, Go, Body, hist, BootOK, Booting, FileTypes, Files
<1>10. RecordsOK'
  BY DEF hist, RecordsOK, Early, Late, Poisoning, Begun, Mutation, PcOK, Booting, Changes
<1>11. CleanOK'
  BY DEF hist, CleanOK, Quiet, Poisoning
<1>12. GoodOK'
  BY DEF hist, GoodOK
<1>13. BodyOK'
  BY DEF hist, BodyOK, Early, Late, Poisoning, Begun, Mutation, Changes, Result
<1>14. AnswerOK'
  BY DEF hist, AnswerOK, Changes
<1>15. StuckOK'
  BY DEF hist, StuckOK, Keyless, Changes
<1>16. InspectionOK'
  BY DEF hist, InspectionOK, InspectionTruthful
<1> QED
  BY <1>5, <1>6, <1>7, <1>8, <1>9, <1>10, <1>11, <1>12, <1>13, <1>14, <1>15, <1>16

LEMMA SyncIdleStep ==
  ASSUME IInv, Sync, pc = "idle_sync"
  PROVE  IInv'
<1> USE DEF IInv, Types
<1>1. /\ UNCHANGED <<proc, loaded, req, holder, ops, clean, ins>> /\ holder # NoProc
      /\ cache' = cache /\ disk'.sec = disk.sec /\ disk'.mkey = disk.mkey
      /\ disk'.marker = disk.marker /\ UNCHANGED hist /\ disk'.guard = cache.guard
      /\ disk'.state = disk.state /\ pc' = "idle_check" /\ op' = op
  BY DEF Sync, Go, Body, ProtocolFails, AfterFailure, procs, hist, FileTypes, Files, OpTypes, OpRecord
<1>2. \A e : Good(disk', cache, e) <=> Good(disk, cache, e)
  BY <1>1 DEF Good
<1>3. Good(disk, cache, allowed)
  BY <1>1, BodyGood, SameGuards, SealedServesNot DEF Late, Early, RecordsOK, Finalizing, Sealed
<1> USE <1>1, <1>2, <1>3
<1>4. FileTypes' /\ ProcTypes' /\ OpTypes'
  BY DEF Sync, Go, Body, hist, FileTypes, Files, ProcTypes, OpTypes, Pcs, OpRecord
<1>5. HistTypes' /\ CountTypes' /\ InsTypes'
  BY DEF Sync, Go, Body, hist, HistTypes, CountTypes, InsTypes, Inspections
<1>6. PcOK'
  BY DEF hist, Changes, PcOK, Booting, Early, Late, Poisoning, Begun, Mutation
<1>7. TokensOK'
  BY DEF Sync, Go, Body, hist, TokensOK, FileTypes, Files, TokensUpTo
<1>8. BootOK'
  BY DEF Sync, Go, Body, hist, BootOK, Booting, FileTypes, Files
<1>9. RecordsOK'
  BY DEF hist, RecordsOK, Early, Late, Poisoning, Begun, Mutation
<1>10. CleanOK'
  BY DEF hist, CleanOK, Quiet, Poisoning
<1>11. GoodOK'
  BY DEF hist, GoodOK
<1>12. BodyOK'
  BY DEF hist, BodyOK, Early, Late, Poisoning, Begun, Mutation, Changes, Result
<1>13. AnswerOK'
  BY DEF hist, AnswerOK, Changes
<1>14. StuckOK'
  BY DEF hist, StuckOK, Keyless, Changes
<1>15. InspectionOK'
  BY DEF hist, InspectionOK, InspectionTruthful
<1> QED
  BY <1>4, <1>5, <1>6, <1>7, <1>8, <1>9, <1>10, <1>11, <1>12, <1>13, <1>14, <1>15

LEMMA SyncPoisonStep ==
  ASSUME IInv, Sync, pc = "poison_sync"
  PROVE  IInv'
<1> USE DEF IInv, Types
<1>1. /\ UNCHANGED <<proc, loaded, req, holder, ops, clean, ins>> /\ holder # NoProc
      /\ cache' = cache /\ disk'.sec = disk.sec /\ disk'.mkey = disk.mkey
      /\ disk'.marker = disk.marker /\ UNCHANGED hist /\ disk'.state = cache.state
      /\ disk'.guard = disk.guard /\ pc' = "recovery_marker" /\ op' = op
  BY DEF Sync, Go, Body, ProtocolFails, AfterFailure, procs, hist, FileTypes, Files, OpTypes, OpRecord
<1>2. \A e : Good(disk', cache, e) <=> Good(disk, cache, e)
  BY <1>1 DEF Good
<1>4. StaysSealed
  BY <1>1, SealKept DEF SealedPlaces, Poisoning
<1> USE <1>1, <1>2, <1>4 DEF KeepsRecords, StaysSealed
<1>5. FileTypes' /\ ProcTypes' /\ OpTypes'
  BY DEF Sync, Go, Body, hist, FileTypes, Files, ProcTypes, OpTypes, Pcs, OpRecord
<1>6. HistTypes' /\ CountTypes' /\ InsTypes'
  BY DEF Sync, Go, Body, hist, HistTypes, CountTypes, InsTypes, Inspections
<1>7. PcOK'
  BY DEF hist, Changes, PcOK, Booting, Early, Late, Poisoning, Begun, Mutation
<1>8. TokensOK'
  BY DEF Sync, Go, Body, hist, TokensOK, FileTypes, Files, TokensUpTo
<1>9. BootOK'
  BY DEF Sync, Go, Body, hist, BootOK, Booting, FileTypes, Files
<1>10. RecordsOK'
  BY DEF hist, RecordsOK, Early, Late, Poisoning, Begun, Mutation, PcOK, Booting, Changes
<1>11. CleanOK'
  BY DEF hist, CleanOK, Quiet, Poisoning
<1>12. GoodOK'
  BY DEF hist, GoodOK
<1>13. BodyOK'
  BY DEF hist, BodyOK, Early, Late, Poisoning, Begun, Mutation, Changes, Result
<1>14. AnswerOK'
  BY DEF hist, AnswerOK, Changes
<1>15. StuckOK'
  BY DEF hist, StuckOK, Keyless, Changes
<1>16. InspectionOK'
  BY DEF hist, InspectionOK, InspectionTruthful
<1> QED
  BY <1>5, <1>6, <1>7, <1>8, <1>9, <1>10, <1>11, <1>12, <1>13, <1>14, <1>15, <1>16

LEMMA SyncFailsMutatingStep ==
  ASSUME IInv, SyncFails, pc = "mutating_sync"
  PROVE  IInv'
<1> USE DEF IInv, Types
<1>1. /\ UNCHANGED <<proc, loaded, req, holder, ops, ins>> /\ holder # NoProc /\ cache' = cache
      /\ disk'.sec = disk.sec /\ disk'.mkey = disk.mkey /\ disk'.marker = disk.marker
      /\ UNCHANGED hist
      /\ \/ disk' = disk
         \/ disk'.state = cache.state /\ disk'.guard = cache.guard
      /\ op' = op /\ pc' = "failed" /\ ~ clean'
  BY DEF SyncFails, Go, Body, ProtocolFails, AfterFailure, procs, hist, FileTypes, Files, OpTypes, OpRecord
<1>2. \A e : Good(disk', cache, e) <=> Good(disk, cache, e)
  BY <1>1 DEF Good
<1>3. Good(disk, cache, allowed)
  BY <1>1, BodyGood, SameGuards, SealedServesNot DEF Late, Early, RecordsOK, Finalizing, Sealed
<1> USE <1>1, <1>2, <1>3
<1>4. FileTypes'
  BY DEF SyncFails, Fault, ProtocolFails, Go, AfterFailure, hist, FileTypes, Files
<1>5. ProcTypes'
  BY DEF SyncFails, Fault, ProtocolFails, Go, AfterFailure, hist, ProcTypes
<1>6. OpTypes'
  BY DEF SyncFails, Fault, ProtocolFails, Go, AfterFailure, hist, OpTypes, Pcs, OpRecord
<1>7. HistTypes'
  BY DEF SyncFails, Fault, ProtocolFails, Go, AfterFailure, hist, HistTypes
<1>8. CountTypes'
  BY SecretStoreAssumption DEF SyncFails, Fault, ProtocolFails, Go, AfterFailure, hist, CountTypes,
     SecretStoreAssumption
<1>9. InsTypes'
  BY DEF SyncFails, Fault, ProtocolFails, Go, AfterFailure, hist, InsTypes, Inspections
<1>10. PcOK'
  BY DEF hist, Changes, PcOK, Booting, Early, Late, Poisoning, Begun, Mutation
<1>11. TokensOK'
  BY DEF SyncFails, Fault, ProtocolFails, Go, AfterFailure, hist, TokensOK, FileTypes, Files,
     TokensUpTo
<1>12. BootOK'
  BY DEF SyncFails, Fault, ProtocolFails, Go, AfterFailure, hist, BootOK, Booting, FileTypes, Files
<1>13. RecordsOK'
  BY DEF hist, RecordsOK, Early, Late, Poisoning, Begun, Mutation
<1>14. CleanOK'
  BY DEF hist, CleanOK, Quiet, Poisoning
<1>15. GoodOK'
  BY DEF hist, GoodOK
<1>16. BodyOK'
  BY DEF hist, BodyOK, Early, Late, Poisoning, Begun, Mutation, Changes, Result
<1>17. AnswerOK'
  BY DEF hist, AnswerOK, Changes, PcOK, Booting, Early, Late, Poisoning, Begun, Mutation, BodyOK,
     Good, Result
<1>18. StuckOK'
  BY DEF hist, StuckOK, Keyless, Changes
<1>19. InspectionOK'
  BY DEF hist, InspectionOK, InspectionTruthful
<1> QED
  BY <1>4, <1>5, <1>6, <1>7, <1>8, <1>9, <1>10, <1>11, <1>12, <1>13, <1>14, <1>15, <1>16, <1>17, <1>18, <1>19

LEMMA SyncFailsFinalizingStep ==
  ASSUME IInv, SyncFails, pc = "finalizing_sync"
  PROVE  IInv'
<1> USE DEF IInv, Types
<1>1. /\ UNCHANGED <<proc, loaded, req, holder, ops, ins>> /\ holder # NoProc /\ cache' = cache
      /\ disk'.sec = disk.sec /\ disk'.mkey = disk.mkey /\ disk'.marker = disk.marker
      /\ UNCHANGED hist
      /\ \/ disk' = disk
         \/ disk'.state = cache.state /\ disk'.guard = cache.guard
      /\ op' = op /\ pc' = "failed" /\ ~ clean'
  BY DEF SyncFails, Go, Body, ProtocolFails, AfterFailure, procs, hist, FileTypes, Files, OpTypes, OpRecord
<1>2. \A e : Good(disk', cache, e) <=> Good(disk, cache, e)
  BY <1>1 DEF Good
<1>3. Good(disk, cache, allowed)
  BY <1>1, BodyGood, SameGuards, SealedServesNot DEF Late, Early, RecordsOK, Finalizing, Sealed
<1> USE <1>1, <1>2, <1>3
<1>4. FileTypes'
  BY DEF SyncFails, Fault, ProtocolFails, Go, AfterFailure, hist, FileTypes, Files
<1>5. ProcTypes'
  BY DEF SyncFails, Fault, ProtocolFails, Go, AfterFailure, hist, ProcTypes
<1>6. OpTypes'
  BY DEF SyncFails, Fault, ProtocolFails, Go, AfterFailure, hist, OpTypes, Pcs, OpRecord
<1>7. HistTypes'
  BY DEF SyncFails, Fault, ProtocolFails, Go, AfterFailure, hist, HistTypes
<1>8. CountTypes'
  BY SecretStoreAssumption DEF SyncFails, Fault, ProtocolFails, Go, AfterFailure, hist, CountTypes,
     SecretStoreAssumption
<1>9. InsTypes'
  BY DEF SyncFails, Fault, ProtocolFails, Go, AfterFailure, hist, InsTypes, Inspections
<1>10. PcOK'
  BY DEF hist, Changes, PcOK, Booting, Early, Late, Poisoning, Begun, Mutation
<1>11. TokensOK'
  BY DEF SyncFails, Fault, ProtocolFails, Go, AfterFailure, hist, TokensOK, FileTypes, Files,
     TokensUpTo
<1>12. BootOK'
  BY DEF SyncFails, Fault, ProtocolFails, Go, AfterFailure, hist, BootOK, Booting, FileTypes, Files
<1>13. RecordsOK'
  BY DEF hist, RecordsOK, Early, Late, Poisoning, Begun, Mutation
<1>14. CleanOK'
  BY DEF hist, CleanOK, Quiet, Poisoning
<1>15. GoodOK'
  BY DEF hist, GoodOK
<1>16. BodyOK'
  BY DEF hist, BodyOK, Early, Late, Poisoning, Begun, Mutation, Changes, Result
<1>17. AnswerOK'
  BY DEF hist, AnswerOK, Changes, PcOK, Booting, Early, Late, Poisoning, Begun, Mutation, BodyOK,
     Good, Result
<1>18. StuckOK'
  BY DEF hist, StuckOK, Keyless, Changes
<1>19. InspectionOK'
  BY DEF hist, InspectionOK, InspectionTruthful
<1> QED
  BY <1>4, <1>5, <1>6, <1>7, <1>8, <1>9, <1>10, <1>11, <1>12, <1>13, <1>14, <1>15, <1>16, <1>17, <1>18, <1>19

LEMMA SyncFailsHealthyStep ==
  ASSUME IInv, SyncFails, pc = "healthy_sync"
  PROVE  IInv'
<1> USE DEF IInv, Types
<1>1. /\ UNCHANGED <<proc, loaded, req, holder, ops, ins>> /\ holder # NoProc /\ cache' = cache
      /\ disk'.sec = disk.sec /\ disk'.mkey = disk.mkey /\ disk'.marker = disk.marker
      /\ UNCHANGED hist
      /\ \/ disk' = disk
         \/ disk'.state = cache.state /\ disk'.guard = cache.guard
      /\ op' = op /\ pc' = "failed" /\ ~ clean'
  BY DEF SyncFails, Go, Body, ProtocolFails, AfterFailure, procs, hist, FileTypes, Files, OpTypes, OpRecord
<1>2. \A e : Good(disk', cache, e) <=> Good(disk, cache, e)
  BY <1>1 DEF Good
<1>4. StaysSealed
  BY <1>1, SealKept DEF SealedPlaces, Poisoning
<1> USE <1>1, <1>2, <1>4 DEF KeepsRecords, StaysSealed
<1>5. FileTypes'
  BY DEF SyncFails, Fault, ProtocolFails, Go, AfterFailure, hist, FileTypes, Files
<1>6. ProcTypes'
  BY DEF SyncFails, Fault, ProtocolFails, Go, AfterFailure, hist, ProcTypes
<1>7. OpTypes'
  BY DEF SyncFails, Fault, ProtocolFails, Go, AfterFailure, hist, OpTypes, Pcs, OpRecord
<1>8. HistTypes'
  BY DEF SyncFails, Fault, ProtocolFails, Go, AfterFailure, hist, HistTypes
<1>9. CountTypes'
  BY SecretStoreAssumption DEF SyncFails, Fault, ProtocolFails, Go, AfterFailure, hist, CountTypes,
     SecretStoreAssumption
<1>10. InsTypes'
  BY DEF SyncFails, Fault, ProtocolFails, Go, AfterFailure, hist, InsTypes, Inspections
<1>11. PcOK'
  BY DEF hist, Changes, PcOK, Booting, Early, Late, Poisoning, Begun, Mutation
<1>12. TokensOK'
  BY DEF SyncFails, Fault, ProtocolFails, Go, AfterFailure, hist, TokensOK, FileTypes, Files,
     TokensUpTo
<1>13. BootOK'
  BY DEF SyncFails, Fault, ProtocolFails, Go, AfterFailure, hist, BootOK, Booting, FileTypes, Files
<1>14. RecordsOK'
  BY DEF SyncFails, Fault, ProtocolFails, Go, AfterFailure, hist, RecordsOK, Early, Late, Poisoning,
     Begun, Mutation
<1>15. CleanOK'
  BY DEF hist, CleanOK, Quiet, Poisoning
<1>16. GoodOK'
  BY DEF hist, GoodOK
<1>17. BodyOK'
  BY DEF hist, BodyOK, Early, Late, Poisoning, Begun, Mutation, Changes, Result
<1>18. AnswerOK'
  BY DEF hist, AnswerOK, Changes
<1>19. StuckOK'
  BY DEF hist, StuckOK, Keyless, Changes
<1>20. InspectionOK'
  BY DEF hist, InspectionOK, InspectionTruthful
<1> QED
  BY <1>5, <1>6, <1>7, <1>8, <1>9, <1>10, <1>11, <1>12, <1>13, <1>14, <1>15, <1>16, <1>17, <1>18, <1>19, <1>20

LEMMA SyncFailsIdleStep ==
  ASSUME IInv, SyncFails, pc = "idle_sync"
  PROVE  IInv'
<1> USE DEF IInv, Types
<1>1. /\ UNCHANGED <<proc, loaded, req, holder, ops, ins>> /\ holder # NoProc /\ cache' = cache
      /\ disk'.sec = disk.sec /\ disk'.mkey = disk.mkey /\ disk'.marker = disk.marker
      /\ UNCHANGED hist
      /\ \/ disk' = disk
         \/ disk'.state = cache.state /\ disk'.guard = cache.guard
      /\ op' = op /\ pc' = "indeterminate" /\ ~ clean'
  BY DEF SyncFails, Go, Body, ProtocolFails, AfterFailure, procs, hist, FileTypes, Files, OpTypes, OpRecord
<1>2. \A e : Good(disk', cache, e) <=> Good(disk, cache, e)
  BY <1>1 DEF Good
<1>3. Good(disk, cache, allowed)
  BY <1>1, BodyGood, SameGuards, SealedServesNot DEF Late, Early, RecordsOK, Finalizing, Sealed
<1> USE <1>1, <1>2, <1>3
<1>4. FileTypes'
  BY DEF SyncFails, Fault, ProtocolFails, Go, AfterFailure, hist, FileTypes, Files
<1>5. ProcTypes'
  BY DEF SyncFails, Fault, ProtocolFails, Go, AfterFailure, hist, ProcTypes
<1>6. OpTypes'
  BY DEF SyncFails, Fault, ProtocolFails, Go, AfterFailure, hist, OpTypes, Pcs, OpRecord
<1>7. HistTypes'
  BY DEF SyncFails, Fault, ProtocolFails, Go, AfterFailure, hist, HistTypes
<1>8. CountTypes'
  BY SecretStoreAssumption DEF SyncFails, Fault, ProtocolFails, Go, AfterFailure, hist, CountTypes,
     SecretStoreAssumption
<1>9. InsTypes'
  BY DEF SyncFails, Fault, ProtocolFails, Go, AfterFailure, hist, InsTypes, Inspections
<1>10. PcOK'
  BY DEF hist, Changes, PcOK, Booting, Early, Late, Poisoning, Begun, Mutation
<1>11. TokensOK'
  BY DEF SyncFails, Fault, ProtocolFails, Go, AfterFailure, hist, TokensOK, FileTypes, Files,
     TokensUpTo
<1>12. BootOK'
  BY DEF SyncFails, Fault, ProtocolFails, Go, AfterFailure, hist, BootOK, Booting, FileTypes, Files
<1>13. RecordsOK'
  BY DEF hist, RecordsOK, Early, Late, Poisoning, Begun, Mutation
<1>14. CleanOK'
  BY DEF hist, CleanOK, Quiet, Poisoning
<1>15. GoodOK'
  BY DEF hist, GoodOK
<1>16. BodyOK'
  BY DEF hist, BodyOK, Early, Late, Poisoning, Begun, Mutation, Changes, Result
<1>17. AnswerOK'
  BY DEF hist, AnswerOK, Changes
<1>18. StuckOK'
  BY DEF hist, StuckOK, Keyless, Changes
<1>19. InspectionOK'
  BY DEF hist, InspectionOK, InspectionTruthful
<1> QED
  BY <1>4, <1>5, <1>6, <1>7, <1>8, <1>9, <1>10, <1>11, <1>12, <1>13, <1>14, <1>15, <1>16, <1>17, <1>18, <1>19

LEMMA SyncFailsPoisonStep ==
  ASSUME IInv, SyncFails, pc = "poison_sync"
  PROVE  IInv'
<1> USE DEF IInv, Types
<1>1. /\ UNCHANGED <<proc, loaded, req, holder, ops, ins>> /\ holder # NoProc /\ cache' = cache
      /\ disk'.sec = disk.sec /\ disk'.mkey = disk.mkey /\ disk'.marker = disk.marker
      /\ UNCHANGED hist
      /\ \/ disk' = disk
         \/ disk'.state = cache.state /\ disk'.guard = cache.guard
      /\ op' = op /\ pc' = "recovery_marker" /\ ~ clean'
  BY DEF SyncFails, Go, Body, ProtocolFails, AfterFailure, procs, hist, FileTypes, Files, OpTypes, OpRecord
<1>2. \A e : Good(disk', cache, e) <=> Good(disk, cache, e)
  BY <1>1 DEF Good
<1>4. StaysSealed
  BY <1>1, SealKept DEF SealedPlaces, Poisoning
<1> USE <1>1, <1>2, <1>4 DEF KeepsRecords, StaysSealed
<1>5. FileTypes'
  BY DEF SyncFails, Fault, ProtocolFails, Go, AfterFailure, hist, FileTypes, Files
<1>6. ProcTypes'
  BY DEF SyncFails, Fault, ProtocolFails, Go, AfterFailure, hist, ProcTypes
<1>7. OpTypes'
  BY DEF SyncFails, Fault, ProtocolFails, Go, AfterFailure, hist, OpTypes, Pcs, OpRecord
<1>8. HistTypes'
  BY DEF SyncFails, Fault, ProtocolFails, Go, AfterFailure, hist, HistTypes
<1>9. CountTypes'
  BY SecretStoreAssumption DEF SyncFails, Fault, ProtocolFails, Go, AfterFailure, hist, CountTypes,
     SecretStoreAssumption
<1>10. InsTypes'
  BY DEF SyncFails, Fault, ProtocolFails, Go, AfterFailure, hist, InsTypes, Inspections
<1>11. PcOK'
  BY DEF hist, Changes, PcOK, Booting, Early, Late, Poisoning, Begun, Mutation
<1>12. TokensOK'
  BY DEF SyncFails, Fault, ProtocolFails, Go, AfterFailure, hist, TokensOK, FileTypes, Files,
     TokensUpTo
<1>13. BootOK'
  BY DEF SyncFails, Fault, ProtocolFails, Go, AfterFailure, hist, BootOK, Booting, FileTypes, Files
<1>14. RecordsOK'
  BY DEF hist, RecordsOK, Early, Late, Poisoning, Begun, Mutation, PcOK, Booting, Changes
<1>15. CleanOK'
  BY DEF hist, CleanOK, Quiet, Poisoning
<1>16. GoodOK'
  BY DEF hist, GoodOK
<1>17. BodyOK'
  BY DEF hist, BodyOK, Early, Late, Poisoning, Begun, Mutation, Changes, Result
<1>18. AnswerOK'
  BY DEF hist, AnswerOK, Changes
<1>19. StuckOK'
  BY DEF hist, StuckOK, Keyless, Changes
<1>20. InspectionOK'
  BY DEF hist, InspectionOK, InspectionTruthful
<1> QED
  BY <1>5, <1>6, <1>7, <1>8, <1>9, <1>10, <1>11, <1>12, <1>13, <1>14, <1>15, <1>16, <1>17, <1>18, <1>19, <1>20

LEMMA CommittedStep ==
  ASSUME IInv, Committed
  PROVE  IInv'
<1> USE DEF IInv, Types
<1>1. /\ UNCHANGED <<cache, disk, proc, req, holder, op, hist, ops, ins>>
      /\ pc = "idle_check" /\ holder # NoProc
      /\ (pc' = Outcome
           /\ loaded' = [loaded EXCEPT ![holder] = IF op.kind = "init" THEN cache.mkey ELSE loaded[holder]])
  BY DEF Committed, At, Go, files, hist, ProcTypes
<1> USE <1>1
<1>2. FileTypes'
  BY DEF Committed, At, Go, Outcome, files, hist, FileTypes
<1>3. ProcTypes'
  <2>1. loaded' = [loaded EXCEPT ![holder] = loaded'[holder]] /\ (loaded'[holder] = loaded[holder] \/ loaded'[holder] = cache.mkey)
    BY DEF Committed, ProcTypes, At
  <2>2. fatal' = [fatal EXCEPT ![holder] = fatal[holder] \/ op.err = "cleanup"]
    BY DEF Committed, ProcTypes
  <2>3. UNCHANGED <<proc, req, holder>> /\ cache.mkey \in Nat
    BY DEF Committed, FileTypes, Files
  <2>4. fatal' \in [Procs -> BOOLEAN]
    BY <2>2 DEF ProcTypes
  <2>5. loaded' \in [Procs -> Nat]
    BY <2>1, <2>3 DEF ProcTypes
  <2> QED
    BY <2>3, <2>4, <2>5 DEF ProcTypes
<1>4. OpTypes'
  BY DEF Committed, At, Go, Outcome, files, hist, OpTypes, Pcs, OpRecord
<1>5. HistTypes' /\ CountTypes' /\ InsTypes'
  BY DEF Committed, At, Go, Outcome, files, hist, HistTypes, CountTypes, InsTypes, Inspections
<1>6. PcOK'
  BY DEF hist, Outcome, Changes, PcOK, Booting, Early, Late, Poisoning, Begun, Mutation
<1>7. TokensOK'
  BY DEF Committed, At, Go, Outcome, files, hist, TokensOK
<1>8. BootOK'
  BY DEF Committed, At, Go, Outcome, files, hist, BootOK, Booting
<1>9. RecordsOK'
  BY DEF Committed, At, Go, Outcome, files, hist, RecordsOK, Early, Late, Poisoning, Begun, Mutation
<1>10. CleanOK'
  BY DEF Committed, At, Go, Outcome, files, hist, CleanOK, Quiet, Poisoning, RecordsOK, Early, Late,
     Begun, Mutation, PcOK, Booting, Changes
<1>11. GoodOK'
  BY DEF Committed, At, Go, Outcome, files, hist, GoodOK
<1>12. BodyOK'
  BY DEF Committed, At, Go, Outcome, files, hist, BodyOK, Early, Late, Poisoning, Begun, Mutation,
     Changes, Result
<1>13. AnswerOK'
  BY DEF Committed, At, Go, Outcome, files, hist, AnswerOK, Changes, PcOK, Booting, Early, Late,
     Poisoning, Begun, Mutation, BodyOK, Good, Result
<1>14. StuckOK'
  BY DEF hist, Outcome, Changes, StuckOK, Keyless, ProcTypes, PcOK, Booting, Early, Late, Poisoning,
     Begun, Mutation, BodyOK, Result, Good
<1>15. InspectionOK'
  BY DEF hist, Outcome, InspectionOK, InspectionTruthful
<1> QED
  BY <1>2, <1>3, <1>4, <1>5, <1>6, <1>7, <1>8, <1>9, <1>10, <1>11, <1>12, <1>13, <1>14, <1>15

LEMMA ReadBackFailsStep ==
  ASSUME IInv, ReadBackFails
  PROVE  IInv'
<1> USE DEF IInv, Types
<1>1. /\ UNCHANGED <<cache, disk, proc, req, holder, op, hist, ops, ins>>
      /\ pc = "idle_check" /\ holder # NoProc
      /\ \/ pc' = Outcome
            /\ loaded' = [loaded EXCEPT ![holder] = IF op.kind = "init" THEN cache.mkey ELSE loaded[holder]]
         \/ pc' = "indeterminate" /\ loaded' = loaded
  <2>1. UNCHANGED <<cache, disk, proc, req, holder, op, hist, ops, ins>> /\ pc = "idle_check" /\ holder # NoProc
    BY DEF ReadBackFails, At, files, hist
  <2>2. \/ pc' = Outcome /\ loaded' = [loaded EXCEPT ![holder] = IF op.kind = "init" THEN cache.mkey ELSE loaded[holder]]
        \/ pc' = "indeterminate" /\ loaded' = loaded
    BY DEF ReadBackFails, Go
  <2> QED
    BY <2>1, <2>2
<1> USE <1>1
<1>2. FileTypes'
  BY DEF ReadBackFails, Fault, At, Go, Outcome, files, hist, FileTypes
<1>3. ProcTypes'
  <2>1. loaded' = loaded \/ loaded' = [loaded EXCEPT ![holder] = cache.mkey]
    BY DEF ReadBackFails, ProcTypes, At
  <2>2. fatal' \in [Procs -> BOOLEAN]
    BY DEF ReadBackFails, ProcTypes
  <2>3. UNCHANGED <<proc, req, holder>> /\ cache.mkey \in Nat
    BY DEF ReadBackFails, FileTypes, Files
  <2> QED
    BY <2>1, <2>2, <2>3 DEF ProcTypes
<1>4. OpTypes'
  BY DEF ReadBackFails, Fault, At, Go, Outcome, files, hist, OpTypes, Pcs, OpRecord
<1>5. HistTypes' /\ CountTypes' /\ InsTypes'
  BY SecretStoreAssumption DEF ReadBackFails, Fault, At, Go, Outcome, files, hist, HistTypes,
     CountTypes, InsTypes, Inspections, SecretStoreAssumption
<1>6. PcOK'
  BY DEF hist, Outcome, Changes, PcOK, Booting, Early, Late, Poisoning, Begun, Mutation
<1>7. TokensOK'
  BY DEF ReadBackFails, Fault, At, Go, Outcome, files, hist, TokensOK
<1>8. BootOK'
  BY DEF ReadBackFails, Fault, At, Go, Outcome, files, hist, BootOK, Booting
<1>9. RecordsOK'
  BY DEF ReadBackFails, Fault, At, Go, Outcome, files, hist, RecordsOK, Early, Late, Poisoning,
     Begun, Mutation
<1>10. CleanOK'
  BY DEF ReadBackFails, Fault, At, Go, Outcome, files, hist, CleanOK, Quiet, Poisoning, RecordsOK,
     Early, Late, Begun, Mutation, PcOK, Booting, Changes
<1>11. GoodOK'
  BY DEF ReadBackFails, Fault, At, Go, Outcome, files, hist, GoodOK
<1>12. BodyOK'
  BY DEF ReadBackFails, Fault, At, Go, Outcome, files, hist, BodyOK, Early, Late, Poisoning, Begun,
     Mutation, Changes, Result
<1>13. AnswerOK'
  BY DEF ReadBackFails, Fault, At, Go, Outcome, files, hist, AnswerOK, Changes, PcOK, Booting,
     Early, Late, Poisoning, Begun, Mutation, BodyOK, Good, Result
<1>14. StuckOK'
  BY DEF hist, Outcome, Changes, StuckOK, Keyless, ProcTypes, PcOK, Booting, Early, Late, Poisoning,
     Begun, Mutation, BodyOK, Result, Good
<1>15. InspectionOK'
  BY DEF hist, Outcome, InspectionOK, InspectionTruthful
<1> QED
  BY <1>2, <1>3, <1>4, <1>5, <1>6, <1>7, <1>8, <1>9, <1>10, <1>11, <1>12, <1>13, <1>14, <1>15

-----------------------------------------------------------------------------
(* The bodies: what they do to the secrets, and how they fail *)

LEMMA CreateKeyStep ==
  ASSUME IInv, CreateKey
  PROVE  IInv'
<1> USE DEF IInv, Types
<1>2. pc \in SealedPlaces /\ cache'.state = cache.state /\ cache'.guard = cache.guard /\ disk'.state = disk.state /\ disk'.guard = disk.guard
  BY DEF CreateKey, At, SealedPlaces, Poisoning, WithSecret, SyncDirectory, FileTypes, Files
<1>3. KeepsRecords /\ StaysSealed
  BY <1>2, RecordsKept, SealKept
<1> USE <1>2, <1>3 DEF KeepsRecords, StaysSealed
<1>4. FileTypes' /\ ProcTypes' /\ OpTypes'
  BY DEF CreateKey, At, Go, BodyKeeps, procs, hist, SyncDirectory, FileTypes, Files, OpTypes, Pcs,
     OpRecord, PcOK, Booting, Early, Late, Poisoning, Begun, Mutation, Changes, ProcTypes
<1>5. HistTypes' /\ CountTypes' /\ InsTypes'
  BY DEF CreateKey, At, Go, BodyKeeps, procs, hist, SyncDirectory, HistTypes, CountTypes, InsTypes,
     Inspections
<1>6. PcOK'
  BY DEF CreateKey, At, Go, BodyKeeps, procs, hist, SyncDirectory, PcOK, Booting, Early, Late,
     Poisoning, Begun, Mutation, Changes
<1>7. TokensOK'
  BY DEF CreateKey, At, Go, BodyKeeps, procs, hist, SyncDirectory, TokensOK, FileTypes, Files,
     TokensUpTo
<1>8. BootOK'
  BY DEF CreateKey, At, Go, BodyKeeps, procs, hist, SyncDirectory, BootOK, Booting, FileTypes,
     Files, RecordsOK, Early, Late, Poisoning, Begun, Mutation, PcOK, Changes
<1>9. RecordsOK'
  BY DEF CreateKey, At, Go, BodyKeeps, procs, hist, SyncDirectory, RecordsOK, Early, Late,
     Poisoning, Begun, Mutation
<1>10. CleanOK'
  BY DEF CreateKey, At, Go, BodyKeeps, procs, hist, SyncDirectory, CleanOK, Quiet, Poisoning
<1>11. GoodOK'
  BY DEF CreateKey, At, Go, BodyKeeps, procs, hist, SyncDirectory, GoodOK
<1>12. BodyOK'
  BY DEF CreateKey, At, Go, BodyKeeps, procs, hist, SyncDirectory, BodyOK, Early, Late, Poisoning,
     Begun, Mutation, Changes, Result, Good, PcOK, Booting
<1>13. AnswerOK'
  BY DEF CreateKey, At, Go, BodyKeeps, procs, hist, SyncDirectory, AnswerOK, Changes
<1>14. StuckOK'
  BY DEF CreateKey, At, Go, BodyKeeps, procs, hist, SyncDirectory, StuckOK, Keyless, Changes
<1>15. InspectionOK'
  BY DEF CreateKey, At, Go, BodyKeeps, procs, hist, SyncDirectory, InspectionOK, InspectionTruthful,
     Moved
<1> QED
  BY <1>4, <1>5, <1>6, <1>7, <1>8, <1>9, <1>10, <1>11, <1>12, <1>13, <1>14, <1>15

LEMMA CreateTemporaryStep ==
  ASSUME IInv, CreateTemporary
  PROVE  IInv'
<1> USE DEF IInv, Types
<1>1. pc \in SealedPlaces /\ UNCHANGED files
  BY DEF CreateTemporary, At, SealedPlaces, Poisoning
<1>2. StaysSealed
  BY <1>1, SealKept DEF files
<1> USE <1>1, <1>2 DEF KeepsRecords, StaysSealed
<1>3. FileTypes'
  BY DEF CreateTemporary, At, Go, BodyKeeps, procs, hist, files, FileTypes
<1>4. ProcTypes'
  BY DEF CreateTemporary, At, Go, BodyKeeps, procs, hist, files, ProcTypes
<1>5. OpTypes'
  <2>1. op.key \in Keys /\ cache.sec[op.key] \in Secrets
    BY DEF PcOK, CreateTemporary, At, Changes, FileTypes, Files
  <2>2. op' = [op EXCEPT !.prev = cache.sec[op.key]] /\ pc' = "publish"
    BY DEF CreateTemporary, Go
  <2> QED
    BY <2>1, <2>2 DEF OpTypes, OpRecord, Pcs
<1>6. HistTypes' /\ CountTypes' /\ InsTypes'
  BY DEF CreateTemporary, At, Go, BodyKeeps, procs, hist, files, HistTypes, CountTypes, InsTypes,
     Inspections
<1>7. PcOK'
  BY DEF CreateTemporary, At, Go, BodyKeeps, procs, hist, files, PcOK, Booting, Early, Late,
     Poisoning, Begun, Mutation, Changes
<1>8. TokensOK'
  BY DEF CreateTemporary, At, Go, BodyKeeps, procs, hist, files, TokensOK
<1>9. BootOK'
  BY DEF CreateTemporary, At, Go, BodyKeeps, procs, hist, files, BootOK, Booting
<1>10. RecordsOK'
  BY DEF CreateTemporary, At, Go, BodyKeeps, procs, hist, files, RecordsOK, Early, Late, Poisoning,
     Begun, Mutation
<1>11. CleanOK'
  BY DEF CreateTemporary, At, Go, BodyKeeps, procs, hist, files, CleanOK, Quiet, Poisoning
<1>12. GoodOK'
  BY DEF CreateTemporary, At, Go, BodyKeeps, procs, hist, files, GoodOK
<1>13. BodyOK'
  BY DEF CreateTemporary, At, Go, BodyKeeps, procs, hist, files, BodyOK, Early, Late, Poisoning,
     Begun, Mutation, Changes, Result
<1>14. AnswerOK'
  BY DEF CreateTemporary, At, Go, BodyKeeps, procs, hist, files, AnswerOK, Changes
<1>15. StuckOK'
  BY DEF CreateTemporary, At, Go, BodyKeeps, procs, hist, files, StuckOK, Keyless, Changes
<1>16. InspectionOK'
  BY DEF CreateTemporary, At, Go, BodyKeeps, procs, hist, files, InspectionOK, InspectionTruthful
<1> QED
  BY <1>3, <1>4, <1>5, <1>6, <1>7, <1>8, <1>9, <1>10, <1>11, <1>12, <1>13, <1>14, <1>15, <1>16

LEMMA PublishStep ==
  ASSUME IInv, Publish
  PROVE  IInv'
<1> USE DEF IInv, Types
<1>2. pc \in SealedPlaces /\ cache'.state = cache.state /\ cache'.guard = cache.guard /\ disk'.state = disk.state /\ disk'.guard = disk.guard
  BY DEF Publish, At, SealedPlaces, Poisoning, WithSecret, SyncDirectory, FileTypes, Files
<1>3. KeepsRecords /\ StaysSealed
  BY <1>2, RecordsKept, SealKept
<1> USE <1>2, <1>3 DEF KeepsRecords, StaysSealed
<1>4. FileTypes' /\ ProcTypes' /\ OpTypes'
  BY DEF Publish, At, Go, BodyKeeps, procs, hist, WithSecret, FileTypes, Files, OpTypes, Pcs,
     OpRecord, ProcTypes, PcOK, Booting, Early, Late, Poisoning, Begun, Mutation, Changes, Secrets
<1>5. HistTypes' /\ CountTypes' /\ InsTypes'
  BY DEF Publish, At, Go, BodyKeeps, procs, hist, WithSecret, HistTypes, CountTypes, InsTypes,
     Inspections
<1>6. PcOK'
  BY DEF Publish, At, Go, BodyKeeps, procs, hist, WithSecret, PcOK, Booting, Early, Late, Poisoning,
     Begun, Mutation, Changes
<1>7. TokensOK'
  BY DEF Publish, At, Go, BodyKeeps, procs, hist, WithSecret, TokensOK, FileTypes, Files, TokensUpTo
<1>8. BootOK'
  BY DEF Publish, At, Go, BodyKeeps, procs, hist, WithSecret, BootOK, Booting, FileTypes, Files,
     RecordsOK, Early, Late, Poisoning, Begun, Mutation, PcOK, Changes
<1>9. RecordsOK'
  BY DEF Publish, At, Go, BodyKeeps, procs, hist, WithSecret, RecordsOK, Early, Late, Poisoning,
     Begun, Mutation
<1>10. CleanOK'
  BY DEF Publish, At, Go, BodyKeeps, procs, hist, WithSecret, CleanOK, Quiet, Poisoning
<1>11. GoodOK'
  BY DEF Publish, At, Go, BodyKeeps, procs, hist, WithSecret, GoodOK
<1>12. BodyOK'
  BY DEF Publish, At, Go, BodyKeeps, procs, hist, WithSecret, BodyOK, Early, Late, Poisoning, Begun,
     Mutation, Changes, Result, Good
<1>13. AnswerOK'
  BY DEF Publish, At, Go, BodyKeeps, procs, hist, WithSecret, AnswerOK, Changes
<1>14. StuckOK'
  BY DEF Publish, At, Go, BodyKeeps, procs, hist, WithSecret, StuckOK, Keyless, Changes
<1>15. InspectionOK'
  BY DEF Publish, At, Go, BodyKeeps, procs, hist, WithSecret, InspectionOK, InspectionTruthful,
     Moved
<1> QED
  BY <1>4, <1>5, <1>6, <1>7, <1>8, <1>9, <1>10, <1>11, <1>12, <1>13, <1>14, <1>15

LEMMA ValidateStep ==
  ASSUME IInv, Validate
  PROVE  IInv'
<1> USE DEF IInv, Types
<1>2. pc \in SealedPlaces /\ cache'.state = cache.state /\ cache'.guard = cache.guard /\ disk'.state = disk.state /\ disk'.guard = disk.guard
  BY DEF Validate, At, SealedPlaces, Poisoning, WithSecret, SyncDirectory, FileTypes, Files
<1>3. KeepsRecords /\ StaysSealed
  BY <1>2, RecordsKept, SealKept
<1> USE <1>2, <1>3 DEF KeepsRecords, StaysSealed
<1>4. FileTypes' /\ ProcTypes' /\ OpTypes'
  BY DEF Validate, At, Go, BodyKeeps, procs, hist, SyncDirectory, FileTypes, Files, ProcTypes,
     OpTypes, Pcs, OpRecord
<1>5. HistTypes' /\ CountTypes' /\ InsTypes'
  BY DEF Validate, At, Go, BodyKeeps, procs, hist, SyncDirectory, HistTypes, CountTypes, InsTypes,
     Inspections
<1>6. PcOK'
  BY DEF Validate, At, Go, BodyKeeps, procs, hist, SyncDirectory, PcOK, Booting, Early, Late,
     Poisoning, Begun, Mutation, Changes
<1>7. TokensOK'
  BY DEF Validate, At, Go, BodyKeeps, procs, hist, SyncDirectory, TokensOK, FileTypes, Files,
     TokensUpTo
<1>8. BootOK'
  BY DEF Validate, At, Go, BodyKeeps, procs, hist, SyncDirectory, BootOK, Booting, FileTypes, Files
<1>9. RecordsOK'
  BY DEF Validate, At, Go, BodyKeeps, procs, hist, SyncDirectory, RecordsOK, Early, Late, Poisoning,
     Begun, Mutation
<1>10. CleanOK'
  BY DEF Validate, At, Go, BodyKeeps, procs, hist, SyncDirectory, CleanOK, Quiet, Poisoning
<1>11. GoodOK'
  BY DEF Validate, At, Go, BodyKeeps, procs, hist, SyncDirectory, GoodOK
<1>12. BodyOK'
  BY DEF Validate, At, Go, BodyKeeps, procs, hist, SyncDirectory, BodyOK, Early, Late, Poisoning,
     Begun, Mutation, Changes, PcOK, Booting, Good, Result, FileTypes, Files, NoSecret
<1>13. AnswerOK'
  BY DEF Validate, At, Go, BodyKeeps, procs, hist, SyncDirectory, AnswerOK, Changes
<1>14. StuckOK'
  BY DEF Validate, At, Go, BodyKeeps, procs, hist, SyncDirectory, StuckOK, Keyless, Changes
<1>15. InspectionOK'
  BY DEF Validate, At, Go, BodyKeeps, procs, hist, SyncDirectory, InspectionOK, InspectionTruthful
<1> QED
  BY <1>4, <1>5, <1>6, <1>7, <1>8, <1>9, <1>10, <1>11, <1>12, <1>13, <1>14, <1>15

LEMMA RetirePreviousStep ==
  ASSUME IInv, RetirePrevious
  PROVE  IInv'
<1> USE DEF IInv, Types
<1>1. pc \in SealedPlaces /\ UNCHANGED files
  BY DEF RetirePrevious, At, SealedPlaces, Poisoning
<1>2. StaysSealed
  BY <1>1, SealKept DEF files
<1> USE <1>1, <1>2 DEF KeepsRecords, StaysSealed
<1>3. FileTypes' /\ ProcTypes' /\ OpTypes'
  BY DEF RetirePrevious, At, Go, BodyKeeps, procs, hist, files, FileTypes, ProcTypes, OpTypes, Pcs,
     OpRecord
<1>4. HistTypes' /\ CountTypes' /\ InsTypes'
  BY DEF RetirePrevious, At, Go, BodyKeeps, procs, hist, files, HistTypes, CountTypes, InsTypes,
     Inspections
<1>5. PcOK'
  BY DEF RetirePrevious, At, Go, BodyKeeps, procs, hist, files, PcOK, Booting, Early, Late,
     Poisoning, Begun, Mutation, Changes
<1>6. TokensOK'
  BY DEF RetirePrevious, At, Go, BodyKeeps, procs, hist, files, TokensOK
<1>7. BootOK'
  BY DEF RetirePrevious, At, Go, BodyKeeps, procs, hist, files, BootOK, Booting
<1>8. RecordsOK'
  BY DEF RetirePrevious, At, Go, BodyKeeps, procs, hist, files, RecordsOK, Early, Late, Poisoning,
     Begun, Mutation
<1>9. CleanOK'
  BY DEF RetirePrevious, At, Go, BodyKeeps, procs, hist, files, CleanOK, Quiet, Poisoning
<1>10. GoodOK'
  BY DEF RetirePrevious, At, Go, BodyKeeps, procs, hist, files, GoodOK
<1>11. BodyOK'
  BY DEF RetirePrevious, At, Go, BodyKeeps, procs, hist, files, BodyOK, Early, Late, Poisoning,
     Begun, Mutation, Changes, Result
<1>12. AnswerOK'
  BY DEF RetirePrevious, At, Go, BodyKeeps, procs, hist, files, AnswerOK, Changes
<1>13. StuckOK'
  BY DEF RetirePrevious, At, Go, BodyKeeps, procs, hist, files, StuckOK, Keyless, Changes
<1>14. InspectionOK'
  BY DEF RetirePrevious, At, Go, BodyKeeps, procs, hist, files, InspectionOK, InspectionTruthful
<1> QED
  BY <1>3, <1>4, <1>5, <1>6, <1>7, <1>8, <1>9, <1>10, <1>11, <1>12, <1>13, <1>14

LEMMA RemoveStep ==
  ASSUME IInv, Remove
  PROVE  IInv'
<1> USE DEF IInv, Types
<1>1. /\ UNCHANGED <<proc, fatal, loaded, req, holder, op, allowed, before, clean, ops, faults, ins>>
      /\ holder # NoProc /\ pc = "remove" /\ pc' = "close"
      /\ cache'.sec = [cache.sec EXCEPT ![op.key] = NoSecret] /\ cache'.mkey = cache.mkey
      /\ disk'.sec = cache'.sec /\ disk'.mkey = cache'.mkey /\ cache'.marker = cache.marker
  BY DEF Remove, At, Go, BodyKeeps, procs, hist, files, WithSecret, SyncDirectory, FileTypes, Files
<1>2. pc \in SealedPlaces /\ cache'.state = cache.state /\ cache'.guard = cache.guard /\ disk'.state = disk.state /\ disk'.guard = disk.guard
  BY DEF Remove, At, SealedPlaces, Poisoning, WithSecret, SyncDirectory, FileTypes, Files
<1>3. KeepsRecords /\ StaysSealed
  BY <1>2, RecordsKept, SealKept
<1> USE <1>1, <1>2, <1>3 DEF KeepsRecords, StaysSealed
<1>4. FileTypes'
  <2>1. NoSecret \in Secrets /\ op.key \in Keys
    BY DEF NoSecret, Secrets, PcOK, Changes, Remove, At
  <2>2. cache' = [cache EXCEPT !.sec = [cache.sec EXCEPT ![op.key] = NoSecret]]
    BY DEF Remove, WithSecret
  <2>3. disk' = [disk EXCEPT !.sec = cache'.sec, !.mkey = cache'.mkey, !.marker = cache'.marker]
    BY DEF Remove, SyncDirectory
  <2>4. cache' \in Files
    BY <2>1, <2>2 DEF FileTypes, Files
  <2> QED
    BY <2>3, <2>4 DEF FileTypes, Files
<1>5. ProcTypes'
  BY DEF Remove, At, Go, BodyKeeps, procs, hist, SyncDirectory, WithSecret, ProcTypes
<1>6. OpTypes'
  BY DEF Remove, At, Go, BodyKeeps, procs, hist, SyncDirectory, WithSecret, OpTypes, Pcs, OpRecord
<1>7. HistTypes' /\ CountTypes' /\ InsTypes'
  BY DEF Remove, At, Go, BodyKeeps, procs, hist, SyncDirectory, WithSecret, HistTypes, CountTypes,
     InsTypes, Inspections
<1>8. PcOK'
  BY DEF Changes, PcOK, Booting, Early, Late, Poisoning, Begun, Mutation
<1>9. TokensOK'
  BY DEF Remove, At, Go, BodyKeeps, procs, hist, SyncDirectory, WithSecret, TokensOK, FileTypes,
     Files, TokensUpTo
<1>10. BootOK'
  BY DEF Remove, At, Go, BodyKeeps, procs, hist, SyncDirectory, WithSecret, BootOK, Booting,
     FileTypes, Files, RecordsOK, Early, Late, Poisoning, Begun, Mutation, PcOK, Changes
<1>11. RecordsOK'
  BY DEF Remove, At, Go, BodyKeeps, procs, hist, SyncDirectory, WithSecret, RecordsOK, Early, Late,
     Poisoning, Begun, Mutation
<1>12. CleanOK'
  BY DEF Remove, At, Go, BodyKeeps, procs, hist, SyncDirectory, WithSecret, CleanOK, Quiet,
     Poisoning
<1>13. GoodOK'
  BY DEF Remove, At, Go, BodyKeeps, procs, hist, SyncDirectory, WithSecret, GoodOK
<1>14. BodyOK'
  <2>1. op.kind = "delete" /\ op.key \in Keys /\ op.val = NoVal /\ op.err = "none" /\ Changes /\ loaded[holder] # 0
    BY DEF PcOK, Changes, Early, BodyOK, Mutation, Begun
  <2>2. Good(disk, cache, before) /\ cache.sec \in [Keys -> Secrets]
    BY DEF BodyOK, Early, FileTypes, Files
  <2>3. Good(disk', cache', Result')
    BY <2>1, <2>2 DEF Good, Result, NoSecret, Changes
  <2>4. \A k \in Keys : before[k] \subseteq allowed[k] /\ (k = op.key => op.val \in allowed[k])
    BY <2>1 DEF BodyOK, Begun, Early
  <2> QED
    BY <2>1, <2>3, <2>4 DEF BodyOK, Begun, Mutation, Early, Late, Poisoning, Changes
<1>15. AnswerOK'
  BY DEF Remove, At, Go, BodyKeeps, procs, hist, SyncDirectory, WithSecret, AnswerOK, Changes
<1>16. StuckOK'
  BY DEF Remove, At, Go, BodyKeeps, procs, hist, SyncDirectory, WithSecret, StuckOK, Keyless,
     Changes
<1>17. InspectionOK'
  BY DEF InspectionOK, InspectionTruthful, Moved
<1> QED
  BY <1>4, <1>5, <1>6, <1>7, <1>8, <1>9, <1>10, <1>11, <1>12, <1>13, <1>14, <1>15, <1>16, <1>17

LEMMA CloseStep ==
  ASSUME IInv, Close
  PROVE  IInv'
<1> USE DEF IInv, Types
<1>1. pc \in SealedPlaces /\ UNCHANGED files
  BY DEF Close, At, SealedPlaces, Poisoning
<1>2. StaysSealed
  BY <1>1, SealKept DEF files
<1> USE <1>1, <1>2 DEF KeepsRecords, StaysSealed
<1>3. FileTypes' /\ ProcTypes' /\ OpTypes'
  BY DEF Close, At, Go, BodyKeeps, procs, hist, files, FileTypes, ProcTypes, OpTypes, Pcs, OpRecord
<1>4. HistTypes' /\ CountTypes' /\ InsTypes'
  BY DEF Close, At, Go, BodyKeeps, procs, hist, files, HistTypes, CountTypes, InsTypes, Inspections
<1>5. PcOK'
  BY DEF Close, At, Go, BodyKeeps, procs, hist, files, PcOK, Booting, Early, Late, Poisoning, Begun,
     Mutation, Changes
<1>6. TokensOK'
  BY DEF Close, At, Go, BodyKeeps, procs, hist, files, TokensOK
<1>7. BootOK'
  BY DEF Close, At, Go, BodyKeeps, procs, hist, files, BootOK, Booting
<1>8. RecordsOK'
  BY DEF Close, At, Go, BodyKeeps, procs, hist, files, RecordsOK, Early, Late, Poisoning, Begun,
     Mutation
<1>9. CleanOK'
  BY DEF Close, At, Go, BodyKeeps, procs, hist, files, CleanOK, Quiet, Poisoning
<1>10. GoodOK'
  BY DEF Close, At, Go, BodyKeeps, procs, hist, files, GoodOK
<1>11. BodyOK'
  BY DEF Close, At, Go, BodyKeeps, procs, hist, files, BodyOK, Early, Late, Poisoning, Begun,
     Mutation, Changes, Result
<1>12. AnswerOK'
  BY DEF Close, At, Go, BodyKeeps, procs, hist, files, AnswerOK, Changes
<1>13. StuckOK'
  BY DEF Close, At, Go, BodyKeeps, procs, hist, files, StuckOK, Keyless, Changes
<1>14. InspectionOK'
  BY DEF Close, At, Go, BodyKeeps, procs, hist, files, InspectionOK, InspectionTruthful
<1> QED
  BY <1>3, <1>4, <1>5, <1>6, <1>7, <1>8, <1>9, <1>10, <1>11, <1>12, <1>13, <1>14

LEMMA CloseFailsStep ==
  ASSUME IInv, CloseFails
  PROVE  IInv'
<1> USE DEF IInv, Types
<1>1. pc \in SealedPlaces /\ UNCHANGED files
  BY DEF CloseFails, At, SealedPlaces, Poisoning
<1>2. StaysSealed
  BY <1>1, SealKept DEF files
<1> USE <1>1, <1>2 DEF KeepsRecords, StaysSealed
<1>3. FileTypes' /\ ProcTypes' /\ OpTypes'
  BY DEF CloseFails, Fault, At, Go, files, procs, hist, FileTypes, ProcTypes, OpTypes, Pcs, OpRecord
<1>4. HistTypes' /\ CountTypes' /\ InsTypes'
  BY SecretStoreAssumption DEF CloseFails, Fault, At, Go, files, procs, hist, HistTypes, CountTypes,
     InsTypes, Inspections, SecretStoreAssumption
<1>5. PcOK'
  BY DEF CloseFails, Fault, At, Go, files, procs, hist, PcOK, Booting, Early, Late, Poisoning,
     Begun, Mutation, Changes
<1>6. TokensOK'
  BY DEF CloseFails, Fault, At, Go, files, procs, hist, TokensOK
<1>7. BootOK'
  BY DEF CloseFails, Fault, At, Go, files, procs, hist, BootOK, Booting
<1>8. RecordsOK'
  BY DEF CloseFails, Fault, At, Go, files, procs, hist, RecordsOK, Early, Late, Poisoning, Begun,
     Mutation
<1>9. CleanOK'
  BY DEF CloseFails, Fault, At, Go, files, procs, hist, CleanOK, Quiet, Poisoning
<1>10. GoodOK'
  BY DEF CloseFails, Fault, At, Go, files, procs, hist, GoodOK
<1>11. BodyOK'
  BY DEF CloseFails, Fault, At, Go, files, procs, hist, BodyOK, Early, Late, Poisoning, Begun,
     Mutation, Changes, Result, Good, PcOK, Booting
<1>12. AnswerOK'
  BY DEF CloseFails, Fault, At, Go, files, procs, hist, AnswerOK, Changes
<1>13. StuckOK'
  BY DEF CloseFails, Fault, At, Go, files, procs, hist, StuckOK, Keyless, Changes
<1>14. InspectionOK'
  BY DEF CloseFails, Fault, At, Go, files, procs, hist, InspectionOK, InspectionTruthful
<1> QED
  BY <1>3, <1>4, <1>5, <1>6, <1>7, <1>8, <1>9, <1>10, <1>11, <1>12, <1>13, <1>14

LEMMA BodyFailsTempStep ==
  ASSUME IInv, BodyFails, pc = "temp"
  PROVE  IInv'
<1> USE DEF IInv, Types
<1>1. /\ op'.kind = op.kind /\ op'.key = op.key /\ op'.val = op.val /\ op'.tok = op.tok
      /\ op'.prev = op.prev /\ op'.err = "failed" /\ pc' \in {"healthy", "poison"}
      /\ (pc' = "poison" => ~ clean') /\ (pc' # "poison" => clean' = clean)
      /\ UNCHANGED <<proc, fatal, loaded, req, holder, allowed, before, ops, ins>>
      /\ holder # NoProc /\ UNCHANGED <<cache, disk>>
  BY DEF BodyFails, Undone, Unproven, Go, procs, hist, files, OpTypes, OpRecord
<1>2. pc \in SealedPlaces
  BY DEF SealedPlaces
<1>3. StaysSealed
  BY <1>1, <1>2, SealKept
<1> USE <1>1, <1>2, <1>3 DEF KeepsRecords, StaysSealed
<1>4. FileTypes' /\ ProcTypes' /\ OpTypes'
  BY DEF BodyFails, Fault, SyncDirectory, WithSecret, Undone, Go, Unproven, files, procs, hist,
     FileTypes, ProcTypes, OpTypes, Pcs, OpRecord
<1>5. HistTypes'
  BY DEF BodyFails, Fault, SyncDirectory, WithSecret, Undone, Go, Unproven, files, procs, hist,
     HistTypes
<1>6. CountTypes'
  BY SecretStoreAssumption DEF BodyFails, Fault, SyncDirectory, WithSecret, Undone, Go, Unproven,
     files, procs, hist, CountTypes, SecretStoreAssumption
<1>7. InsTypes'
  BY DEF BodyFails, Fault, SyncDirectory, WithSecret, Undone, Go, Unproven, files, procs, hist,
     InsTypes, Inspections
<1>8. PcOK'
  BY DEF Changes, PcOK, Booting, Early, Late, Poisoning, Begun, Mutation
<1>9. TokensOK'
  BY DEF BodyFails, Fault, SyncDirectory, WithSecret, Undone, Go, Unproven, files, procs, hist,
     TokensOK
<1>10. BootOK'
  BY DEF BodyFails, Fault, SyncDirectory, WithSecret, Undone, Go, Unproven, files, procs, hist,
     BootOK, Booting
<1>11. RecordsOK'
  BY DEF BodyFails, Fault, SyncDirectory, WithSecret, Undone, Go, Unproven, files, procs, hist,
     RecordsOK, Early, Late, Poisoning, Begun, Mutation, OpTypes, Pcs, OpRecord, PcOK, Booting,
     Changes
<1>12. CleanOK'
  BY DEF CleanOK, Quiet, Poisoning
<1>13. GoodOK'
  BY DEF GoodOK
<1>14. BodyOK'
  BY DEF BodyOK, Early, Late, Poisoning, Begun, Mutation, Changes, Result, Good
<1>15. AnswerOK'
  BY DEF AnswerOK, Changes
<1>16. StuckOK'
  BY DEF StuckOK, Keyless, Changes
<1>17. InspectionOK'
  BY DEF InspectionOK, InspectionTruthful
<1> QED
  BY <1>4, <1>5, <1>6, <1>7, <1>8, <1>9, <1>10, <1>11, <1>12, <1>13, <1>14, <1>15, <1>16, <1>17

LEMMA BodyFailsPublishStep ==
  ASSUME IInv, BodyFails, pc = "publish"
  PROVE  IInv'
<1> USE DEF IInv, Types
<1>1. /\ op'.kind = op.kind /\ op'.key = op.key /\ op'.val = op.val /\ op'.tok = op.tok
      /\ op'.prev = op.prev /\ op'.err = "failed" /\ pc' \in {"healthy", "poison"}
      /\ (pc' = "poison" => ~ clean') /\ (pc' # "poison" => clean' = clean)
      /\ UNCHANGED <<proc, fatal, loaded, req, holder, allowed, before, ops, ins>>
      /\ holder # NoProc /\ UNCHANGED <<cache, disk>>
  BY DEF BodyFails, Undone, Unproven, Go, procs, hist, files, OpTypes, OpRecord
<1>2. pc \in SealedPlaces
  BY DEF SealedPlaces
<1>3. StaysSealed
  BY <1>1, <1>2, SealKept
<1> USE <1>1, <1>2, <1>3 DEF KeepsRecords, StaysSealed
<1>4. FileTypes' /\ ProcTypes' /\ OpTypes'
  BY DEF BodyFails, Fault, SyncDirectory, WithSecret, Undone, Go, Unproven, files, procs, hist,
     FileTypes, ProcTypes, OpTypes, Pcs, OpRecord
<1>5. HistTypes'
  BY DEF BodyFails, Fault, SyncDirectory, WithSecret, Undone, Go, Unproven, files, procs, hist,
     HistTypes
<1>6. CountTypes'
  BY SecretStoreAssumption DEF BodyFails, Fault, SyncDirectory, WithSecret, Undone, Go, Unproven,
     files, procs, hist, CountTypes, SecretStoreAssumption
<1>7. InsTypes'
  BY DEF BodyFails, Fault, SyncDirectory, WithSecret, Undone, Go, Unproven, files, procs, hist,
     InsTypes, Inspections
<1>8. PcOK'
  BY DEF Changes, PcOK, Booting, Early, Late, Poisoning, Begun, Mutation
<1>9. TokensOK'
  BY DEF BodyFails, Fault, SyncDirectory, WithSecret, Undone, Go, Unproven, files, procs, hist,
     TokensOK
<1>10. BootOK'
  BY DEF BodyFails, Fault, SyncDirectory, WithSecret, Undone, Go, Unproven, files, procs, hist,
     BootOK, Booting
<1>11. RecordsOK'
  BY DEF BodyFails, Fault, SyncDirectory, WithSecret, Undone, Go, Unproven, files, procs, hist,
     RecordsOK, Early, Late, Poisoning, Begun, Mutation, OpTypes, Pcs, OpRecord, PcOK, Booting,
     Changes
<1>12. CleanOK'
  BY DEF CleanOK, Quiet, Poisoning
<1>13. GoodOK'
  BY DEF GoodOK
<1>14. BodyOK'
  BY DEF BodyOK, Early, Late, Poisoning, Begun, Mutation, Changes, Result, Good
<1>15. AnswerOK'
  BY DEF AnswerOK, Changes
<1>16. StuckOK'
  BY DEF StuckOK, Keyless, Changes
<1>17. InspectionOK'
  BY DEF InspectionOK, InspectionTruthful
<1> QED
  BY <1>4, <1>5, <1>6, <1>7, <1>8, <1>9, <1>10, <1>11, <1>12, <1>13, <1>14, <1>15, <1>16, <1>17

LEMMA BodyFailsKeyStep ==
  ASSUME IInv, BodyFails, pc = "key"
  PROVE  IInv'
<1> USE DEF IInv, Types
<1>1. UNCHANGED disk /\ (cache' = cache \/ cache' = [cache EXCEPT !.mkey = op.tok]) /\ pc \in SealedPlaces
  BY DEF BodyFails, SealedPlaces, files
<1>2. /\ op'.kind = op.kind /\ op'.key = op.key /\ op'.val = op.val /\ op'.tok = op.tok
      /\ op'.prev = op.prev /\ op'.err = "failed" /\ pc' \in {"healthy", "poison"}
      /\ (pc' = "poison" => ~ clean') /\ (pc' # "poison" => clean' = clean)
      /\ UNCHANGED <<proc, fatal, loaded, req, holder, allowed, before, ops, ins>>
      /\ holder # NoProc /\ cache'.marker = cache.marker
      /\ (disk'.marker = disk.marker \/ disk'.marker = cache.marker)
      /\ (pc' = "healthy" => cache' = cache /\ disk' = disk)
  BY <1>1 DEF BodyFails, Undone, Unproven, Go, procs, hist, files, OpTypes, OpRecord, FileTypes, Files
<1>3. cache'.state = cache.state /\ cache'.guard = cache.guard /\ disk'.state = disk.state /\ disk'.guard = disk.guard
  BY <1>1 DEF FileTypes, Files
<1>4. KeepsRecords /\ StaysSealed
  BY <1>1, <1>3, RecordsKept, SealKept
<1> USE <1>1, <1>2, <1>3, <1>4 DEF KeepsRecords, StaysSealed
<1>5. FileTypes'
  BY DEF BodyFails, Fault, SyncDirectory, WithSecret, Undone, Go, Unproven, files, procs, hist,
     FileTypes, Files, OpTypes, Pcs, OpRecord, PcOK, Booting, Early, Late, Poisoning, Begun,
     Mutation, Changes
<1>6. ProcTypes'
  BY DEF BodyFails, Fault, SyncDirectory, WithSecret, Undone, Go, Unproven, files, procs, hist,
     ProcTypes
<1>7. OpTypes'
  BY DEF BodyFails, Fault, SyncDirectory, WithSecret, Undone, Go, Unproven, files, procs, hist,
     OpTypes, Pcs, OpRecord
<1>8. HistTypes'
  BY DEF BodyFails, Fault, SyncDirectory, WithSecret, Undone, Go, Unproven, files, procs, hist,
     HistTypes
<1>9. CountTypes'
  BY SecretStoreAssumption DEF BodyFails, Fault, SyncDirectory, WithSecret, Undone, Go, Unproven,
     files, procs, hist, CountTypes, SecretStoreAssumption
<1>10. InsTypes'
  BY DEF BodyFails, Fault, SyncDirectory, WithSecret, Undone, Go, Unproven, files, procs, hist,
     InsTypes, Inspections
<1>11. PcOK'
  BY DEF Changes, PcOK, Booting, Early, Late, Poisoning, Begun, Mutation
<1>12. TokensOK'
  BY DEF BodyFails, Fault, SyncDirectory, WithSecret, Undone, Go, Unproven, files, procs, hist,
     TokensOK, FileTypes, Files, TokensUpTo
<1>13. BootOK'
  BY DEF BodyFails, Fault, SyncDirectory, WithSecret, Undone, Go, Unproven, files, procs, hist,
     BootOK, Booting, FileTypes, Files, RecordsOK, Early, Late, Poisoning, Begun, Mutation, PcOK,
     Changes
<1>14. RecordsOK'
  BY DEF BodyFails, Fault, SyncDirectory, WithSecret, Undone, Go, Unproven, files, procs, hist,
     RecordsOK, Early, Late, Poisoning, Begun, Mutation, OpTypes, Pcs, OpRecord, PcOK, Booting,
     Changes
<1>15. CleanOK'
  BY DEF CleanOK, Quiet, Poisoning
<1>16. GoodOK'
  BY DEF GoodOK
<1>17. BodyOK'
  <2>1. op.kind = "init" /\ ~ Changes /\ ~ Changes'
    BY DEF PcOK, Changes
  <2>2. Good(disk, cache, before)
    BY DEF BodyOK, Early
  <2>3. \A k \in Keys : before[k] \subseteq allowed[k]
    BY DEF BodyOK, Begun, Early
  <2>4. pc' = "healthy" => Good(disk', cache', Result')
    BY <2>1, <2>2 DEF Good, Result
  <2> QED
    BY <2>1, <2>3, <2>4 DEF BodyOK, Begun, Mutation, Early, Late, Poisoning
<1>18. AnswerOK'
  BY DEF AnswerOK, Changes
<1>19. StuckOK'
  BY DEF StuckOK, Keyless, Changes
<1>20. InspectionOK'
  BY DEF InspectionOK, InspectionTruthful, Moved
<1> QED
  BY <1>5, <1>6, <1>7, <1>8, <1>9, <1>10, <1>11, <1>12, <1>13, <1>14, <1>15, <1>16, <1>17, <1>18, <1>19, <1>20

LEMMA BodyFailsValidateStep ==
  ASSUME IInv, BodyFails, pc = "validate"
  PROVE  IInv'
<1> USE DEF IInv, Types
<1>1. /\ cache' = cache \/ cache' = WithSecret(op.prev)
      /\ UNCHANGED disk \/ SyncDirectory(cache')
      /\ pc \in SealedPlaces
  BY DEF BodyFails, SealedPlaces
<1>2. /\ cache'.state = cache.state /\ cache'.guard = cache.guard /\ disk'.state = disk.state /\ disk'.guard = disk.guard
      /\ cache'.mkey = cache.mkey /\ cache'.marker = cache.marker
      /\ disk'.marker = disk.marker \/ disk'.marker = cache.marker
  BY <1>1 DEF WithSecret, SyncDirectory, FileTypes, Files
<1>3. pc' = "healthy" => /\ cache'.sec = [cache.sec EXCEPT ![op.key] = op.prev] /\ cache'.mkey = cache.mkey
                         /\ disk'.sec = cache'.sec /\ disk'.mkey = cache'.mkey
  <2>1. pc' = "healthy" => cache' = WithSecret(op.prev) /\ SyncDirectory(cache')
    BY DEF BodyFails, Unproven, Go
  <2> QED
    BY <2>1 DEF WithSecret, SyncDirectory, FileTypes, Files
<1>4. /\ op'.kind = op.kind /\ op'.key = op.key /\ op'.val = op.val /\ op'.tok = op.tok
      /\ op'.prev = op.prev /\ op'.err = "failed" /\ pc' \in {"healthy", "poison"}
      /\ (pc' = "poison" => ~ clean') /\ (pc' # "poison" => clean' = clean)
      /\ UNCHANGED <<proc, fatal, loaded, req, holder, allowed, before, ops, ins>>
      /\ holder # NoProc /\ cache'.marker = cache.marker
      /\ (disk'.marker = disk.marker \/ disk'.marker = cache.marker)
      /\ (pc' = "healthy" => cache'.sec = [cache.sec EXCEPT ![op.key] = op.prev]
           /\ cache'.mkey = cache.mkey /\ disk'.sec = cache'.sec /\ disk'.mkey = cache'.mkey)
  BY <1>2, <1>3 DEF BodyFails, Undone, Unproven, Go, procs, hist, OpTypes, OpRecord
<1>5. KeepsRecords /\ StaysSealed
  BY <1>1, <1>2, RecordsKept, SealKept
<1> USE <1>1, <1>2, <1>3, <1>4, <1>5 DEF KeepsRecords, StaysSealed
<1>6. FileTypes'
  <2>1. op.prev \in Secrets /\ op.key \in Keys
    BY DEF OpTypes, OpRecord, PcOK, Changes
  <2>2. cache' = cache \/ cache' = [cache EXCEPT !.sec = [cache.sec EXCEPT ![op.key] = op.prev]]
    BY DEF BodyFails, WithSecret
  <2>3. disk' = disk \/ disk' = [disk EXCEPT !.sec = cache'.sec, !.mkey = cache'.mkey, !.marker = cache'.marker]
    BY DEF BodyFails, SyncDirectory
  <2>4. cache' \in Files
    BY <2>1, <2>2 DEF FileTypes, Files
  <2> QED
    BY <2>3, <2>4 DEF FileTypes, Files
<1>7. ProcTypes'
  BY DEF BodyFails, Fault, SyncDirectory, WithSecret, Undone, Go, Unproven, files, procs, hist,
     ProcTypes
<1>8. OpTypes'
  BY DEF BodyFails, Fault, SyncDirectory, WithSecret, Undone, Go, Unproven, files, procs, hist,
     OpTypes, Pcs, OpRecord
<1>9. HistTypes'
  BY DEF BodyFails, Fault, SyncDirectory, WithSecret, Undone, Go, Unproven, files, procs, hist,
     HistTypes
<1>10. CountTypes'
  BY SecretStoreAssumption DEF BodyFails, Fault, SyncDirectory, WithSecret, Undone, Go, Unproven,
     files, procs, hist, CountTypes, SecretStoreAssumption
<1>11. InsTypes'
  BY DEF BodyFails, Fault, SyncDirectory, WithSecret, Undone, Go, Unproven, files, procs, hist,
     InsTypes, Inspections
<1>12. PcOK'
  BY DEF Changes, PcOK, Booting, Early, Late, Poisoning, Begun, Mutation
<1>13. TokensOK'
  BY DEF BodyFails, Fault, SyncDirectory, WithSecret, Undone, Go, Unproven, files, procs, hist,
     TokensOK, FileTypes, Files, TokensUpTo
<1>14. BootOK'
  BY DEF BodyFails, Fault, SyncDirectory, WithSecret, Undone, Go, Unproven, files, procs, hist,
     BootOK, Booting, FileTypes, Files, RecordsOK, Early, Late, Poisoning, Begun, Mutation, PcOK,
     Changes
<1>15. RecordsOK'
  BY DEF RecordsOK, Early, Late, Poisoning, Begun, Mutation
<1>16. CleanOK'
  BY DEF CleanOK, Quiet, Poisoning
<1>17. GoodOK'
  BY DEF GoodOK
<1>18. BodyOK'
  <2>1. op.kind = "put" /\ op.key \in Keys /\ Changes /\ Changes' /\ loaded[holder] # 0
    BY DEF PcOK, Changes, BodyOK, Mutation, Begun
  <2>2. /\ op.prev = disk.sec[op.key] /\ disk.mkey = cache.mkey
        /\ cache.sec = [disk.sec EXCEPT ![op.key] = [val |-> op.val, key |-> loaded[holder]]]
        /\ \A k \in Keys :
             /\ disk.sec[k].val \in before[k]
             /\ disk.sec[k].val # NoVal => disk.sec[k].key = disk.mkey
        /\ cache.mkey = loaded[holder] /\ disk.sec \in [Keys -> Secrets]
    BY DEF BodyOK, FileTypes, Files
  <2>3. pc' = "healthy" => cache'.sec = disk.sec /\ disk'.sec = disk.sec /\ cache'.mkey = disk.mkey /\ disk'.mkey = disk.mkey
    BY <2>1, <2>2
  <2>4. pc' = "healthy" => Good(disk', cache', Result')
    BY <2>1, <2>2, <2>3 DEF Good, Result
  <2>5. \A k \in Keys : before[k] \subseteq allowed[k] /\ (k = op.key => op.val \in allowed[k])
    BY <2>1 DEF BodyOK, Begun
  <2> QED
    BY <2>1, <2>4, <2>5 DEF BodyOK, Begun, Mutation, Early, Late, Poisoning
<1>19. AnswerOK'
  BY DEF AnswerOK, Changes
<1>20. StuckOK'
  BY DEF StuckOK, Keyless, Changes
<1>21. InspectionOK'
  BY DEF InspectionOK, InspectionTruthful, Moved
<1> QED
  BY <1>6, <1>7, <1>8, <1>9, <1>10, <1>11, <1>12, <1>13, <1>14, <1>15, <1>16, <1>17, <1>18, <1>19, <1>20, <1>21

LEMMA BodyFailsRetireStep ==
  ASSUME IInv, BodyFails, pc = "retire"
  PROVE  IInv'
<1> USE DEF IInv, Types
<1>1. /\ op'.kind = op.kind /\ op'.key = op.key /\ op'.val = op.val /\ op'.tok = op.tok
      /\ op'.prev = op.prev /\ op'.err = "failed" /\ pc' \in {"poison"}
      /\ (pc' = "poison" => ~ clean') /\ (pc' # "poison" => clean' = clean)
      /\ UNCHANGED <<proc, fatal, loaded, req, holder, allowed, before, ops, ins>>
      /\ holder # NoProc /\ UNCHANGED <<cache, disk>>
  BY DEF BodyFails, Undone, Unproven, Go, procs, hist, files, OpTypes, OpRecord
<1>2. pc \in SealedPlaces
  BY DEF SealedPlaces
<1>3. StaysSealed
  BY <1>1, <1>2, SealKept
<1> USE <1>1, <1>2, <1>3 DEF KeepsRecords, StaysSealed
<1>4. FileTypes' /\ ProcTypes' /\ OpTypes'
  BY DEF BodyFails, Fault, SyncDirectory, WithSecret, Undone, Go, Unproven, files, procs, hist,
     FileTypes, ProcTypes, OpTypes, Pcs, OpRecord
<1>5. HistTypes'
  BY DEF BodyFails, Fault, SyncDirectory, WithSecret, Undone, Go, Unproven, files, procs, hist,
     HistTypes
<1>6. CountTypes'
  BY SecretStoreAssumption DEF BodyFails, Fault, SyncDirectory, WithSecret, Undone, Go, Unproven,
     files, procs, hist, CountTypes, SecretStoreAssumption
<1>7. InsTypes'
  BY DEF BodyFails, Fault, SyncDirectory, WithSecret, Undone, Go, Unproven, files, procs, hist,
     InsTypes, Inspections
<1>8. PcOK'
  BY DEF Changes, PcOK, Booting, Early, Late, Poisoning, Begun, Mutation
<1>9. TokensOK'
  BY DEF BodyFails, Fault, SyncDirectory, WithSecret, Undone, Go, Unproven, files, procs, hist,
     TokensOK
<1>10. BootOK'
  BY DEF BodyFails, Fault, SyncDirectory, WithSecret, Undone, Go, Unproven, files, procs, hist,
     BootOK, Booting
<1>11. RecordsOK'
  BY DEF BodyFails, Fault, SyncDirectory, WithSecret, Undone, Go, Unproven, files, procs, hist,
     RecordsOK, Early, Late, Poisoning, Begun, Mutation, OpTypes, Pcs, OpRecord, PcOK, Booting,
     Changes
<1>12. CleanOK'
  BY DEF CleanOK, Quiet, Poisoning
<1>13. GoodOK'
  BY DEF GoodOK
<1>14. BodyOK'
  BY DEF BodyOK, Early, Late, Poisoning, Begun, Mutation, Changes, Result
<1>15. AnswerOK'
  BY DEF AnswerOK, Changes
<1>16. StuckOK'
  BY DEF StuckOK, Keyless, Changes
<1>17. InspectionOK'
  BY DEF InspectionOK, InspectionTruthful
<1> QED
  BY <1>4, <1>5, <1>6, <1>7, <1>8, <1>9, <1>10, <1>11, <1>12, <1>13, <1>14, <1>15, <1>16, <1>17

LEMMA BodyFailsRemoveStep ==
  ASSUME IInv, BodyFails, pc = "remove"
  PROVE  IInv'
<1> USE DEF IInv, Types
<1>1. /\ op'.kind = op.kind /\ op'.key = op.key /\ op'.val = op.val /\ op'.tok = op.tok
      /\ op'.prev = op.prev /\ op'.err = "failed" /\ pc' \in {"poison"}
      /\ (pc' = "poison" => ~ clean') /\ (pc' # "poison" => clean' = clean)
      /\ UNCHANGED <<proc, fatal, loaded, req, holder, allowed, before, ops, ins>>
      /\ holder # NoProc /\ cache'.marker = cache.marker
      /\ (disk'.marker = disk.marker \/ disk'.marker = cache.marker)
  BY DEF BodyFails, Undone, Unproven, Go, procs, hist, files, OpTypes, OpRecord, WithSecret, SyncDirectory, FileTypes, Files
<1>2. pc \in SealedPlaces /\ cache'.state = cache.state /\ cache'.guard = cache.guard /\ disk'.state = disk.state /\ disk'.guard = disk.guard
  BY DEF BodyFails, SealedPlaces, WithSecret, SyncDirectory, FileTypes, Files
<1>3. KeepsRecords /\ StaysSealed
  BY <1>2, RecordsKept, SealKept
<1> USE <1>1, <1>2, <1>3 DEF KeepsRecords, StaysSealed
<1>4. FileTypes'
  <2>1. NoSecret \in Secrets /\ op.key \in Keys
    BY DEF NoSecret, Secrets, PcOK, Changes
  <2>2. cache' = cache \/ cache' = [cache EXCEPT !.sec = [cache.sec EXCEPT ![op.key] = NoSecret]]
    BY DEF BodyFails, WithSecret
  <2>3. disk' = disk
    BY DEF BodyFails
  <2>5. cache.sec \in [Keys -> Secrets] /\ cache \in Files
    BY DEF FileTypes, Files
  <2>6. [cache.sec EXCEPT ![op.key] = NoSecret] \in [Keys -> Secrets]
    BY <2>1, <2>5
  <2>4. cache' \in Files
    BY <2>2, <2>5, <2>6 DEF Files
  <2> QED
    BY <2>3, <2>4 DEF FileTypes
<1>5. ProcTypes'
  BY DEF BodyFails, Fault, SyncDirectory, WithSecret, Undone, Go, Unproven, files, procs, hist,
     ProcTypes
<1>6. OpTypes'
  BY DEF BodyFails, Fault, SyncDirectory, WithSecret, Undone, Go, Unproven, files, procs, hist,
     OpTypes, Pcs, OpRecord
<1>7. HistTypes'
  BY DEF BodyFails, Fault, SyncDirectory, WithSecret, Undone, Go, Unproven, files, procs, hist,
     HistTypes
<1>8. CountTypes'
  BY SecretStoreAssumption DEF BodyFails, Fault, SyncDirectory, WithSecret, Undone, Go, Unproven,
     files, procs, hist, CountTypes, SecretStoreAssumption
<1>9. InsTypes'
  BY DEF BodyFails, Fault, SyncDirectory, WithSecret, Undone, Go, Unproven, files, procs, hist,
     InsTypes, Inspections
<1>10. PcOK'
  BY DEF Changes, PcOK, Booting, Early, Late, Poisoning, Begun, Mutation
<1>11. TokensOK'
  BY DEF BodyFails, Fault, SyncDirectory, WithSecret, Undone, Go, Unproven, files, procs, hist,
     TokensOK, FileTypes, Files, TokensUpTo
<1>12. BootOK'
  BY DEF BodyFails, Fault, SyncDirectory, WithSecret, Undone, Go, Unproven, files, procs, hist,
     BootOK, Booting, FileTypes, Files, RecordsOK, Early, Late, Poisoning, Begun, Mutation, PcOK,
     Changes
<1>13. RecordsOK'
  BY DEF BodyFails, Fault, SyncDirectory, WithSecret, Undone, Go, Unproven, files, procs, hist,
     RecordsOK, Early, Late, Poisoning, Begun, Mutation, OpTypes, Pcs, OpRecord, PcOK, Booting,
     Changes
<1>14. CleanOK'
  BY DEF CleanOK, Quiet, Poisoning
<1>15. GoodOK'
  BY DEF GoodOK
<1>16. BodyOK'
  BY DEF BodyOK, Early, Late, Poisoning, Begun, Mutation, Changes, Result
<1>17. AnswerOK'
  BY DEF AnswerOK, Changes
<1>18. StuckOK'
  BY DEF StuckOK, Keyless, Changes
<1>19. InspectionOK'
  BY DEF InspectionOK, InspectionTruthful, Moved
<1> QED
  BY <1>4, <1>5, <1>6, <1>7, <1>8, <1>9, <1>10, <1>11, <1>12, <1>13, <1>14, <1>15, <1>16, <1>17, <1>18, <1>19

-----------------------------------------------------------------------------
(* The recovery marker, the read-only inspection and a power loss *)

LEMMA WriteRecoveryMarkerStep ==
  ASSUME IInv, WriteRecoveryMarker
  PROVE  IInv'
<1> USE DEF IInv, Types
<1>2. pc \in SealedPlaces /\ cache'.state = cache.state /\ cache'.guard = cache.guard /\ disk'.state = disk.state /\ disk'.guard = disk.guard
  BY DEF WriteRecoveryMarker, At, SealedPlaces, Poisoning, WithSecret, SyncDirectory, FileTypes, Files
<1>3. KeepsRecords /\ StaysSealed
  BY <1>2, RecordsKept, SealKept
<1> USE <1>2, <1>3 DEF KeepsRecords, StaysSealed
<1>4. FileTypes' /\ ProcTypes' /\ OpTypes'
  BY DEF WriteRecoveryMarker, At, Go, BodyKeeps, procs, hist, SyncDirectory, FileTypes, Files,
     ProcTypes, OpTypes, Pcs, OpRecord
<1>5. HistTypes' /\ CountTypes' /\ InsTypes'
  BY DEF WriteRecoveryMarker, At, Go, BodyKeeps, procs, hist, SyncDirectory, HistTypes, CountTypes,
     InsTypes, Inspections
<1>6. PcOK'
  BY DEF WriteRecoveryMarker, At, Go, BodyKeeps, procs, hist, SyncDirectory, PcOK, Booting, Early,
     Late, Poisoning, Begun, Mutation, Changes
<1>7. TokensOK'
  BY DEF WriteRecoveryMarker, At, Go, BodyKeeps, procs, hist, SyncDirectory, TokensOK, FileTypes,
     Files, TokensUpTo
<1>8. BootOK'
  BY DEF WriteRecoveryMarker, At, Go, BodyKeeps, procs, hist, SyncDirectory, BootOK, Booting,
     FileTypes, Files, RecordsOK, Early, Late, Poisoning, Begun, Mutation, PcOK, Changes
<1>9. RecordsOK'
  BY DEF WriteRecoveryMarker, At, Go, BodyKeeps, procs, hist, SyncDirectory, RecordsOK, Early, Late,
     Poisoning, Begun, Mutation
<1>10. CleanOK'
  BY DEF WriteRecoveryMarker, At, Go, BodyKeeps, procs, hist, SyncDirectory, CleanOK, Quiet,
     Poisoning
<1>11. GoodOK'
  BY DEF WriteRecoveryMarker, At, Go, BodyKeeps, procs, hist, SyncDirectory, GoodOK
<1>12. BodyOK'
  BY DEF WriteRecoveryMarker, At, Go, BodyKeeps, procs, hist, SyncDirectory, BodyOK, Early, Late,
     Poisoning, Begun, Mutation, Changes, Result
<1>13. AnswerOK'
  BY DEF WriteRecoveryMarker, At, Go, BodyKeeps, procs, hist, SyncDirectory, AnswerOK, Changes
<1>14. StuckOK'
  BY DEF WriteRecoveryMarker, At, Go, BodyKeeps, procs, hist, SyncDirectory, StuckOK, Keyless,
     Changes
<1>15. InspectionOK'
  BY DEF WriteRecoveryMarker, At, Go, BodyKeeps, procs, hist, SyncDirectory, InspectionOK,
     InspectionTruthful, Moved
<1> QED
  BY <1>4, <1>5, <1>6, <1>7, <1>8, <1>9, <1>10, <1>11, <1>12, <1>13, <1>14, <1>15

LEMMA RecoveryMarkerFailsStep ==
  ASSUME IInv, RecoveryMarkerFails
  PROVE  IInv'
<1> USE DEF IInv, Types
<1>1. pc \in SealedPlaces /\ UNCHANGED files
  BY DEF RecoveryMarkerFails, At, SealedPlaces, Poisoning
<1>2. StaysSealed
  BY <1>1, SealKept DEF files
<1> USE <1>1, <1>2 DEF KeepsRecords, StaysSealed
<1>3. FileTypes' /\ ProcTypes' /\ OpTypes'
  BY DEF RecoveryMarkerFails, Fault, At, Go, files, procs, hist, FileTypes, ProcTypes, OpTypes, Pcs,
     OpRecord
<1>4. HistTypes' /\ CountTypes' /\ InsTypes'
  BY SecretStoreAssumption DEF RecoveryMarkerFails, Fault, At, Go, files, procs, hist, HistTypes,
     CountTypes, InsTypes, Inspections, SecretStoreAssumption
<1>5. PcOK'
  BY DEF RecoveryMarkerFails, Fault, At, Go, files, procs, hist, PcOK, Booting, Early, Late,
     Poisoning, Begun, Mutation, Changes
<1>6. TokensOK'
  BY DEF RecoveryMarkerFails, Fault, At, Go, files, procs, hist, TokensOK
<1>7. BootOK'
  BY DEF RecoveryMarkerFails, Fault, At, Go, files, procs, hist, BootOK, Booting
<1>8. RecordsOK'
  BY DEF RecoveryMarkerFails, Fault, At, Go, files, procs, hist, RecordsOK, Early, Late, Poisoning,
     Begun, Mutation
<1>9. CleanOK'
  BY DEF RecoveryMarkerFails, Fault, At, Go, files, procs, hist, CleanOK, Quiet, Poisoning
<1>10. GoodOK'
  BY DEF RecoveryMarkerFails, Fault, At, Go, files, procs, hist, GoodOK
<1>11. BodyOK'
  BY DEF RecoveryMarkerFails, Fault, At, Go, files, procs, hist, BodyOK, Early, Late, Poisoning,
     Begun, Mutation, Changes, Result
<1>12. AnswerOK'
  BY DEF RecoveryMarkerFails, Fault, At, Go, files, procs, hist, AnswerOK, Changes
<1>13. StuckOK'
  BY DEF RecoveryMarkerFails, Fault, At, Go, files, procs, hist, StuckOK, Keyless, Changes
<1>14. InspectionOK'
  BY DEF RecoveryMarkerFails, Fault, At, Go, files, procs, hist, InspectionOK, InspectionTruthful
<1> QED
  BY <1>3, <1>4, <1>5, <1>6, <1>7, <1>8, <1>9, <1>10, <1>11, <1>12, <1>13, <1>14

LEMMA InspectStateStep ==
  ASSUME IInv, InspectState
  PROVE  IInv'
<1> USE DEF IInv, Types
<1>1. FileTypes' /\ ProcTypes' /\ OpTypes'
  BY DEF InspectState, files, procs, hist, FileTypes, ProcTypes, OpTypes, Pcs, OpRecord
<1>2. HistTypes'
  BY DEF InspectState, files, procs, hist, HistTypes
<1>3. CountTypes'
  BY DEF InspectState, files, procs, hist, CountTypes
<1>4. InsTypes'
  <2>1. ins' = [pc |-> "guard", state |-> cache.state, guard |-> <<>>, seen |-> FALSE, healthy |-> FALSE]
    BY DEF InspectState, NoInspection
  <2> QED
    BY <2>1 DEF FileTypes, Files, InsTypes, Inspections
<1>5. PcOK'
  BY DEF InspectState, files, procs, hist, PcOK, Booting, Early, Late, Poisoning, Begun, Mutation,
     Changes
<1>6. TokensOK'
  BY DEF InspectState, files, procs, hist, TokensOK
<1>7. BootOK'
  BY DEF InspectState, files, procs, hist, BootOK, Booting
<1>8. RecordsOK'
  BY DEF InspectState, files, procs, hist, RecordsOK, Early, Late, Poisoning, Begun, Mutation
<1>9. CleanOK'
  BY DEF InspectState, files, procs, hist, CleanOK, Quiet, Poisoning
<1>10. GoodOK'
  BY DEF InspectState, files, procs, hist, GoodOK
<1>11. BodyOK'
  BY DEF InspectState, files, procs, hist, BodyOK, Early, Late, Poisoning, Begun, Mutation, Changes,
     Result
<1>12. AnswerOK'
  BY DEF InspectState, files, procs, hist, AnswerOK, Changes
<1>13. StuckOK'
  BY DEF InspectState, files, procs, hist, StuckOK, Keyless, Changes
<1>14. InspectionOK'
  <2>1. ins' = [pc |-> "guard", state |-> cache.state, guard |-> <<>>, seen |-> FALSE, healthy |-> FALSE] /\ cache' = cache /\ Len(cache.state) = 2
    BY DEF InspectState, NoInspection, files
  <2> QED
    BY <2>1 DEF InspectionOK, InspectionTruthful
<1> QED
  BY <1>1, <1>2, <1>3, <1>4, <1>5, <1>6, <1>7, <1>8, <1>9, <1>10, <1>11, <1>12, <1>13, <1>14

LEMMA InspectGuardStep ==
  ASSUME IInv, InspectGuard
  PROVE  IInv'
<1> USE DEF IInv, Types
<1>1. FileTypes' /\ ProcTypes' /\ OpTypes'
  BY DEF InspectGuard, files, procs, hist, FileTypes, ProcTypes, OpTypes, Pcs, OpRecord
<1>2. HistTypes'
  BY DEF InspectGuard, files, procs, hist, HistTypes
<1>3. CountTypes'
  BY DEF InspectGuard, files, procs, hist, CountTypes
<1>4. InsTypes'
  <2>1. ins' = [ins EXCEPT !.pc = "check", !.guard = cache.guard, !.seen = Readable(cache)]
    BY DEF InspectGuard
  <2>2. Readable(cache) \in BOOLEAN
    BY DEF Readable
  <2> QED
    BY <2>1, <2>2 DEF FileTypes, Files, InsTypes, Inspections
<1>5. PcOK'
  BY DEF InspectGuard, files, procs, hist, PcOK, Booting, Early, Late, Poisoning, Begun, Mutation,
     Changes
<1>6. TokensOK'
  BY DEF InspectGuard, files, procs, hist, TokensOK
<1>7. BootOK'
  BY DEF InspectGuard, files, procs, hist, BootOK, Booting
<1>8. RecordsOK'
  BY DEF InspectGuard, files, procs, hist, RecordsOK, Early, Late, Poisoning, Begun, Mutation
<1>9. CleanOK'
  BY DEF InspectGuard, files, procs, hist, CleanOK, Quiet, Poisoning
<1>10. GoodOK'
  BY DEF InspectGuard, files, procs, hist, GoodOK
<1>11. BodyOK'
  BY DEF InspectGuard, files, procs, hist, BodyOK, Early, Late, Poisoning, Begun, Mutation, Changes,
     Result
<1>12. AnswerOK'
  BY DEF InspectGuard, files, procs, hist, AnswerOK, Changes
<1>13. StuckOK'
  BY DEF InspectGuard, files, procs, hist, StuckOK, Keyless, Changes
<1>14. InspectionOK'
  <2>1. ins' = [ins EXCEPT !.pc = "check", !.guard = cache.guard, !.seen = Readable(cache)] /\ cache' = cache /\ ins.pc = "guard"
    BY DEF InspectGuard, files
  <2>2. /\ ins'.pc = "check" /\ ins'.state = ins.state /\ ins'.guard = cache.guard /\ ins'.seen = Readable(cache)
        /\ ins'.healthy = ins.healthy
    BY <2>1 DEF InsTypes, Inspections
  <2>3. Moved(cache, ins') <=> Moved(cache, ins)
    BY <2>2 DEF Moved, State
  <2>4. cache.state = ins.state => State(ins') = State(cache) /\ (GuardReleases(ins') <=> GuardReleases(cache))
    BY <2>2, SameRecords
  <2>5. Len(cache.state) = 2 /\ (cache.state = ins.state \/ Moved(cache, ins)) /\ ~ ins.healthy
    BY <2>1 DEF InspectionOK, InspectionTruthful
  <2>6. ~ Readable(cache) =>
          cache.marker \/ ~ StateSelectable(cache.state) \/ State(cache).st # "HEALTHY" \/ ~ GuardReleases(cache)
    BY DEF Readable
  <2>7. InspectionTruthful'
    BY <2>2, <2>5 DEF InspectionTruthful
  <2> QED
    BY <2>1, <2>2, <2>3, <2>4, <2>5, <2>6, <2>7 DEF InspectionOK
<1> QED
  BY <1>1, <1>2, <1>3, <1>4, <1>5, <1>6, <1>7, <1>8, <1>9, <1>10, <1>11, <1>12, <1>13, <1>14

LEMMA InspectReportStep ==
  ASSUME IInv, InspectReport
  PROVE  IInv'
<1> USE DEF IInv, Types
<1>1. FileTypes' /\ ProcTypes' /\ OpTypes'
  BY DEF InspectReport, Inspected, files, procs, hist, FileTypes, ProcTypes, OpTypes, Pcs, OpRecord
<1>2. HistTypes'
  BY DEF InspectReport, Inspected, files, procs, hist, HistTypes
<1>3. CountTypes'
  BY DEF InspectReport, Inspected, files, procs, hist, CountTypes
<1>4. InsTypes'
  <2>1. ins' = [pc |-> "idle", state |-> <<>>, guard |-> <<>>, seen |-> ins.seen /\ Inspected, healthy |-> Inspected]
    BY DEF InspectReport, NoInspection
  <2>2. Inspected \in BOOLEAN
    BY DEF Inspected
  <2> QED
    BY <2>1, <2>2 DEF FileTypes, Files, InsTypes, Inspections
<1>5. PcOK'
  BY DEF InspectReport, Inspected, files, procs, hist, PcOK, Booting, Early, Late, Poisoning, Begun,
     Mutation, Changes
<1>6. TokensOK'
  BY DEF InspectReport, Inspected, files, procs, hist, TokensOK
<1>7. BootOK'
  BY DEF InspectReport, Inspected, files, procs, hist, BootOK, Booting
<1>8. RecordsOK'
  BY DEF InspectReport, Inspected, files, procs, hist, RecordsOK, Early, Late, Poisoning, Begun,
     Mutation
<1>9. CleanOK'
  BY DEF InspectReport, Inspected, files, procs, hist, CleanOK, Quiet, Poisoning
<1>10. GoodOK'
  BY DEF InspectReport, Inspected, files, procs, hist, GoodOK
<1>11. BodyOK'
  BY DEF InspectReport, Inspected, files, procs, hist, BodyOK, Early, Late, Poisoning, Begun,
     Mutation, Changes, Result
<1>12. AnswerOK'
  BY DEF InspectReport, Inspected, files, procs, hist, AnswerOK, Changes
<1>13. StuckOK'
  BY DEF InspectReport, Inspected, files, procs, hist, StuckOK, Keyless, Changes
<1>14. InspectionOK'
  <2>1. ins' = [pc |-> "idle", state |-> <<>>, guard |-> <<>>, seen |-> ins.seen /\ Inspected, healthy |-> Inspected] /\ cache' = cache
    BY DEF InspectReport, NoInspection, files
  <2>2. Inspected => ins.seen
    <3> SUFFICES ASSUME Inspected, ~ ins.seen  PROVE FALSE
      OBVIOUS
    <3>1. cache.state = ins.state /\ cache.guard = ins.guard /\ ~ cache.marker
      BY DEF Inspected
    <3>2. [cache EXCEPT !.state = ins.state, !.guard = ins.guard] = cache
      BY <3>1 DEF FileTypes, Files
    <3>3. Readable(cache)
      BY <3>2 DEF Inspected
    <3>4. StateSelectable(ins.state) /\ State(ins).st = "HEALTHY" /\ GuardReleases(ins) /\ State(ins) = State(cache) /\ Consecutive(cache.state)
      BY <3>1, <3>3, SameRecords DEF Readable, StateSelectable
    <3>5. State(cache).seq \in Nat
      BY <3>4, Newest DEF FileTypes, StateSlots
    <3> QED
      BY <3>1, <3>4, <3>5 DEF InspectionOK, Moved, InspectReport
  <2> QED
    BY <2>1, <2>2 DEF InspectionOK, InspectionTruthful
<1> QED
  BY <1>1, <1>2, <1>3, <1>4, <1>5, <1>6, <1>7, <1>8, <1>9, <1>10, <1>11, <1>12, <1>13, <1>14

LEMMA PowerLossStep ==
  ASSUME IInv, PowerLoss
  PROVE  IInv'
<1> USE DEF IInv, Types
<1>1. /\ faults < MaxFaults /\ faults' = faults + 1 /\ cache' \in Files /\ disk' = cache'
      /\ TokensUpTo(ops, cache') /\ (Len(cache.state) = 2 <=> Len(cache'.state) = 2)
      /\ (Len(cache.guard) = 2 <=> Len(cache'.guard) = 2)
      /\ (disk.state = cache.state => cache'.state = cache.state)
      /\ (disk.guard = cache.guard => cache'.guard = cache.guard)
      /\ (\A k \in Keys : cache'.sec[k] \in {disk.sec[k], cache.sec[k]})
      /\ (disk.sec = cache.sec => cache'.sec = cache.sec) /\ cache'.mkey \in {disk.mkey, cache.mkey}
      /\ cache'.marker \in {disk.marker, cache.marker}
      /\ (MayServe(cache', cache') => MayServe(disk, cache))
      /\ (Readable(cache) /\ disk.state = cache.state /\ disk.guard = cache.guard /\ ~ disk.marker
           => Readable(cache'))
      /\ proc' = [p \in Procs |-> "down"] /\ fatal' = [p \in Procs |-> FALSE]
      /\ loaded' = [p \in Procs |-> 0] /\ req' = [p \in Procs |-> NoReq] /\ holder' = NoProc
      /\ pc' = "none" /\ op' = NoOp /\ clean' = (clean /\ holder = NoProc) /\ ins' = NoInspection
      /\ UNCHANGED <<hist, ops>>
  BY Loss
<1> USE <1>1
<1>2. FileTypes'
  BY SecretStoreAssumption, FirstSlots DEF hist, FileTypes, SecretStoreAssumption
<1>3. ProcTypes'
  BY SecretStoreAssumption, FirstSlots DEF hist, ProcTypes, SecretStoreAssumption
<1>4. OpTypes'
  BY SecretStoreAssumption, FirstSlots DEF hist, OpTypes, Pcs, OpRecord, ProcTypes, NoOp, Requests,
     NoReq, Secrets, NoSecret, SecretStoreAssumption
<1>5. HistTypes' /\ CountTypes' /\ InsTypes'
  BY SecretStoreAssumption, FirstSlots DEF PowerLoss, Fault, Abandon, hist, HistTypes, CountTypes,
     InsTypes, Inspections, NoInspection, SecretStoreAssumption
<1>6. PcOK'
  BY DEF hist, PcOK, Booting, Early, Late, Poisoning, Begun, Mutation, Changes, NoOp, ProcTypes,
     Requests, NoReq, CountTypes
<1>7. TokensOK'
  BY DEF hist, TokensOK
<1>8. BootOK'
  BY DEF hist, BootOK, Booting
<1>9. RecordsOK'
  BY DEF hist, RecordsOK, Early, Late, Poisoning, Begun, Mutation
<1>10. CleanOK'
  BY DEF hist, CleanOK, Quiet, Poisoning, RecordsOK, Early, Late, Begun, Mutation, PcOK, Booting,
     Changes
<1>11. GoodOK'
  BY DEF hist, GoodOK, Good
<1>12. BodyOK'
  BY DEF hist, BodyOK, Early, Late, Poisoning, Begun, Mutation, Changes, Result
<1>13. AnswerOK'
  BY DEF hist, AnswerOK, Changes
<1>14. StuckOK'
  BY SecretStoreAssumption DEF hist, StuckOK, Keyless, Changes, SecretStoreAssumption
<1>15. InspectionOK'
  BY DEF hist, InspectionOK, InspectionTruthful, NoInspection
<1> QED
  BY <1>2, <1>3, <1>4, <1>5, <1>6, <1>7, <1>8, <1>9, <1>10, <1>11, <1>12, <1>13, <1>14, <1>15

-----------------------------------------------------------------------------
(* The invariant *)

LEMMA InitOK ==
  ASSUME SecretInit
  PROVE  IInv
<1>1. /\ NoFiles \in Files /\ NoFiles.state = <<>> /\ NoFiles.guard = <<>> /\ ~ NoFiles.marker
      /\ NoFiles.mkey = 0 /\ \A k \in Keys : NoFiles.sec[k].val = NoVal
  BY DEF NoFiles, Files, NoSecret, Secrets
<1>2. NoReq \notin Requests /\ NoOp.kind = "none" /\ NoOp.tok = 0 /\ NoOp.err = "none" /\ NoOp \in OpRecord
  BY DEF NoReq, Requests, NoOp, OpRecord, NoSecret, Secrets
<1>3. ~ Readable(cache) /\ ~ Readable(disk) /\ Len(cache.state) = 0 /\ Len(cache.guard) = 0
  BY <1>1 DEF SecretInit, Readable, StateSelectable, Consecutive
<1>4. FileTypes /\ OpTypes /\ HistTypes /\ CountTypes
  BY <1>1, <1>2, SecretStoreAssumption DEF SecretInit, FileTypes, OpTypes, HistTypes, CountTypes, Pcs
<1>5. ProcTypes
  BY SecretStoreAssumption DEF SecretInit, ProcTypes
<1>6. InsTypes /\ InspectionOK
  BY DEF SecretInit, InsTypes, Inspections, NoInspection, InspectionOK, InspectionTruthful
<1>7. PcOK
  BY <1>2, <1>4 DEF SecretInit, PcOK, CountTypes, Changes, Booting, Begun, Early, Late, Poisoning, Mutation
<1>8. TokensOK
  BY <1>1 DEF SecretInit, TokensOK, TokensUpTo
<1>9. BootOK
  BY <1>1, <1>3 DEF SecretInit, BootOK, Booting
<1>10. RecordsOK /\ CleanOK
  BY <1>1, <1>3 DEF SecretInit, RecordsOK, CleanOK, Early, Late, Poisoning, Begun, Mutation, Quiet
<1>11. GoodOK
  BY <1>1 DEF SecretInit, GoodOK, Good
<1>12. BodyOK /\ AnswerOK
  BY <1>2 DEF SecretInit, BodyOK, AnswerOK, Changes, Early, Late, Poisoning, Begun, Mutation
<1>13. StuckOK
  BY SecretStoreAssumption DEF SecretInit, StuckOK, Keyless
<1> QED
  BY <1>4, <1>5, <1>6, <1>7, <1>8, <1>9, <1>10, <1>11, <1>12, <1>13 DEF IInv, Types

LEMMA Stutter ==
  ASSUME IInv, UNCHANGED vars
  PROVE  IInv'
<1>1. Types'
  BY DEF IInv, Types, vars, FileTypes, ProcTypes, OpTypes, HistTypes, CountTypes, InsTypes
<1>2. PcOK' /\ TokensOK' /\ BootOK'
  BY DEF IInv, vars, PcOK, Changes, TokensOK, BootOK
<1>3. RecordsOK' /\ CleanOK' /\ GoodOK'
  BY DEF IInv, vars, RecordsOK, CleanOK, GoodOK
<1>4. BodyOK'
  BY DEF IInv, vars, BodyOK, Result, Changes
<1>5. AnswerOK' /\ StuckOK' /\ InspectionOK'
  BY DEF IInv, vars, AnswerOK, Changes, StuckOK, Keyless, InspectionOK, InspectionTruthful
<1> QED
  BY <1>1, <1>2, <1>3, <1>4, <1>5 DEF IInv

\* Every step of a process, of the holder of the lock, of the environment and of the inspection
\* keeps the invariant.
LEMMA NextStep ==
  ASSUME IInv, [Next]_vars
  PROVE  IInv'
<1>1. ASSUME NEW p \in Procs, Start(p) \/ Acquire(p) \/ LockTimesOut(p) \/ Crash(p)
      PROVE  IInv'
  <2>1. Acquire(p) => proc[p] = "opening" \/ proc[p] = "waiting"
    BY DEF Acquire
  <2> QED
    BY <1>1, <2>1, StartStep, AcquireOpeningStep, AcquireWaitingStep, LockTimesOutStep, CrashHolderStep, CrashOtherStep
<1>2. ASSUME NEW p \in Procs, NEW r \in Requests, Call(p, r)
      PROVE  IInv'
  BY <1>2, CallStep
<1>3. ASSUME Boot \/ BootState \/ BootGuardFile \/ BootGuard \/ Ready \/ BootFails
      PROVE  IInv'
  BY <1>3, BootStep, BootStateStep, BootGuardFileStep, BootGuardStep, ReadyStep, BootFailsStep
<1>4. ASSUME Write \/ WriteFails
      PROVE  IInv'
  <2>1. pc \in {"mutating", "finalizing", "healthy", "idle", "poison"}
    BY <1>4 DEF Write, WriteFails, Writes
  <2>2. CASE Write
    BY <2>1, <2>2, WriteMutatingStep, WriteFinalizingStep, WriteHealthyStep, WriteIdleStep, WritePoisonStep
  <2>3. CASE WriteFails
    BY <2>1, <2>3, WriteFailsMutatingStep, WriteFailsFinalizingStep, WriteFailsHealthyStep, WriteFailsIdleStep,
       WriteFailsPoisonStep
  <2> QED
    BY <1>4, <2>2, <2>3
<1>5. ASSUME Sync \/ SyncFails
      PROVE  IInv'
  <2>1. pc \in {"mutating_sync", "finalizing_sync", "healthy_sync", "idle_sync", "poison_sync"}
    BY <1>5 DEF Sync, SyncFails, Syncs
  <2>2. CASE Sync
    BY <2>1, <2>2, SyncMutatingStep, SyncFinalizingStep, SyncHealthyStep, SyncIdleStep, SyncPoisonStep
  <2>3. CASE SyncFails
    BY <2>1, <2>3, SyncFailsMutatingStep, SyncFailsFinalizingStep, SyncFailsHealthyStep, SyncFailsIdleStep,
       SyncFailsPoisonStep
  <2> QED
    BY <1>5, <2>2, <2>3
<1>6. ASSUME Committed \/ ReadBackFails
      PROVE  IInv'
  BY <1>6, CommittedStep, ReadBackFailsStep
<1>7. ASSUME CreateKey \/ CreateTemporary \/ Publish \/ Validate \/ RetirePrevious \/ Remove \/ Close \/ CloseFails
      PROVE  IInv'
  BY <1>7, CreateKeyStep, CreateTemporaryStep, PublishStep, ValidateStep, RetirePreviousStep, RemoveStep, CloseStep,
     CloseFailsStep
<1>8. ASSUME BodyFails
      PROVE  IInv'
  <2>1. pc \in {"temp", "publish", "key", "validate", "retire", "remove"}
    BY <1>8 DEF BodyFails
  <2> QED
    BY <1>8, <2>1, BodyFailsTempStep, BodyFailsPublishStep, BodyFailsKeyStep, BodyFailsValidateStep, BodyFailsRetireStep,
       BodyFailsRemoveStep
<1>9. ASSUME WriteRecoveryMarker \/ RecoveryMarkerFails
      PROVE  IInv'
  BY <1>9, WriteRecoveryMarkerStep, RecoveryMarkerFailsStep
<1>10. ASSUME Unlock \/ UnlockFails
       PROVE  IInv'
  <2>1. CASE Unlock
    <3>1. faults' \in 0..MaxFaults
      BY <2>1 DEF Unlock, IInv, Types, CountTypes
    <3> QED
      BY <2>1, <3>1, UnlockStep DEF Unlock
  <2>2. CASE UnlockFails
    <3>1. faults' \in 0..MaxFaults
      BY <2>2, SecretStoreAssumption DEF UnlockFails, Fault, IInv, Types, CountTypes
    <3> QED
      BY <2>2, <3>1, UnlockStep DEF UnlockFails
  <2> QED
    BY <1>10, <2>1, <2>2
<1>11. ASSUME PowerLoss
       PROVE  IInv'
  BY <1>11, PowerLossStep
<1>12. ASSUME InspectState \/ InspectGuard \/ InspectReport
       PROVE  IInv'
  BY <1>12, InspectStateStep, InspectGuardStep, InspectReportStep
<1>13. CASE UNCHANGED vars
  BY <1>13, Stutter
<1>14. CASE Next
  BY <1>1, <1>2, <1>3, <1>4, <1>5, <1>6, <1>7, <1>8, <1>9, <1>10, <1>11, <1>12, <1>14 DEF Next, HolderStep, Failures
<1> QED
  BY <1>13, <1>14

-----------------------------------------------------------------------------
(* The theorems *)

\* The inductive invariant holds of the secret store, whatever its processes do, are killed at,
\* lose to a power failure or fail at.
THEOREM SecretStoreInvariance == Spec => []IInv
<1>1. SecretInit => IInv
  BY InitOK
<1>2. IInv /\ [Next]_vars => IInv'
  BY NextStep
<1> QED
  BY <1>1, <1>2, PTL DEF Spec

\* A store that serves, from the page cache or from the disk, holds what its callers expect.
LEMMA ServedIsGood ==
  ASSUME IInv
  PROVE  Readable(cache) \/ Readable(disk) => Good(disk, cache, allowed)
BY ReadableMayServe DEF IInv, Types, BootOK, GoodOK

\* get() returns only what its callers were told (_raise_if_poisoned lets a reader in only when both
\* records are over), it can decrypt it, and the read-only inspection calls a store healthy only if
\* it did serve.
THEOREM AnswersTheorem == Spec => []AnswersTruthful
<1>1. IInv => AnswersTruthful
  <2> SUFFICES ASSUME IInv
               PROVE  AnswersTruthful
    OBVIOUS
  <2>1. TypeOK
    BY DEF IInv, Types, TypeOK, FileTypes, ProcTypes, OpTypes, HistTypes, CountTypes
  <2>2. ServedIsExpected
    BY ServedIsGood DEF ServedIsExpected, Good
  <2>3. ServedDecrypts
    BY ServedIsGood DEF ServedDecrypts, Decrypts, Good
  <2> QED
    BY <2>1, <2>2, <2>3 DEF AnswersTruthful, IInv, InspectionOK
<1> QED
  BY <1>1, SecretStoreInvariance, PTL

\* What a power loss would leave on disk, if it serves, is what the callers were told: the secret is
\* synced before the state record says HEALTHY and the guard says IDLE.
THEOREM DurableTheorem == Spec => []DurableIsExpected
<1>1. IInv => DurableIsExpected
  BY ServedIsGood DEF DurableIsExpected, Good
<1> QED
  BY <1>1, SecretStoreInvariance, PTL

\* A store in which no mutation was cut short serves once the lock is free, now and after a power
\* loss: no handled failure leaves one of the two records behind.
THEOREM ServesTheorem == Spec => []ServesUnlessInterrupted
<1>1. IInv => ServesUnlessInterrupted
  <2> SUFFICES ASSUME IInv, clean, holder = NoProc, ops > 0
               PROVE  Readable(cache) /\ Readable(disk)
    BY DEF ServesUnlessInterrupted
  <2>1. pc = "none" /\ ops # 0
    BY DEF IInv, Types, PcOK, CountTypes
  <2>2. Len(cache.guard) = 2
    BY <2>1 DEF IInv, BootOK
  <2>3. /\ Readable(cache) /\ cache.state = disk.state /\ cache.guard = disk.guard
        /\ ~ cache.marker /\ ~ disk.marker
    BY <2>1, <2>2 DEF IInv, CleanOK, Quiet
  <2> QED
    BY <2>3, SameRecords DEF Readable
<1> QED
  BY <1>1, SecretStoreInvariance, PTL
=============================================================================
