---------------------------- MODULE EffectLedger ----------------------------
(***************************************************************************)
(* What the desktop agent promises for each idempotency key, with no task  *)
(* ids, tables, coroutines or crashes: a key is accepted once, refused or  *)
(* claimed once, its effect runs at most once and only after the claim, at *)
(* most one verdict is ever given, and only that verdict is delivered,     *)
(* any number of times.  TaskExecution is shown to implement this.         *)
(***************************************************************************)
CONSTANTS Keys, Verdicts, NoVerdict

VARIABLES
  status,     \* status[k]: "free", "accepted", "claimed" or "closed"
  ran,        \* the keys whose effect was started
  verdict,    \* verdict[k]: the reported outcome, or NoVerdict
  delivered   \* delivered[k]: the verdicts the server has seen

ledger == <<status, ran, verdict, delivered>>

Init ==
  /\ status = [k \in Keys |-> "free"]
  /\ ran = {}
  /\ verdict = [k \in Keys |-> NoVerdict]
  /\ delivered = [k \in Keys |-> {}]

Accept(k) ==
  /\ status[k] = "free"
  /\ status' = [status EXCEPT ![k] = "accepted"]
  /\ UNCHANGED <<ran, verdict, delivered>>

\* Keys are closed without their effect being claimed (expired, blocked,
\* rejected, corrupt), several at a time when a batch is inspected.
Refuse(K) ==
  /\ \A k \in K : status[k] = "accepted"
  /\ status' = [k \in Keys |-> IF k \in K THEN "closed" ELSE status[k]]
  /\ UNCHANGED <<ran, verdict, delivered>>

Claim(k) ==
  /\ status[k] = "accepted"
  /\ status' = [status EXCEPT ![k] = "claimed"]
  /\ UNCHANGED <<ran, verdict, delivered>>

Run(k) ==
  /\ status[k] = "claimed"
  /\ k \notin ran
  /\ ran' = ran \union {k}
  /\ UNCHANGED <<status, verdict, delivered>>

\* A verdict is given only for an effect that ran.
Report(k, v) ==
  /\ status[k] = "claimed"
  /\ k \in ran
  /\ status' = [status EXCEPT ![k] = "closed"]
  /\ verdict' = [verdict EXCEPT ![k] = v]
  /\ UNCHANGED <<ran, delivered>>

\* A restart closes every claimed key, run or not, with no verdict.
Abandon(K) ==
  /\ \A k \in K : status[k] = "claimed"
  /\ status' = [k \in Keys |-> IF k \in K THEN "closed" ELSE status[k]]
  /\ UNCHANGED <<ran, verdict, delivered>>

Deliver(k) ==
  /\ verdict[k] # NoVerdict
  /\ delivered' = [delivered EXCEPT ![k] = {verdict[k]}]
  /\ UNCHANGED <<status, ran, verdict>>

Next ==
  \/ \E k \in Keys : Accept(k) \/ Claim(k) \/ Run(k) \/ Deliver(k)
  \/ \E k \in Keys, v \in Verdicts : Report(k, v)
  \/ \E K \in SUBSET Keys : Refuse(K) \/ Abandon(K)

Spec == Init /\ [][Next]_ledger
=============================================================================
