-------------------------- MODULE MCTaskExecution --------------------------
(* Instances of TaskExecution for TLC. *)
EXTENDS TaskExecution

CONSTANTS t1, t2, k1, k2, ea, eb

Envelope(t, k, e, kind, v) ==
  [task_id |-> t, idempotency_key |-> k, effect |-> e, kind |-> kind, variant |-> v]

\* t1 may be redelivered with another payload; t2 is a duplicate of t1, a
\* conflicting use of its key, or independent; the independent task may name
\* an unknown plugin or bad parameters.
MCEnvelopes ==
  {Envelope(t1, k1, ea, "ok", 0), Envelope(t1, k1, ea, "ok", 1),
   Envelope(t2, k1, ea, "ok", 0), Envelope(t2, k1, eb, "ok", 0),
   Envelope(t2, k2, eb, "ok", 0),
   Envelope(t2, k2, ea, "unknown_plugin", 0),
   Envelope(t2, k2, ea, "invalid_parameters", 0)}

\* Two independent tasks.
MCPair == {Envelope(t1, k1, ea, "ok", 0), Envelope(t2, k2, eb, "ok", 0)}
=============================================================================
