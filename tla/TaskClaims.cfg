SPECIFICATION Spec
CONSTANTS
  t1 = t1
  t2 = t2
  k1 = k1
  k2 = k2
  ea = ea
  eb = eb
  Keys = {k1, k2}
  Effects = {ea, eb}
  NoTask = NoTask
  NoEnvelope = NoEnvelope
  NoEffect = NoEffect
  Tasks = {t1, t2}
  Envelopes <- MCEnvelopes
  Uploaders = {}
  Corruptible = {t2}
  Expirable = {t1, t2}
  MaxConcurrency = 2
  MaxProgress = 0
  MaxStops = 2
  Cancellation = TRUE
INVARIANTS TypeOK OneClaimPerKey AtMostOneInvocation RunsAccounted
PROPERTIES ClaimNeverRequeued ImplementsLedger
