SPECIFICATION FairSpec
CONSTANTS
  t1 = t1
  t2 = t2
  k1 = k1
  k2 = k2
  ea = ea
  eb = eb
  Keys = {k1, k2}
  Effects = {ea, eb}
  NoTask = NoTask
  NoEnvelope = NoEnvelope
  NoEffect = NoEffect
  Tasks = {t1, t2}
  Envelopes <- MCPair
  Uploaders = {t1}
  Corruptible = {}
  Expirable = {}
  MaxConcurrency = 1
  MaxProgress = 1
  MaxStops = 1
  Cancellation = TRUE
INVARIANTS SchedulerInOrder
PROPERTIES AcceptedSettles ResultsDelivered
