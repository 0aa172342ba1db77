\* The agent crashes, times out, is upgraded and recovered, in both configurations
\* of the runtime.  A crash in the last boot leaves nothing to do.
CONSTANTS
  Schedulers = {TRUE, FALSE}
  MaxBoots = 3
  MaxManifests = 4
  MaxBeats = 3
  MaxChanges = 2
  MaxFaults = 2
  MaxRecoveries = 1
  Ages = TRUE
SPECIFICATION FairSpec
CHECK_DEADLOCK FALSE
INVARIANTS SequencesAgree
PROPERTIES PendingBeatResolves ManifestConverges
