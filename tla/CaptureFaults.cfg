SPECIFICATION FairSpec
CONSTANTS
  k1 = k1
  k2 = k2
  uuid1 = uuid1
  uuid2 = uuid2
  Keys = {k1, k2}
  Profiles <- MCProfiles
  Homes <- MCHomes
  Radio <- MCRadio
  MaxFaults = 2
CHECK_DEADLOCK FALSE
INVARIANTS InterfaceJournaled EvidenceKept
PROPERTIES MarkerAdvances CaptureSettles
