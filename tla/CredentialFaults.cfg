\* Two rotations of an enrolled agent under crashes, timeouts and late requests.
\* A purged agent waits for an operator: the system may stop there.
CONSTANTS
  EnrollToken = e1
  RecoverTokens = {}
  MaxKeys = 2
  MaxInstalls = 1
  MaxAdmin = 0
  MaxFaults = 5
  Lapses = FALSE
SPECIFICATION FairSpec
CHECK_DEADLOCK FALSE
INVARIANTS CredentialKept OneCredentialPerRequest
PROPERTY RotationEnds
