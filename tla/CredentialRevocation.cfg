\* Revocations and a recovery on another installation meet a rotation.
\* A purged agent waits for an operator: the system may stop there.
CONSTANTS
  EnrollToken = e1
  RecoverTokens = {r1}
  MaxKeys = 1
  MaxInstalls = 2
  MaxAdmin = 1
  MaxFaults = 2
  Lapses = TRUE
SPECIFICATION Spec
CHECK_DEADLOCK FALSE
INVARIANTS OneActiveOnePending RevokedKeepsNothing
PROPERTY RevokedForCause
