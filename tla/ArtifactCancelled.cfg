SPECIFICATION FairSpec
CONSTANTS
  a1 = a1
  Artifacts = {a1}
  Authorities = {FALSE}
  MaxObjects = 2
  MaxOps = 0
  MaxEntries = 10
  MaxFaults = 1
PROPERTY StartReconciles
