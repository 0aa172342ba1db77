SPECIFICATION FairSpec
CONSTANTS
  a1 = a1
  Artifacts = {a1}
  Authorities = {TRUE, FALSE}
  MaxObjects = 2
  MaxOps = 1
  MaxEntries = 2
  MaxFaults = 1
INVARIANTS RowsAndFilesAgree AnswersHold
PROPERTIES StageReturns StartRecovers
