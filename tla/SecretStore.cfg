SPECIFICATION Spec
CONSTANTS
  p1 = p1
  p2 = p2
  k1 = k1
  v1 = v1
  v2 = v2
  Procs = {p1, p2}
  Keys = {k1}
  Values = {v1, v2}
  MaxOps = 3
  MaxFaults = 2
SYMMETRY MCSymmetry
CHECK_DEADLOCK FALSE
INVARIANTS AnswersTruthful DurableIsExpected ServesUnlessInterrupted
