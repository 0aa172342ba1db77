SPECIFICATION Spec
CONSTANT MaxFaults = 2
CHECK_DEADLOCK FALSE
INVARIANTS ContainedBeforeExec CleanAtEnd
PROPERTY CommandEnds
