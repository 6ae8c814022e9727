CONSTANTS N = 2 MaxScripts = 2 Serial = FALSE
  Faults <- AllFaults
  Commands <- Everything
SPECIFICATION Spec
INVARIANTS FatherLearnsOutcome
CHECK_DEADLOCK FALSE
