CONSTANTS N = 1 MaxScripts = 0 Serial = TRUE
  Faults <- Raising
  Commands <- RunOnly
SPECIFICATION FairSpec
PROPERTY FatherIsReleased
CHECK_DEADLOCK FALSE
