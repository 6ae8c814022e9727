CONSTANTS s1 = s1 s2 = s2 u1 = u1 u2 = u2
  Sessions <- TwoSessions
  Users <- TwoUsers
  MaxRequests = 2
  Multithreading = TRUE
  Timeouts = TRUE
  Faults <- AllFaults
SPECIFICATION FairSpec
INVARIANTS LoggedInHasItsContexts AuditNamesCaller
 
CHECK_DEADLOCK FALSE
