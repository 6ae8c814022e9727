CONSTANTS s1 = s1 s2 = s2 u1 = u1 u2 = u2
  Sessions <- TwoSessions
  Users <- OneUser
  MaxRequests = 3
  Multithreading = FALSE
  Timeouts = TRUE
  Faults <- NoFaults
SPECIFICATION Spec
INVARIANTS ReloadExpiresLoggedIn
CHECK_DEADLOCK FALSE
