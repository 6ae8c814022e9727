CONSTANTS s1 = s1 s2 = s2 u1 = u1 u2 = u2
  Sessions <- OneSession
  Users <- OneUser
  MaxRequests = 1
  Multithreading = FALSE
  Timeouts = FALSE
  Faults <- AuthFails
SPECIFICATION Spec
INVARIANTS LoggedInWasAuthenticated
CHECK_DEADLOCK FALSE
