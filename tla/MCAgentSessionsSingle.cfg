CONSTANTS s1 = s1 s2 = s2 u1 = u1 u2 = u2
  Sessions <- TwoSessions
  Users <- TwoUsers
  MaxRequests = 3
  Multithreading = FALSE
  Timeouts = FALSE
  Faults <- Handled
SPECIFICATION Spec
INVARIANTS LoggedInWasAuthenticated TracksLoggedIn
  ReloadExpiresLoggedIn
CHECK_DEADLOCK FALSE
