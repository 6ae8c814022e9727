--------------------------- MODULE MCAgentSessions ---------------------------
(***************************************************************************)
(* Model checking of AgentSessions.  Two sessions and two users: a session *)
(* that changes hands, and one that a reload finds beside its own.  Three  *)
(* requests are a login, a second one around or after it, and a reload.    *)
(***************************************************************************)
EXTENDS AgentSessions

CONSTANTS s1, s2, u1, u2

TwoSessions == {s1, s2}
TwoUsers == {u1, u2}
OneSession == {s1}
OneUser == {u1}

NoFaults == {}
Handled == {"context", "conf"}   \* faults the code foresees
AuthFails == {"auth"}
=============================================================================
