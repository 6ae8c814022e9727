---------------------------- MODULE MCAgentDaemon ----------------------------
(***************************************************************************)
(* Model checking of AgentDaemon with commands that overlap and faults     *)
(* that MCAgentStart leaves out.  Two attempts are what the hazards need:  *)
(* a daemon and the one that comes after or beside it.                     *)
(***************************************************************************)
EXTENDS AgentDaemon

Raising == {"raise"}

Everything == AllCommands
RunOnly == {"run"}
=============================================================================
