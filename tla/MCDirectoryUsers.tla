-------------------------- MODULE MCDirectoryUsers --------------------------
(***************************************************************************)
(* Model checking of DirectoryUsers.  Two users and two groups are enough  *)
(* for a number to be given twice and for a group to be deleted while      *)
(* another one stays.  One method at a time, as its properties need: with  *)
(* two workers and no fault numbers collide.                               *)
(***************************************************************************)
EXTENDS DirectoryUsers
=============================================================================
