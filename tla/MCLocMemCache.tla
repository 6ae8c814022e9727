---------------------------- MODULE MCLocMemCache ----------------------------
(***************************************************************************)
(* Model checking of LocMemCache, and of RWLock as the cache uses it.      *)
(***************************************************************************)
EXTENDS LocMemCache

CONSTANTS t1, t2, t3

Three == {t1, t2, t3}
Roles == [t \in Threads |-> CASE t = t1 -> {"get", "incr"}
                              [] t = t2 -> {"has_key", "_cached"}
                              [] t = t3 -> {"set", "add", "delete"}]
=============================================================================
