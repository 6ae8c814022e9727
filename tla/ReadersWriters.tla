--------------------------- MODULE ReadersWriters ---------------------------
(***************************************************************************)
(* What a reader-writer lock promises, and nothing of how: any number of   *)
(* threads may read together, a writer is alone.  The methods of RWLock    *)
(* (agent/mmc/support/cache.py) are shown to implement this in RWLock.tla. *)
(***************************************************************************)
CONSTANT Threads

VARIABLE mode   \* mode[t]: what thread t may do to the protected data now

Modes == {"out", "read", "write"}

Init == mode = [t \in Threads |-> "out"]

StartRead(t) ==
    /\ mode[t] = "out"
    /\ \A u \in Threads : mode[u] # "write"
    /\ mode' = [mode EXCEPT ![t] = "read"]

StartWrite(t) ==
    /\ \A u \in Threads : mode[u] = "out"
    /\ mode' = [mode EXCEPT ![t] = "write"]

Stop(t) ==
    /\ mode[t] # "out"
    /\ mode' = [mode EXCEPT ![t] = "out"]

Next == \E t \in Threads : StartRead(t) \/ StartWrite(t) \/ Stop(t)

Spec == Init /\ [][Next]_mode
=============================================================================
