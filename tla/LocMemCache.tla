----------------------------- MODULE LocMemCache -----------------------------
(***************************************************************************)
(* The cache of results (agent/mmc/support/cache.py, classes LocMemCache   *)
(* and CacheableObject) as its threads run it under RWLock.                *)
(*                                                                         *)
(* A method is a section of readers, a section of writers, or the first    *)
(* and then the second: get() and has_key() leave the readers before they  *)
(* enter the writers to remove a key they found expired.  incr() and       *)
(* _cached() are two methods one after the other, with nothing held in     *)
(* between.  The two dictionaries are changed one after the other.  Time   *)
(* is what it does to an entry: it expires, at any moment.                 *)
(***************************************************************************)
EXTENDS RWLock

CONSTANTS
    Keys,
    Does,           \* the methods each thread calls
    Stored,         \* the values callers store and methods return
    MaxValue,       \* incr() goes no further than this value        (bound)
    MaxEntries,     \* _max_entries
    CullFrequency   \* _cull_frequency

Lookups == {"get", "has_key"}
Updates == {"set", "add", "delete"}
AllCalls == Lookups \cup Updates \cup {"incr", "_cached"}

ASSUME CacheAssumption ==
    /\ IsFiniteSet(Keys)
    /\ Does \in [Threads -> SUBSET AllCalls]
    /\ MaxValue \in Nat /\ Stored \subseteq 1..MaxValue
    /\ MaxEntries \in Nat \ {0} /\ CullFrequency \in Nat

Nothing == 0
Values == 1..MaxValue

VARIABLES
    cache,       \* _cache: the value of each key, or Nothing
    expire_info, \* _expire_info: "none", or how its time compares with now
    call,        \* the call each thread is in
    kept         \* ghost: has_key found the key, which was not lost since

lock == vars
data == <<cache, expire_info>>
cacheVars == <<lock, data, call, kept>>

(***************************************************************************)
(* op: the method that was called; in: the method it is in, which differs  *)
(* for incr and _cached; step: how far that one is.                        *)
(***************************************************************************)
ReadSteps == {"read", "fetch", "purge", "found", "missed", "KeyError"}
WriteSteps == {"purge", "halfpurged", "missed", "write", "halfwritten", "done"}
Steps == ReadSteps \cup WriteSteps \cup {"enter"}

NoCall == [op |-> "none", in |-> "none", key |-> Nothing, value |-> Nothing,
           step |-> "done"]

Held == {k \in Keys : cache[k] # Nothing}
Served(k) == cache[k] # Nothing /\ expire_info[k] = "fresh"

CacheInit ==
    /\ Init
    /\ cache = [k \in Keys |-> Nothing]
    /\ expire_info = [k \in Keys |-> "none"]
    /\ call = [t \in Threads |-> NoCall]
    /\ kept = [t \in Threads |-> FALSE]

Inside(t, place, step) == pc[t] = place /\ call[t].step = step
StepTo(t, step) == call' = [call EXCEPT ![t].step = step]
Calls(t, method, v) ==
    call' = [call EXCEPT ![t].in = method, ![t].value = v, ![t].step = "enter"]
Ends(t) == call' = [call EXCEPT ![t] = NoCall]
-----------------------------------------------------------------------------
\* A caller calls: nothing is read before the lock is asked for.
Begins(t, op, k, v) ==
    /\ pc[t] = "idle" /\ call[t] = NoCall
    /\ call' = [call EXCEPT ![t] =
          [op |-> op, key |-> k, value |-> v, step |-> "enter",
           in |-> CASE op = "incr" -> "get" [] op = "_cached" -> "has_key"
                    [] OTHER -> op]]
    /\ UNCHANGED <<lock, data>>

\* self._lock.reader_enters() and writer_enters().
Enters(t) ==
    /\ Inside(t, "idle", "enter")
    /\ \/ call[t].in \in Lookups /\ ReaderEnters(t) /\ StepTo(t, "read")
       \/ call[t].in \in Updates /\ WriterEnters(t) /\ StepTo(t, "write")
    /\ UNCHANGED data

Passes(t) == (ReaderPasses(t) \/ WriterPasses(t)) /\ UNCHANGED <<data, call>>

WhenServed(method) == IF method = "get" THEN "fetch" ELSE "found"

Finds_Expired(method, info) ==
    CASE info = "none" -> "missed"
      [] info = "expired" -> IF method = "has_key" THEN "found" ELSE "purge"
      [] info = "fresh" -> WhenServed(method)

\* What a lookup does next, from the expiry it reads.
Finds(method, info) ==
    CASE info = "none" -> "missed"
      [] info = "expired" -> "purge"
      [] info = "fresh" -> WhenServed(method)

LooksUp(t) ==
    /\ Inside(t, "reading", "read")
    /\ StepTo(t, Finds(call[t].in, expire_info[call[t].key]))
    /\ UNCHANGED <<lock, data>>

\* return self._cache[key], which has no default.
Fetches(t) ==
    /\ Inside(t, "reading", "fetch")
    /\ call' = [call EXCEPT
          ![t].value = cache[call[t].key],
          ![t].step = IF call[t].key \in Held THEN "found" ELSE "KeyError"]
    /\ UNCHANGED <<lock, data>>

(***************************************************************************)
(* What a method that has returned is followed by.  incr() stores the next *)
(* value, or raises; _cached() gets what has_key() found, or runs the      *)
(* method it caches and stores what that one returns.                      *)
(***************************************************************************)
Returns(t) ==
    LET c == call[t] IN
    \/ c.op = "incr" /\ c.in = "get" /\ c.step = "found" /\ c.value < MaxValue
       /\ Calls(t, "set", c.value + 1)
    \/ c.op = "_cached" /\ c.in = "has_key" /\ c.step = "found"
       /\ Calls(t, "get", Nothing)
    \/ c.op = "_cached" /\ c.in = "has_key" /\ c.step = "missed"
       /\ \E v \in Stored : Calls(t, "set", v)
    \/ /\ c.op = "incr" /\ c.in = "get" => c.step # "found" \/ c.value = MaxValue
       /\ c.op = "_cached" => c.in # "has_key"
       /\ Ends(t)

\* finally: self._lock.reader_leaves(); an expired key remains to be removed.
LeavesReaders(t) ==
    /\ pc[t] = "reading" /\ call[t].step \in {"found", "missed", "KeyError", "purge"}
    /\ ReaderLeaves(t)
    /\ IF call[t].step = "purge" THEN UNCHANGED call ELSE Returns(t)
    /\ UNCHANGED data

EntersToPurge_Unlocked(t) ==
    /\ Inside(t, "idle", "purge")
    /\ cache' = [cache EXCEPT ![call[t].key] = Nothing]
    /\ expire_info' = [expire_info EXCEPT ![call[t].key] = "none"]
    /\ Ends(t)
    /\ UNCHANGED lock

\* The section of writers of get() and has_key().
EntersToPurge(t) ==
    /\ Inside(t, "idle", "purge")
    /\ WriterEnters(t)
    /\ UNCHANGED <<data, call>>

Removes(k) == cache' = [cache EXCEPT ![k] = Nothing]
Forgets(k) == expire_info' = [expire_info EXCEPT ![k] = "none"]

\* del self._cache[key], whatever the key has become; a KeyError ends it.
Purges(t) ==
    /\ Inside(t, "writing", "purge")
    /\ StepTo(t, IF call[t].key \in Held THEN "halfpurged" ELSE "missed")
    /\ Removes(call[t].key)
    /\ UNCHANGED <<lock, expire_info>>

PurgesExpiry(t) ==
    /\ Inside(t, "writing", "halfpurged")
    /\ Forgets(call[t].key)
    /\ StepTo(t, "missed")
    /\ UNCHANGED <<lock, cache>>

Full_WhenOver == Cardinality(Held) > MaxEntries

\* The test of _set, made whether or not the key is one of those held.
Full == Cardinality(Held) >= MaxEntries

(***************************************************************************)
(* _cull: the first of every CullFrequency keys goes, in the order of the  *)
(* dictionary, which is none; all of them when CullFrequency is 0.         *)
(***************************************************************************)
Doomed(n) == IF CullFrequency = 0 THEN n
             ELSE (n + CullFrequency - 1) \div CullFrequency

Culled == IF ~Full THEN {{}}
          ELSE {S \in SUBSET Held : Cardinality(S) = Doomed(Cardinality(Held))}

\* add() refuses a key that is served, by its expiry.
Refuses(t) == call[t].in = "add" /\ expire_info[call[t].key] = "fresh"

\* _set: makes room and stores the value.
Stores(t) ==
    LET k == call[t].key IN
    /\ Inside(t, "writing", "write") /\ call[t].in \in {"set", "add"}
    /\ \/ Refuses(t) /\ StepTo(t, "done") /\ UNCHANGED data
       \/ /\ ~Refuses(t)
          /\ \E gone \in Culled :
                /\ cache' = [x \in Keys |-> IF x = k THEN call[t].value
                                            ELSE IF x \in gone THEN Nothing ELSE cache[x]]
                /\ expire_info' = [x \in Keys |-> IF x \in gone THEN "none"
                                                  ELSE expire_info[x]]
          /\ StepTo(t, "halfwritten")
    /\ UNCHANGED lock

\* ... and then its time.
StoresExpiry(t) ==
    /\ Inside(t, "writing", "halfwritten") /\ call[t].in \in {"set", "add"}
    /\ expire_info' = [expire_info EXCEPT ![call[t].key] = "fresh"]
    /\ StepTo(t, "done")
    /\ UNCHANGED <<lock, cache>>

Deletes(t) ==
    /\ Inside(t, "writing", "write") /\ call[t].in = "delete"
    /\ Removes(call[t].key)
    /\ StepTo(t, "halfwritten")
    /\ UNCHANGED <<lock, expire_info>>

DeletesExpiry(t) ==
    /\ Inside(t, "writing", "halfwritten") /\ call[t].in = "delete"
    /\ Forgets(call[t].key)
    /\ StepTo(t, "done")
    /\ UNCHANGED <<lock, cache>>

\* finally: self._lock.writer_leaves().
LeavesWriters(t) ==
    /\ pc[t] = "writing" /\ call[t].step \in {"done", "missed"}
    /\ WriterLeaves(t)
    /\ Returns(t)
    /\ UNCHANGED data

\* time.time() passes the time of an entry.
Expires(k) ==
    /\ expire_info[k] = "fresh"
    /\ expire_info' = [expire_info EXCEPT ![k] = "expired"]
    /\ UNCHANGED <<lock, cache, call>>

ThreadStep(t) ==
    \/ Enters(t) \/ Passes(t) \/ LooksUp(t) \/ Fetches(t) \/ LeavesReaders(t)
    \/ EntersToPurge(t) \/ Purges(t) \/ PurgesExpiry(t) \/ Stores(t) \/ StoresExpiry(t)
    \/ Deletes(t) \/ DeletesExpiry(t) \/ LeavesWriters(t)

\* has_key has found the key for a _cached that has not got it yet.
Promised(c) ==
    c.op = "_cached" /\ (c.in = "has_key" => c.step = "found") /\ c.in # "set"

Watches == kept' = [t \in Threads |->
    /\ Promised(call'[t])
    /\ Promised(call[t]) => kept[t]
    /\ ~(Served(call[t].key) /\ ~Served(call[t].key)')]

CacheNext ==
    /\ \/ \E t \in Threads, k \in Keys :
             \/ \E op \in Does[t] \ {"set", "add"} : Begins(t, op, k, Nothing)
             \/ \E op \in Does[t] \cap {"set", "add"}, v \in Stored : Begins(t, op, k, v)
       \/ \E t \in Threads : ThreadStep(t)
       \/ \E k \in Keys : Expires(k)
    /\ Watches

CacheSpec == CacheInit /\ [][CacheNext]_cacheVars

\* The scheduler runs a thread that can run; calling is the callers' choice.
CacheFairSpec == CacheSpec /\ \A t \in Threads : WF_cacheVars(ThreadStep(t) /\ Watches)
-----------------------------------------------------------------------------
CallType == [op : AllCalls, in : Lookups \cup Updates, key : Keys,
             value : Values \cup {Nothing}, step : Steps] \cup {NoCall}

CacheTypeOK ==
    /\ cache \in [Keys -> Values \cup {Nothing}]
    /\ expire_info \in [Keys -> {"none", "fresh", "expired"}]
    /\ call \in [Threads -> CallType]
    /\ kept \in [Threads -> BOOLEAN]

\* Where a thread is in its call says where it is in the lock.
Fits(c, place) ==
    /\ place = "idle" => c = NoCall \/ c.step \in {"enter", "purge"}
    /\ place # "idle" => c # NoCall
    /\ place = "rblock" => c.step = "read"
    /\ place = "reading" => c.step \in ReadSteps
    /\ place = "wblock" => c.step \in {"purge", "write"}
    /\ place = "writing" => c.step \in WriteSteps
    /\ place \in {"rblock", "reading"} \/ c.step \in {"purge", "halfpurged"}
       => c.in \in Lookups
    /\ c.step \in {"write", "halfwritten"} => c.in \in Updates
    /\ c.step = "fetch" => c.in = "get"
    /\ c.op = "_cached" => c.in \in {"has_key", "get", "set"}
    /\ c.op = "incr" => c.in \in {"get", "set"}
    /\ c.in \in {"set", "add"} => c.value # Nothing

InStep == \A t \in Threads : Fits(call[t], pc[t])

\* Between its two changes a writer leaves one key in only one dictionary.
Half(t, k) == /\ pc[t] = "writing" /\ call[t].key = k
              /\ call[t].step \in {"halfpurged", "halfwritten"}

(* The two dictionaries have the same keys, but for the one a writer is    *)
(* changing.                                                               *)
Paired == \A k \in Keys :
    (cache[k] = Nothing <=> expire_info[k] = "none") \/ \E t \in Threads : Half(t, k)

\* Which one that is.
HalfDone == \A t \in Threads : Half(t, call[t].key) =>
    (cache[call[t].key] = Nothing <=> call[t].in \notin {"set", "add"})

FetchesWhatIsHeld == \A t \in Threads :
    pc[t] = "reading" /\ call[t].step = "fetch" => cache[call[t].key] # Nothing

(* get() never raises: a reader that has read an expiry finds the value,   *)
(* although the writers change the two dictionaries one after the other    *)
(* ("If the key does not exist, return default", cache.py:76).             *)
ReaderFindsValue == \A t \in Threads : call[t].step # "KeyError"

(* The cache never holds more than _max_entries keys, expired ones that    *)
(* nobody has looked up since included.                                    *)
Bounded == Cardinality(Held) <= MaxEntries

\* A promise that is kept has its entry.
KeptIsServed == \A t \in Threads :
    Promised(call[t]) /\ kept[t] /\ call[t].step \in {"found", "enter", "read"}
    /\ (call[t].in = "get" => call[t].step # "found")
    => Served(call[t].key)

(* A cached call answers None, which the method did not return, only when  *)
(* the key expired or was removed after has_key had found it.              *)
NoneOnlyWhenLost ==
    \A t \in Threads :
        /\ call[t].op = "_cached" /\ call[t].in = "get"
        /\ call[t].step \in {"missed", "purge", "halfpurged"}
        => ~kept[t]

(* What the steps of the threads preserve, with IInv of the lock.          *)
CacheInv ==
    /\ IInv /\ CacheTypeOK /\ InStep /\ Paired /\ HalfDone
    /\ FetchesWhatIsHeld /\ ReaderFindsValue /\ Bounded /\ KeptIsServed /\ NoneOnlyWhenLost
=============================================================================
