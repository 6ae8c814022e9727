-------------------------- MODULE LocMemCacheProofs --------------------------
(***************************************************************************)
(* Proofs about LocMemCache and the RWLock under it, for any finite sets   *)
(* of threads and keys, any values, any capacity and any culling           *)
(* frequency.                                                              *)
(*                                                                         *)
(* The lock comes first.  Accounting ties its counters and semaphores to   *)
(* the threads, so a thread that is "writing" forces active_writers to 1   *)
(* and, by AdmissionExclusive, active_readers to 0, which leaves room for  *)
(* no thread "reading" and for no other one "writing".  A step of the      *)
(* cache is a step of the lock, or leaves it alone: what is proved of the  *)
(* lock is then used for the cache.                                        *)
(***************************************************************************)
EXTENDS LocMemCache, FiniteSetTheorems, TLAPS

(* The number of threads at a place is a natural number, and positive when *)
(* one is known to be there.                                               *)
LEMMA PlaceCount ==
    ASSUME NEW p
    PROVE  /\ IsFiniteSet(At(p))
           /\ Count(p) \in Nat
           /\ \A t \in Threads : pc[t] = p => Count(p) > 0
<1>1. IsFiniteSet(At(p))
  BY ThreadsFinite, FS_Subset DEF At
<1>2. Count(p) \in Nat
  BY <1>1, FS_CardinalityType DEF Count
<1>3. ASSUME NEW t \in Threads, pc[t] = p
      PROVE  Count(p) > 0
  <2>1. At(p) # {}
    BY <1>3 DEF At
  <2>2. Count(p) # 0
    BY <1>1, <2>1, FS_EmptySet DEF Count
  <2>3. QED
    BY <1>2, <2>2
<1>4. QED
  BY <1>1, <1>2, <1>3

(* Two threads at one place make its count at least two.                   *)
LEMMA TwoAtPlace ==
    ASSUME NEW p, NEW t \in Threads, NEW u \in Threads, t # u,
           pc[t] = p, pc[u] = p
    PROVE  Count(p) > 1
<1>1. t \in At(p) /\ u \in At(p)
  BY DEF At
<1>2. IsFiniteSet(At(p)) /\ Count(p) \in Nat /\ Count(p) # 0
  BY PlaceCount
<1>3. Count(p) # 1
  <2>1. SUFFICES ASSUME Count(p) = 1 PROVE FALSE
    OBVIOUS
  <2>2. PICK x : At(p) = {x}
    BY <1>2, <2>1, FS_Singleton DEF Count
  <2>3. QED
    BY <1>1, <2>2
<1>4. QED
  BY <1>2, <1>3

(* A thread that goes from one place to another takes one from the count   *)
(* of the first, adds one to the second and touches no other.              *)
LEMMA Move ==
    ASSUME pc \in [Threads -> Places],
           NEW t \in Threads, NEW from \in Places, NEW to \in Places,
           from # to, Goto(t, from, to)
    PROVE  /\ pc' \in [Threads -> Places]
           /\ Count(from)' = Count(from) - 1
           /\ Count(to)' = Count(to) + 1
           /\ \A p \in Places \ {from, to} :
                Count(p)' = Count(p)
<1>1. pc' \in [Threads -> Places]
  BY DEF Goto
<1>2. At(from)' = At(from) \ {t} /\ t \in At(from)
  BY DEF Goto, At
<1>3. At(to)' = At(to) \cup {t} /\ t \notin At(to)
  BY DEF Goto, At
<1>4. ASSUME NEW p \in Places \ {from, to}
      PROVE  At(p)' = At(p)
  BY DEF Goto, At
<1>5. Count(from)' = Count(from) - 1
  BY <1>2, PlaceCount, FS_RemoveElement DEF Count
<1>6. Count(to)' = Count(to) + 1
  BY <1>3, PlaceCount, FS_AddElement DEF Count
<1>7. ASSUME NEW p \in Places \ {from, to}
      PROVE  Count(p)' = Count(p)
  BY <1>4 DEF Count
<1>8. QED
  BY <1>1, <1>5, <1>6, <1>7
-----------------------------------------------------------------------------
LEMMA InitIInv == Init => IInv
<1>1. SUFFICES ASSUME Init PROVE IInv
  OBVIOUS
<1>2. TypeOK
  BY <1>1 DEF Init, TypeOK, Places
<1>3. \A p \in Places \ {"idle"} : At(p) = {}
  BY <1>1 DEF Init, At, Places
<1>4. \A p \in Places \ {"idle"} : Count(p) = 0
  BY <1>3, FS_EmptySet DEF Count
<1>5. Accounting
  BY <1>1, <1>4 DEF Init, Accounting, Places
<1>6. AdmissionExclusive /\ NoLostWakeup
  BY <1>1 DEF Init, AdmissionExclusive, NoLostWakeup
<1>7. QED
  BY <1>2, <1>5, <1>6 DEF IInv

LEMMA NextIInv == IInv /\ [Next]_vars => IInv'
<1> SUFFICES ASSUME IInv, [Next]_vars PROVE IInv'
  OBVIOUS
<1> USE DEF IInv
<1>0. /\ Count("idle") \in Nat /\ Count("rblock") \in Nat /\ Count("reading") \in Nat
      /\ Count("wblock") \in Nat /\ Count("writing") \in Nat
  BY PlaceCount
<1>1. ASSUME NEW t \in Threads, ReaderEnters(t) PROVE IInv'
  <2>1. /\ pc' \in [Threads -> Places]
        /\ Count("rblock")' = Count("rblock") + 1
        /\ Count("reading")' = Count("reading") /\ Count("wblock")' = Count("wblock")
        /\ Count("writing")' = Count("writing")
    BY <1>1, Move DEF ReaderEnters, TypeOK, Places
  <2>2. TypeOK'
    BY <1>1, <2>1 DEF ReaderEnters, TypeOK
  <2>3. Accounting'
    BY <1>0, <1>1, <2>1, <2>2 DEF ReaderEnters, TypeOK, Accounting
  <2>4. AdmissionExclusive'
    BY <1>1, <2>2 DEF ReaderEnters, MayRead, TypeOK, AdmissionExclusive
  <2>5. NoLostWakeup'
    <3>1. CASE MayRead
      BY <1>1, <2>2, <3>1 DEF ReaderEnters, MayRead, TypeOK, NoLostWakeup
    <3>2. CASE ~MayRead
      BY <1>1, <2>2, <3>2 DEF ReaderEnters, MayRead, TypeOK, NoLostWakeup
    <3>3. QED
      BY <3>1, <3>2
  <2>6. QED
    BY <2>2, <2>3, <2>4, <2>5
<1>2. ASSUME NEW t \in Threads, ReaderPasses(t) PROVE IInv'
  <2>1. /\ pc' \in [Threads -> Places]
        /\ Count("rblock")' = Count("rblock") - 1
        /\ Count("reading")' = Count("reading") + 1 /\ Count("wblock")' = Count("wblock")
        /\ Count("writing")' = Count("writing")
    BY <1>2, Move DEF ReaderPasses, TypeOK, Places
  <2>2. TypeOK'
    BY <1>2, <2>1 DEF ReaderPasses, TypeOK, counters
  <2>3. Accounting'
    BY <1>0, <1>2, <2>1, <2>2 DEF ReaderPasses, TypeOK, Accounting, counters
  <2>4. AdmissionExclusive' /\ NoLostWakeup'
    BY <1>2 DEF ReaderPasses, counters, AdmissionExclusive, NoLostWakeup
  <2>5. QED
    BY <2>2, <2>3, <2>4
<1>3. ASSUME NEW t \in Threads, ReaderLeaves(t) PROVE IInv'
  <2>1. /\ pc' \in [Threads -> Places]
        /\ Count("reading")' = Count("reading") - 1
        /\ Count("rblock")' = Count("rblock") /\ Count("wblock")' = Count("wblock")
        /\ Count("writing")' = Count("writing")
    BY <1>3, Move DEF ReaderLeaves, TypeOK, Places
  <2>2. Count("reading") > 0
    BY <1>3, PlaceCount DEF ReaderLeaves, Goto
  <2>3. active_readers > 0 /\ active_writers = 0
    BY <1>0, <2>2 DEF TypeOK, Accounting, AdmissionExclusive
  <2>4. CASE active_readers = 1 /\ waiting_writers # 0
    <3>1. /\ active_readers' = active_readers - 1
          /\ active_writers' = active_writers + 1
          /\ waiting_writers' = waiting_writers - 1
          /\ can_write' = can_write + 1
          /\ waiting_readers' = waiting_readers /\ can_read' = can_read
      BY <1>3, <2>4 DEF ReaderLeaves, PassToWriter
    <3>2. TypeOK'
      BY <2>1, <2>3, <2>4, <3>1 DEF TypeOK
    <3>3. Accounting'
      BY <1>0, <2>1, <2>4, <3>1, <3>2 DEF TypeOK, Accounting
    <3>4. AdmissionExclusive' /\ NoLostWakeup'
      BY <2>3, <2>4, <3>1, <3>2 DEF TypeOK, AdmissionExclusive, NoLostWakeup
    <3>5. QED
      BY <3>2, <3>3, <3>4
  <2>5. CASE ~(active_readers = 1 /\ waiting_writers # 0)
    <3>1. /\ active_readers' = active_readers - 1
          /\ active_writers' = active_writers
          /\ waiting_writers' = waiting_writers
          /\ can_write' = can_write
          /\ waiting_readers' = waiting_readers /\ can_read' = can_read
      BY <1>3, <2>5 DEF ReaderLeaves
    <3>2. TypeOK'
      BY <2>1, <2>3, <2>5, <3>1 DEF TypeOK
    <3>3. Accounting'
      BY <1>0, <2>1, <2>3, <2>5, <3>1, <3>2 DEF TypeOK, Accounting
    <3>4. AdmissionExclusive' /\ NoLostWakeup'
      BY <2>3, <2>5, <3>1, <3>2 DEF TypeOK, AdmissionExclusive, NoLostWakeup
    <3>5. QED
      BY <3>2, <3>3, <3>4
  <2>6. QED
    BY <2>4, <2>5
<1>4. ASSUME NEW t \in Threads, WriterEnters(t) PROVE IInv'
  <2>1. /\ pc' \in [Threads -> Places]
        /\ Count("wblock")' = Count("wblock") + 1
        /\ Count("reading")' = Count("reading") /\ Count("rblock")' = Count("rblock")
        /\ Count("writing")' = Count("writing")
    BY <1>4, Move DEF WriterEnters, TypeOK, Places
  <2>2. TypeOK'
    BY <1>4, <2>1 DEF WriterEnters, TypeOK
  <2>3. Accounting'
    BY <1>0, <1>4, <2>1, <2>2 DEF WriterEnters, TypeOK, Accounting
  <2>4. AdmissionExclusive'
    BY <1>4, <2>2 DEF WriterEnters, MayWrite, MayRead, TypeOK, AdmissionExclusive
  <2>5. NoLostWakeup'
    <3>1. CASE MayWrite
      BY <1>4, <2>2, <3>1 DEF WriterEnters, MayWrite, MayRead, TypeOK, NoLostWakeup
    <3>2. CASE ~MayWrite
      BY <1>4, <2>2, <3>2 DEF WriterEnters, MayWrite, MayRead, TypeOK, NoLostWakeup
    <3>3. QED
      BY <3>1, <3>2
  <2>6. QED
    BY <2>2, <2>3, <2>4, <2>5
<1>5. ASSUME NEW t \in Threads, WriterPasses(t) PROVE IInv'
  <2>1. /\ pc' \in [Threads -> Places]
        /\ Count("wblock")' = Count("wblock") - 1
        /\ Count("writing")' = Count("writing") + 1 /\ Count("rblock")' = Count("rblock")
        /\ Count("reading")' = Count("reading")
    BY <1>5, Move DEF WriterPasses, TypeOK, Places
  <2>2. TypeOK'
    BY <1>5, <2>1 DEF WriterPasses, TypeOK, counters
  <2>3. Accounting'
    BY <1>0, <1>5, <2>1, <2>2 DEF WriterPasses, TypeOK, Accounting, counters
  <2>4. AdmissionExclusive' /\ NoLostWakeup'
    BY <1>5 DEF WriterPasses, counters, AdmissionExclusive, NoLostWakeup
  <2>5. QED
    BY <2>2, <2>3, <2>4
<1>6. ASSUME NEW t \in Threads, WriterLeaves(t) PROVE IInv'
  <2>1. /\ pc' \in [Threads -> Places]
        /\ Count("writing")' = Count("writing") - 1
        /\ Count("rblock")' = Count("rblock") /\ Count("wblock")' = Count("wblock")
        /\ Count("reading")' = Count("reading")
    BY <1>6, Move DEF WriterLeaves, TypeOK, Places
  <2>2. Count("writing") > 0
    BY <1>6, PlaceCount DEF WriterLeaves, Goto
  <2>3. active_writers = 1 /\ active_readers = 0 /\ can_write = 0
    BY <1>0, <2>2 DEF TypeOK, Accounting, AdmissionExclusive
  <2>4. CASE waiting_writers # 0
    <3>1. /\ active_writers' = active_writers /\ active_readers' = active_readers
          /\ waiting_writers' = waiting_writers - 1
          /\ can_write' = can_write + 1
          /\ waiting_readers' = waiting_readers /\ can_read' = can_read
      BY <1>6, <2>4 DEF WriterLeaves, PassToWriter
    <3>2. TypeOK'
      BY <2>1, <2>3, <2>4, <3>1 DEF TypeOK
    <3>3. Accounting'
      BY <1>0, <2>1, <2>3, <2>4, <3>1, <3>2 DEF TypeOK, Accounting
    <3>4. AdmissionExclusive' /\ NoLostWakeup'
      BY <2>3, <2>4, <3>1, <3>2 DEF TypeOK, AdmissionExclusive,
         NoLostWakeup
    <3>5. QED
      BY <3>2, <3>3, <3>4
  <2>5. CASE waiting_writers = 0
    <3>1. /\ active_writers' = active_writers - 1
          /\ active_readers' = active_readers + waiting_readers
          /\ can_read' = can_read + waiting_readers
          /\ waiting_readers' = 0
          /\ waiting_writers' = waiting_writers /\ can_write' = can_write
      BY <1>6, <2>5 DEF WriterLeaves, WakeReaders
    <3>2. TypeOK'
      BY <2>1, <2>3, <2>5, <3>1 DEF TypeOK
    <3>3. Accounting'
      <4>1. active_readers' = Count("reading")' + can_read'
        <5>1. Count("reading") = 0 /\ can_read = 0
          BY <1>0, <2>3 DEF TypeOK, Accounting
        <5>2. QED
          BY <2>1, <2>3, <3>1, <5>1 DEF TypeOK
      <4>2. active_writers' = Count("writing")' + can_write'
        BY <1>0, <2>1, <2>3, <3>1 DEF TypeOK, Accounting
      <4>3. waiting_readers' + can_read' = Count("rblock")'
        BY <1>0, <2>1, <2>3, <3>1 DEF TypeOK, Accounting
      <4>4. waiting_writers' + can_write' = Count("wblock")'
        BY <1>0, <2>1, <2>3, <3>1 DEF TypeOK, Accounting
      <4>5. QED
        BY <4>1, <4>2, <4>3, <4>4 DEF Accounting
    <3>4. AdmissionExclusive' /\ NoLostWakeup'
      BY <2>3, <2>5, <3>1, <3>2 DEF TypeOK, AdmissionExclusive,
         NoLostWakeup
    <3>5. QED
      BY <3>2, <3>3, <3>4
  <2>6. QED
    BY <2>4, <2>5
<1>7. CASE UNCHANGED vars
  <2>1. \A p : Count(p)' = Count(p)
    BY <1>7 DEF vars, Count, At
  <2>2. QED
    BY <1>7, <2>1 DEF vars, counters, TypeOK, Accounting, AdmissionExclusive,
       NoLostWakeup
<1>8. QED
  BY <1>1, <1>2, <1>3, <1>4, <1>5, <1>6, <1>7 DEF Next

(* The counters, the semaphores and the places of the threads agree in     *)
(* every state, so that no wake-up is lost and admission is exclusive.     *)
THEOREM LockInvariant == Spec => []IInv
BY InitIInv, NextIInv, PTL DEF Spec

(* Every variable of the lock keeps its type: no counter or semaphore goes *)
(* below zero.                                                             *)
THEOREM TypeCorrect == Spec => []TypeOK
<1>1. IInv => TypeOK
  BY DEF IInv
<1>2. QED
  BY <1>1, LockInvariant, PTL

LEMMA IInvExclusive == IInv => MutualExclusion
<1> SUFFICES ASSUME IInv, NEW t \in Threads, NEW u \in Threads,
                    pc[t] = "writing", u # t,
                    pc[u] \in {"reading", "writing"}
             PROVE  FALSE
  BY DEF MutualExclusion
<1>1. /\ Count("writing") > 0 /\ Count("writing") \in Nat
      /\ Count("reading") \in Nat
  BY PlaceCount
<1>2. active_writers = 1 /\ active_readers = 0 /\ Count("writing") = 1
  BY <1>1 DEF IInv, TypeOK, Accounting, AdmissionExclusive
<1>3. CASE pc[u] = "reading"
  <2>1. Count("reading") > 0
    BY <1>3, PlaceCount
  <2>2. QED
    BY <1>1, <1>2, <2>1 DEF IInv, TypeOK, Accounting
<1>4. CASE pc[u] = "writing"
  BY <1>2, <1>4, TwoAtPlace
<1>5. QED
  BY <1>3, <1>4

(* "Writers get an exclusive access" (cache.py:391).                       *)
THEOREM Exclusion == Spec => []MutualExclusion
BY IInvExclusive, LockInvariant, PTL

(* "preference to writers" (cache.py:382): no method admits a reader while *)
(* a writer waits.                                                         *)
THEOREM Preference == Spec => WriterPreference
<1>1. IInv /\ [Next]_vars
      => [waiting_writers > 0 => active_readers' <= active_readers]_vars
  <2> SUFFICES ASSUME IInv, Next, waiting_writers > 0
               PROVE  active_readers' <= active_readers
    OBVIOUS
  <2>1. active_readers \in Nat /\ waiting_writers \in Nat
    BY DEF IInv, TypeOK
  <2>2. QED
    BY <2>1 DEF Next, ReaderEnters, ReaderPasses, ReaderLeaves, WriterEnters,
       WriterPasses, WriterLeaves, MayRead, PassToWriter, counters
<1>2. QED
  BY <1>1, LockInvariant, PTL DEF Spec, WriterPreference

LEMMA InitMaps == Init => RW!Init
BY DEF Init, RW!Init, Mode

LEMMA StepMaps ==
    IInv /\ MutualExclusion' /\ [Next]_vars => [RW!Next]_Mode
<1> SUFFICES ASSUME IInv, MutualExclusion', [Next]_vars
             PROVE  [RW!Next]_Mode
  OBVIOUS
<1> USE DEF IInv, TypeOK, Places
<1>1. ASSUME NEW t \in Threads, ReaderPasses(t) PROVE RW!StartRead(t)
  <2>1. pc[t] = "rblock" /\ pc' = [pc EXCEPT ![t] = "reading"]
    BY <1>1 DEF ReaderPasses, Goto
  <2>2. \A u \in Threads : pc[u] # "writing"
    BY <2>1 DEF MutualExclusion
  <2>3. QED
    BY <2>1, <2>2 DEF RW!StartRead, Mode
<1>2. ASSUME NEW t \in Threads, WriterPasses(t) PROVE RW!StartWrite(t)
  <2>1. pc[t] = "wblock" /\ pc' = [pc EXCEPT ![t] = "writing"]
    BY <1>2 DEF WriterPasses, Goto
  <2>2. \A u \in Threads : pc[u] \notin {"reading", "writing"}
    BY <2>1 DEF MutualExclusion
  <2>3. QED
    BY <2>1, <2>2 DEF RW!StartWrite, Mode
<1>3. ASSUME NEW t \in Threads, ReaderLeaves(t) \/ WriterLeaves(t)
      PROVE  RW!Stop(t)
  <2>1. pc[t] \in {"reading", "writing"} /\ pc' = [pc EXCEPT ![t] = "idle"]
    BY <1>3 DEF ReaderLeaves, WriterLeaves, Goto
  <2>2. QED
    BY <2>1 DEF RW!Stop, Mode
<1>4. ASSUME NEW t \in Threads, ReaderEnters(t) \/ WriterEnters(t)
      PROVE  Mode' = Mode
  <2>1. pc[t] = "idle" /\ pc'[t] \in {"rblock", "wblock"}
        /\ \A u \in Threads \ {t} : pc'[u] = pc[u]
    BY <1>4 DEF ReaderEnters, WriterEnters, Goto
  <2>2. QED
    BY <2>1 DEF Mode
<1>5. CASE UNCHANGED vars
  BY <1>5 DEF vars, Mode
<1>6. QED
  BY <1>1, <1>2, <1>3, <1>4, <1>5 DEF Next, RW!Next

(* RWLock implements the abstract reader-writer lock.                      *)
THEOREM Refinement == Spec => Implements
<1>1. Spec => []MutualExclusion /\ []IInv
  BY Exclusion, LockInvariant, PTL
<1>2. QED
  BY <1>1, InitMaps, StepMaps, PTL DEF Spec, Implements, RW!Spec
-----------------------------------------------------------------------------
(***************************************************************************)
(* The cache.                                                              *)
(***************************************************************************)
LEMMA NothingIsNoValue == Nothing \notin Values
BY CacheAssumption DEF Nothing, Values

LEMMA LockStep == CacheNext => [Next]_vars
BY DEF CacheNext, ThreadStep, Begins, Enters, Passes, LooksUp, Fetches,
   LeavesReaders, EntersToPurge, Purges, PurgesExpiry, Stores, StoresExpiry,
   Deletes, DeletesExpiry, LeavesWriters, Expires, lock, Next

\* A thread's step leaves the others where they are.
LEMMA OthersStay ==
    ASSUME NEW t \in Threads, NEW u \in Threads, u # t,
           TypeOK, CacheTypeOK,
           \/ ThreadStep(t)
           \/ \E k \in Keys, op \in AllCalls, v \in Stored \cup {Nothing} : Begins(t, op, k, v)
    PROVE  pc'[u] = pc[u] /\ call'[u] = call[u]
<1> USE DEF TypeOK, CacheTypeOK, Goto, StepTo, Calls, Ends, lock, vars, Inside
<1>1. CASE \E k \in Keys, op \in AllCalls, v \in Stored \cup {Nothing} : Begins(t, op, k, v)
  BY <1>1 DEF Begins
<1>2. CASE Enters(t)
  BY <1>2 DEF Enters, ReaderEnters, WriterEnters
<1>3. CASE Passes(t)
  BY <1>3 DEF Passes, ReaderPasses, WriterPasses
<1>4. CASE LeavesReaders(t)
  BY <1>4 DEF LeavesReaders, ReaderLeaves, Returns
<1>5. CASE LeavesWriters(t)
  BY <1>5 DEF LeavesWriters, WriterLeaves, Returns
<1>6. CASE LooksUp(t) \/ Fetches(t) \/ EntersToPurge(t) \/ Purges(t) \/ PurgesExpiry(t)
           \/ Stores(t) \/ StoresExpiry(t) \/ Deletes(t) \/ DeletesExpiry(t)
  BY <1>6 DEF LooksUp, Fetches, EntersToPurge, Purges, PurgesExpiry, Stores,
     StoresExpiry, Deletes, DeletesExpiry, WriterEnters
<1>7. QED
  BY <1>1, <1>2, <1>3, <1>4, <1>5, <1>6 DEF ThreadStep

\* The record of a call that goes on.
LEMMA InCall ==
    ASSUME NEW t \in Threads, CacheTypeOK, call[t] # NoCall
    PROVE  /\ call[t] \in [op : AllCalls, in : Lookups \cup Updates, key : Keys,
                           value : Values \cup {Nothing}, step : Steps]
           /\ cache[call[t].key] \in Values \cup {Nothing}
           /\ expire_info[call[t].key] \in {"none", "fresh", "expired"}
BY DEF CacheTypeOK, CallType

LEMMA CacheInitInv == CacheInit => CacheInv
<1> SUFFICES ASSUME CacheInit PROVE CacheInv
  OBVIOUS
<1>1. IInv
  BY InitIInv DEF CacheInit
<1>2. CacheTypeOK
  BY DEF CacheInit, CacheTypeOK, CallType
<1>3. InStep /\ FetchesWhatIsHeld /\ ReaderFindsValue /\ KeptIsServed /\ NoneOnlyWhenLost
  BY DEF CacheInit, Init, InStep, Fits, FetchesWhatIsHeld, ReaderFindsValue, KeptIsServed,
     NoneOnlyWhenLost, NoCall, Promised
<1>4. Paired /\ HalfDone
  BY DEF CacheInit, Init, Paired, HalfDone, Half
<1>5. Bounded
  <2>1. Held = {}
    BY DEF CacheInit, Held
  <2>2. QED
    BY <2>1, FS_EmptySet, CacheAssumption DEF Bounded
<1>6. QED
  BY <1>1, <1>2, <1>3, <1>4, <1>5 DEF CacheInv

\* A step keeps the type of its call and leaves it where it fits.
LEMMA StepFits ==
    ASSUME CacheInv, NEW t \in Threads,
           \/ ThreadStep(t)
           \/ \E k \in Keys, op \in AllCalls, v \in Stored \cup {Nothing} :
                 (op \in {"set", "add"} => v \in Stored) /\ Begins(t, op, k, v)
    PROVE  call' \in [Threads -> CallType] /\ Fits(call'[t], pc'[t])
<1> USE NothingIsNoValue
<1> USE DEF CacheInv, IInv, TypeOK, CacheTypeOK, InStep, Fits, Goto, StepTo, Calls, Ends, lock, vars, Inside,
        CallType, NoCall, Steps, ReadSteps, WriteSteps, Lookups, Updates, AllCalls
<1>v. Stored \subseteq Values /\ \A v \in Values \cup {Nothing} : v < MaxValue => v + 1 \in Values
  BY CacheAssumption DEF Values, Nothing
<1>1. CASE \E k \in Keys, op \in AllCalls, v \in Stored \cup {Nothing} :
              (op \in {"set", "add"} => v \in Stored) /\ Begins(t, op, k, v)
  <2> PICK k \in Keys, op \in AllCalls, v \in Stored \cup {Nothing} :
              (op \in {"set", "add"} => v \in Stored) /\ Begins(t, op, k, v)
    BY <1>1
  <2> DEFINE m == CASE op = "incr" -> "get" [] op = "_cached" -> "has_key" [] OTHER -> op
  <2>1. m \in Lookups \cup Updates /\ (op = "incr" => m = "get") /\ (op = "_cached" => m = "has_key")
        /\ (m \in {"set", "add"} => op = m)
    OBVIOUS
  <2>2. call' = [call EXCEPT ![t] = [op |-> op, key |-> k, value |-> v, step |-> "enter", in |-> m]]
        /\ pc[t] = "idle" /\ pc' = pc
    BY DEF Begins
  <2> HIDE DEF m
  <2>3. QED
    BY <1>v, <2>1, <2>2
<1>2. CASE Enters(t)
  BY <1>2 DEF Enters, ReaderEnters, WriterEnters
<1>3. CASE Passes(t)
  BY <1>3 DEF Passes, ReaderPasses, WriterPasses
<1>6. CASE LooksUp(t)
  BY <1>6 DEF LooksUp, Finds, WhenServed
<1>7. CASE Fetches(t)
  BY <1>7 DEF Fetches
<1>r. CASE Returns(t) /\ pc[t] \in {"reading", "writing"} /\ pc'[t] = "idle"
  <2>1. call[t] # NoCall
    BY <1>r
  <2>2. ASSUME NEW m \in {"set", "get"}, NEW v \in Values \cup {Nothing}, Calls(t, m, v),
               m = "set" => v # Nothing, call[t].op \in {"incr", "_cached"}
        PROVE  call' \in [Threads -> CallType] /\ Fits(call'[t], pc'[t])
    BY <1>r, <2>1, <2>2
  <2>3. CASE Ends(t)
    BY <1>r, <2>3
  <2>4. QED
    <3> DEFINE c == call[t]
    <3>1. CASE c.op = "incr" /\ c.value < MaxValue /\ Calls(t, "set", c.value + 1)
      <4>1. c.value + 1 \in Values
        BY <1>v, <2>1, <3>1
      <4> HIDE DEF Calls, Fits, CallType
      <4>2. QED
        BY <4>1, <2>2, <3>1
    <3>2. CASE c.op = "_cached" /\ Calls(t, "get", Nothing)
      BY <2>2, <3>2
    <3>3. CASE c.op = "_cached" /\ \E v \in Stored : Calls(t, "set", v)
      <4>1. PICK v \in Values : Calls(t, "set", v)
        BY <1>v, <3>3
      <4> HIDE DEF Calls, Fits, CallType
      <4>2. QED
        BY <4>1, <2>2, <3>3
    <3>4. QED
      BY <1>r, <2>3, <3>1, <3>2, <3>3 DEF Returns
<1>4. CASE LeavesReaders(t)
  BY <1>r, <1>4 DEF LeavesReaders, ReaderLeaves
<1>5. CASE LeavesWriters(t)
  BY <1>r, <1>5 DEF LeavesWriters, WriterLeaves
<1>8. CASE EntersToPurge(t) \/ Purges(t) \/ PurgesExpiry(t)
           \/ Stores(t) \/ StoresExpiry(t) \/ Deletes(t) \/ DeletesExpiry(t)
  BY <1>8 DEF EntersToPurge, Purges, PurgesExpiry, Stores,
     StoresExpiry, Deletes, DeletesExpiry, WriterEnters
<1>9. QED
  BY <1>1, <1>2, <1>3, <1>4, <1>5, <1>6, <1>7, <1>8 DEF ThreadStep

\* Who writes is alone, and who reads is not beside a writer.
LEMMA Alone ==
    ASSUME CacheInv, NEW t \in Threads, NEW u \in Threads, u # t,
           pc[t] \in {"reading", "writing"}
    PROVE  pc[u] # "writing" /\ (pc[t] = "writing" => pc[u] # "reading")
BY IInvExclusive DEF CacheInv, MutualExclusion

\* A key is in both dictionaries or in none, as far as such a thread can see.
LEMMA SeenPaired ==
    ASSUME CacheInv, NEW t \in Threads, pc[t] \in {"reading", "writing"},
           NEW k \in Keys, ~Half(t, k)
    PROVE  cache[k] = Nothing <=> expire_info[k] = "none"
<1> SUFFICES ASSUME NEW u \in Threads, Half(u, k) PROVE FALSE
  BY DEF CacheInv, Paired
<1>1. pc[u] = "writing" /\ u # t
  BY DEF Half
<1>2. QED
  BY <1>1, Alone

\* Only who writes changes the dictionaries, time aside.
LEMMA WritersChange ==
    ASSUME NEW t \in Threads, ThreadStep(t), pc[t] # "writing"
    PROVE  UNCHANGED data
BY DEF ThreadStep, Enters, Passes, LooksUp, Fetches, LeavesReaders, EntersToPurge,
   Purges, PurgesExpiry, Stores, StoresExpiry, Deletes, DeletesExpiry, LeavesWriters,
   Inside

Calling(t) == \E k \in Keys, op \in AllCalls, v \in Stored \cup {Nothing} :
    (op \in {"set", "add"} => v \in Stored) /\ Begins(t, op, k, v)

\* The cases of every proof about a step.
LEMMA Cases ==
    ASSUME CacheNext
    PROVE  \/ \E t \in Threads : Calling(t)
           \/ \E t \in Threads : ThreadStep(t)
           \/ \E k \in Keys : Expires(k)
<1>1. ASSUME NEW t \in Threads, NEW k \in Keys, NEW op \in Does[t] \ {"set", "add"},
             Begins(t, op, k, Nothing)
      PROVE  Calling(t)
  BY <1>1, CacheAssumption DEF Calling
<1>2. ASSUME NEW t \in Threads, NEW k \in Keys, NEW op \in Does[t] \cap {"set", "add"},
             NEW v \in Stored, Begins(t, op, k, v)
      PROVE  Calling(t)
  BY <1>2, CacheAssumption DEF Calling
<1>3. QED
  BY <1>1, <1>2 DEF CacheNext

LEMMA CallingKeepsData == ASSUME NEW t \in Threads, Calling(t) PROVE UNCHANGED <<data, lock>>
BY DEF Calling, Begins

LEMMA DataTypes ==
    ASSUME CacheInv, CacheNext
    PROVE  /\ cache' \in [Keys -> Values \cup {Nothing}]
           /\ expire_info' \in [Keys -> {"none", "fresh", "expired"}]
<1> USE DEF CacheInv, CacheTypeOK
<1>1. ASSUME NEW t \in Threads, Calling(t) \/ (ThreadStep(t) /\ pc[t] # "writing")
      PROVE  UNCHANGED data
  BY <1>1, CallingKeepsData, WritersChange
<1>2. ASSUME NEW t \in Threads, ThreadStep(t), pc[t] = "writing", ~UNCHANGED data
      PROVE  /\ cache' \in [Keys -> Values \cup {Nothing}]
             /\ expire_info' \in [Keys -> {"none", "fresh", "expired"}]
  <2>1. call[t] # NoCall
    BY <1>2 DEF InStep, Fits
  <2>2. call[t].key \in Keys /\ call[t].value \in Values \cup {Nothing}
    BY <2>1, InCall
  <2>3. CASE Stores(t)
    BY <2>2, <2>3 DEF Stores, data
  <2>4. QED
    BY <1>2, <2>2, <2>3 DEF ThreadStep, Enters, Passes, LooksUp, Fetches, LeavesReaders,
       EntersToPurge, Purges, PurgesExpiry, StoresExpiry, Deletes, DeletesExpiry,
       LeavesWriters, Removes, Forgets
<1>3. ASSUME NEW k \in Keys, Expires(k)
      PROVE  /\ cache' \in [Keys -> Values \cup {Nothing}]
             /\ expire_info' \in [Keys -> {"none", "fresh", "expired"}]
  BY <1>3 DEF Expires
<1>4. QED
  BY <1>1, <1>2, <1>3, Cases DEF data

LEMMA TypesKept ==
    ASSUME CacheInv, CacheNext
    PROVE  CacheTypeOK' /\ InStep'
<1>1. kept' \in [Threads -> BOOLEAN]
  BY DEF CacheNext, Watches
<1>2. ASSUME NEW t \in Threads, Calling(t) \/ ThreadStep(t)
      PROVE  call' \in [Threads -> CallType] /\ InStep'
  <2>1. call' \in [Threads -> CallType] /\ Fits(call'[t], pc'[t])
    BY <1>2, StepFits DEF Calling
  <2>2. ASSUME NEW u \in Threads, u # t PROVE call'[u] = call[u] /\ pc'[u] = pc[u]
    BY <1>2, <2>2, OthersStay DEF Calling, CacheInv, IInv
  <2>3. QED
    BY <2>1, <2>2 DEF InStep, CacheInv
<1>3. ASSUME NEW k \in Keys, Expires(k)
      PROVE  call' \in [Threads -> CallType] /\ InStep'
  BY <1>3 DEF Expires, CacheInv, CacheTypeOK, InStep, lock, vars
<1>4. QED
  BY <1>1, <1>2, <1>3, DataTypes, Cases DEF CacheTypeOK

\* The steps that change no dictionary.
Reads(t) ==
    \/ Calling(t) \/ Enters(t) \/ Passes(t) \/ LooksUp(t) \/ Fetches(t)
    \/ LeavesReaders(t) \/ EntersToPurge(t) \/ LeavesWriters(t)
    \/ Inside(t, "writing", "write") /\ StepTo(t, "done") /\ UNCHANGED <<lock, data>>

\* ... and the others, all by who has the lock.
Writes(t) ==
    \/ Purges(t) \/ PurgesExpiry(t) \/ StoresExpiry(t) \/ Deletes(t) \/ DeletesExpiry(t)
    \/ Stores(t) /\ ~Refuses(t)

LEMMA ReadsOrWrites ==
    ASSUME NEW t \in Threads, Calling(t) \/ ThreadStep(t) PROVE Reads(t) \/ Writes(t)
BY DEF Reads, Writes, ThreadStep, Stores

LEMMA ReadsAway ==
    ASSUME CacheInv, NEW t \in Threads, Reads(t), NEW k \in Keys
    PROVE  UNCHANGED data /\ ~Half(t, k) /\ ~Half(t, k)'
<1> USE DEF Half, Inside, CacheInv, IInv, TypeOK, CacheTypeOK, InStep, Fits, Goto, StepTo, lock, vars
<1>1. CASE Calling(t)
  BY <1>1 DEF Calling, Begins
<1>2. CASE Enters(t)
  BY <1>2 DEF Enters, ReaderEnters, WriterEnters
<1>3. CASE Passes(t)
  BY <1>3 DEF Passes, ReaderPasses, WriterPasses
<1>4. CASE LooksUp(t) \/ Fetches(t)
  BY <1>4 DEF LooksUp, Fetches
<1>5. CASE LeavesReaders(t) \/ EntersToPurge(t) \/ LeavesWriters(t)
  BY <1>5 DEF LeavesReaders, EntersToPurge, LeavesWriters, ReaderLeaves, WriterLeaves,
     WriterEnters
<1>6. CASE Inside(t, "writing", "write") /\ StepTo(t, "done") /\ UNCHANGED <<lock, data>>
  BY <1>6
<1>7. QED
  BY <1>1, <1>2, <1>3, <1>4, <1>5, <1>6 DEF Reads

LEMMA WritesInside ==
    ASSUME CacheInv, NEW t \in Threads, Writes(t)
    PROVE  /\ pc[t] = "writing" /\ pc' = pc
           /\ call[t] # NoCall /\ call[t].key \in Keys /\ call'[t].key = call[t].key
           /\ call'[t].in = call[t].in /\ call'[t].op = call[t].op
<1>1. pc[t] = "writing" /\ pc' = pc
  BY DEF Writes, Purges, PurgesExpiry, StoresExpiry, Deletes, DeletesExpiry, Stores,
     Inside, lock, vars
<1>2. call[t] # NoCall
  BY <1>1 DEF CacheInv, InStep, Fits
<1>3. call[t] \in [op : AllCalls, in : Lookups \cup Updates, key : Keys,
                   value : Values \cup {Nothing}, step : Steps]
  BY <1>2, InCall DEF CacheInv
<1>4. \E s : StepTo(t, s)
  BY DEF Writes, Purges, PurgesExpiry, StoresExpiry, Deletes, DeletesExpiry, Stores
<1>5. QED
  BY <1>1, <1>2, <1>3, <1>4 DEF StepTo, CacheInv, CacheTypeOK

LEMMA PairedKept ==
    ASSUME CacheInv, CacheNext
    PROVE  Paired' /\ HalfDone'
<1> USE DEF CacheInv
<1>o. ASSUME NEW t \in Threads, Calling(t) \/ ThreadStep(t), NEW u \in Threads, u # t
      PROVE  pc'[u] = pc[u] /\ call'[u] = call[u]
  BY <1>o, OthersStay DEF Calling, IInv
<1>1. ASSUME NEW t \in Threads, Calling(t) \/ ThreadStep(t), Reads(t) PROVE Paired' /\ HalfDone'
  <2>1. ASSUME NEW k \in Keys PROVE UNCHANGED data /\ ~Half(t, k) /\ ~Half(t, k)'
    BY <1>1, <2>1, ReadsAway
  <2>2. \A u \in Threads : \A k \in Keys : Half(u, k) => Half(u, k)'
    BY <1>o, <1>1, <2>1 DEF Half
  <2>3. Paired'
    BY <2>1, <2>2 DEF Paired, data
  <2>4. ASSUME NEW u \in Threads, Half(u, call[u].key)'
        PROVE  (cache[call[u].key] = Nothing <=> call[u].in \notin {"set", "add"})'
    <3>1. call'[u] # NoCall
      BY <2>4, TypesKept DEF InStep, Fits, Half
    <3>2. call'[u].key \in Keys
      BY <3>1, TypesKept DEF CacheTypeOK, CallType
    <3>3. u # t
      BY <2>1, <2>4, <3>2
    <3>4. QED
      BY <1>o, <1>1, <2>1, <2>4, <3>2, <3>3 DEF HalfDone, Half, data
  <2>5. QED
    BY <2>3, <2>4 DEF HalfDone
<1>2. ASSUME NEW t \in Threads, Calling(t) \/ ThreadStep(t), Writes(t) PROVE Paired' /\ HalfDone'
  <2> DEFINE k0 == call[t].key
  <2>1. pc[t] = "writing" /\ pc' = pc /\ call[t] # NoCall /\ k0 \in Keys
        /\ call'[t].key = k0 /\ call'[t].in = call[t].in
    BY <1>2, WritesInside
  <2>2. \A u \in Threads : u # t => pc'[u] # "writing"
    BY <2>1, Alone
  <2>3. \A k \in Keys : k # k0 => (cache[k] = Nothing <=> expire_info[k] = "none")
    BY <2>1, SeenPaired DEF Half
  <2>4. ~Half(t, k0) => (cache[k0] = Nothing <=> expire_info[k0] = "none")
    BY <2>1, SeenPaired
  <2>t. cache \in [Keys -> Values \cup {Nothing}] /\ call \in [Threads -> CallType]
        /\ expire_info \in [Keys -> {"none", "fresh", "expired"}]
    BY DEF CacheTypeOK
  <2>5. /\ \A k \in Keys : k # k0 => (cache'[k] = Nothing <=> expire_info'[k] = "none")
        /\ \/ cache'[k0] = Nothing <=> expire_info'[k0] = "none"
           \/ /\ call'[t].step \in {"halfpurged", "halfwritten"}
              /\ cache'[k0] = Nothing <=> call[t].in \notin {"set", "add"}
        /\ call'[t].step \in {"halfpurged", "halfwritten"}
           => (cache'[k0] = Nothing <=> call[t].in \notin {"set", "add"})
    <3> USE <2>1, <2>3, <2>4, <2>t DEF Half, StepTo, Inside, Removes, Forgets, CacheTypeOK
    <3>1. CASE Purges(t)
      <4>1. call[t].in \in Lookups
        BY <3>1 DEF Purges, InStep, Fits
      <4>2. call[t].in \notin {"set", "add"}
        BY <4>1 DEF Lookups
      <4>3. cache' = [cache EXCEPT ![k0] = Nothing] /\ expire_info' = expire_info
        BY <3>1 DEF Purges
      <4>4. CASE k0 \in Held
        BY <3>1, <4>2, <4>3, <4>4 DEF Purges
      <4>5. CASE cache[k0] = Nothing
        <5>1. ~Half(t, k0) /\ call'[t].step = "missed"
          BY <3>1, <4>5 DEF Purges, Held
        <5>2. QED
          BY <4>3, <4>5, <5>1
      <4>6. QED
        BY <4>4, <4>5 DEF Held
    <3>2. CASE PurgesExpiry(t)
      <4>1. call[t].in \in Lookups
        BY <3>2 DEF PurgesExpiry, InStep, Fits
      <4>2. cache[k0] = Nothing
        BY <3>2, <4>1 DEF PurgesExpiry, HalfDone, Lookups
      <4>3. QED
        BY <3>2, <4>2 DEF PurgesExpiry
    <3>3. CASE StoresExpiry(t)
      <4>1. cache[k0] # Nothing
        BY <3>3 DEF StoresExpiry, HalfDone
      <4>2. QED
        BY <3>3, <4>1 DEF StoresExpiry
    <3>4. CASE Deletes(t)
      BY <3>4 DEF Deletes
    <3>5. CASE DeletesExpiry(t)
      <4>1. cache[k0] = Nothing
        BY <3>5 DEF DeletesExpiry, HalfDone
      <4>2. QED
        BY <3>5, <4>1 DEF DeletesExpiry
    <3>6. CASE Stores(t) /\ ~Refuses(t)
      <4>1. PICK gone \in Culled :
               /\ cache' = [x \in Keys |-> IF x = k0 THEN call[t].value
                                           ELSE IF x \in gone THEN Nothing ELSE cache[x]]
               /\ expire_info' = [x \in Keys |-> IF x \in gone THEN "none"
                                                 ELSE expire_info[x]]
        BY <3>6 DEF Stores
      <4>2. call[t].in \in {"set", "add"} /\ call[t].value # Nothing
            /\ call'[t].step = "halfwritten"
        <5>1. call[t].in \in {"set", "add"} /\ StepTo(t, "halfwritten")
          BY <3>6 DEF Stores
        <5>2. Fits(call[t], pc[t])
          BY DEF InStep
        <5>3. QED
          BY <5>1, <5>2 DEF Fits
      <4>3. cache'[k0] # Nothing
        BY <2>1, <4>1, <4>2
      <4>4. ASSUME NEW k \in Keys, k # k0
            PROVE  cache'[k] = Nothing <=> expire_info'[k] = "none"
        <5>1. cache[k] = Nothing <=> expire_info[k] = "none"
          BY <2>3, <4>4
        <5>2. /\ cache'[k] = (IF k \in gone THEN Nothing ELSE cache[k])
              /\ expire_info'[k] = (IF k \in gone THEN "none" ELSE expire_info[k])
          BY <4>1, <4>4
        <5>3. QED
          BY <5>1, <5>2
      <4>5. QED
        BY <4>2, <4>3, <4>4
    <3>7. QED
      BY <1>2, <3>1, <3>2, <3>3, <3>4, <3>5, <3>6 DEF Writes
  <2>6. QED
    BY <2>1, <2>2, <2>5 DEF Paired, HalfDone, Half
<1>3. ASSUME NEW k \in Keys, Expires(k) PROVE Paired' /\ HalfDone'
  BY <1>3 DEF Expires, Paired, HalfDone, Half, lock, vars, CacheTypeOK
<1>4. QED
  BY <1>1, <1>2, <1>3, Cases, ReadsOrWrites

LEMMA StepToIs ==
    ASSUME CacheTypeOK, NEW t \in Threads, NEW s, StepTo(t, s)
    PROVE  /\ call'[t].step = s /\ call'[t].key = call[t].key
           /\ call'[t].in = call[t].in /\ call'[t].op = call[t].op
<1>1. call'[t] = [call[t] EXCEPT !.step = s]
  BY DEF StepTo, CacheTypeOK
<1>2. call[t] \in [op : AllCalls, in : Lookups \cup Updates, key : Keys,
                   value : Values \cup {Nothing}, step : Steps] \/ call[t] = NoCall
  BY DEF CacheTypeOK, CallType
<1>3. QED
  BY <1>1, <1>2 DEF NoCall

LEMMA CallsIs ==
    ASSUME CacheTypeOK, NEW t \in Threads, NEW m, NEW v, Calls(t, m, v), call[t] # NoCall
    PROVE  /\ call'[t].step = "enter" /\ call'[t].key = call[t].key
           /\ call'[t].in = m /\ call'[t].op = call[t].op
<1>1. call'[t] = [call[t] EXCEPT !.in = m, !.value = v, !.step = "enter"]
  BY DEF Calls, CacheTypeOK
<1>2. QED
  BY <1>1, InCall

\* What a call that returns becomes.
LEMMA ReturnsIs ==
    ASSUME CacheTypeOK, NEW t \in Threads, Returns(t), call[t] # NoCall
    PROVE  \/ call'[t] = NoCall
           \/ /\ call'[t].step = "enter" /\ call'[t].key = call[t].key
              /\ call'[t].op = call[t].op
              /\ \/ call'[t].in = "set"
                 \/ call'[t].in = "get" /\ call[t].in = "has_key" /\ call[t].step = "found"
                    /\ call[t].op = "_cached"
<1>1. CASE Ends(t)
  BY <1>1 DEF Ends, CacheTypeOK
<1>2. ASSUME NEW v, Calls(t, "set", v)
      PROVE  call'[t].step = "enter" /\ call'[t].key = call[t].key
             /\ call'[t].op = call[t].op /\ call'[t].in = "set"
  BY <1>2, CallsIs
<1>3. ASSUME Calls(t, "get", Nothing)
      PROVE  call'[t].step = "enter" /\ call'[t].key = call[t].key
             /\ call'[t].op = call[t].op /\ call'[t].in = "get"
  BY <1>3, CallsIs
<1>4. QED
  BY <1>1, <1>2, <1>3 DEF Returns

\* The acting thread's effect on another: its call stays, and its entry does
\* when it is a reader.
LEMMA FetchingKept ==
    ASSUME CacheInv, CacheNext
    PROVE  FetchesWhatIsHeld' /\ ReaderFindsValue'
<1> USE DEF CacheInv
<1>1. ASSUME NEW t \in Threads, Calling(t) \/ ThreadStep(t), NEW u \in Threads
      PROVE  /\ pc'[u] = "reading" /\ call'[u].step = "fetch" => cache'[call'[u].key] # Nothing
             /\ call'[u].step # "KeyError"
  <2>0. call'[t] = NoCall \/ call'[t].key \in Keys
    BY TypesKept DEF CacheTypeOK, CallType
  <2>1. CASE u # t
    <3>1. pc'[u] = pc[u] /\ call'[u] = call[u]
      BY <1>1, <2>1, OthersStay DEF Calling, IInv
    <3>2. pc[u] = "reading" => UNCHANGED data
      <4>1. pc[u] = "reading" => pc[t] # "writing"
        BY <2>1, Alone
      <4>2. QED
        BY <1>1, <4>1, WritersChange, CallingKeepsData
    <3>3. QED
      BY <3>1, <3>2 DEF FetchesWhatIsHeld, ReaderFindsValue, data
  <2>2. CASE u = t /\ LooksUp(t)
    <3>1. call[t] # NoCall /\ pc[t] = "reading"
      BY <2>2 DEF LooksUp, Inside, InStep, Fits
    <3>2. StepTo(t, Finds(call[t].in, expire_info[call[t].key])) /\ UNCHANGED data
      BY <2>2 DEF LooksUp
    <3>3. /\ call[t] \in [op : AllCalls, in : Lookups \cup Updates, key : Keys,
                          value : Values \cup {Nothing}, step : Steps]
          /\ expire_info[call[t].key] \in {"none", "fresh", "expired"}
      BY <3>1, InCall
    <3>4. /\ call'[t].key = call[t].key
          /\ call'[t].step = Finds(call[t].in, expire_info[call[t].key])
      BY <3>2, StepToIs
    <3>5. cache[call[t].key] = Nothing <=> expire_info[call[t].key] = "none"
      BY <3>1, <3>3, SeenPaired DEF Half
    <3>6. call'[t].step = "fetch" => expire_info[call[t].key] # "none"
      BY <3>3, <3>4 DEF Finds, WhenServed
    <3>7. call'[t].step # "KeyError"
      BY <3>3, <3>4 DEF Finds, WhenServed
    <3>8. QED
      BY <2>2, <3>2, <3>4, <3>5, <3>6, <3>7 DEF data
  <2>3. CASE u = t /\ Fetches(t)
    <3>1. call[t] # NoCall /\ pc[t] = "reading"
      BY <2>3 DEF Fetches, Inside, InStep, Fits
    <3>2. call[t].key \in Held
      BY <2>3, <3>1, InCall DEF Fetches, Inside, FetchesWhatIsHeld, Held
    <3>3. call'[t].step = "found"
      BY <2>3, <3>2 DEF Fetches, CacheTypeOK
    <3>4. QED
      BY <2>3, <3>3
  <2>4. CASE u = t /\ ~LooksUp(t) /\ ~Fetches(t)
    <3>1. call'[t].step \notin {"fetch", "KeyError"} \/ pc'[t] # "reading"
      <4>1. CASE Writes(t)
        BY <4>1, WritesInside
      <4>2. CASE Reads(t)
        BY <2>4, <4>2 DEF Reads, Calling, Begins, Enters, ReaderEnters, WriterEnters, Passes,
           ReaderPasses, WriterPasses, LeavesReaders, EntersToPurge, LeavesWriters,
           ReaderLeaves, WriterLeaves, Inside, Goto, InStep, Fits, lock, vars, IInv, TypeOK, StepTo
      <4>3. QED
        BY <1>1, <4>1, <4>2, ReadsOrWrites
    <3>2. call'[t].step # "KeyError"
      <4>1. CASE Calling(t)
        BY <4>1 DEF Calling, Begins, CacheTypeOK
      <4>2. CASE LeavesReaders(t) \/ LeavesWriters(t)
        <5>1. call[t] # NoCall
          BY <4>2 DEF LeavesReaders, LeavesWriters, ReaderLeaves, WriterLeaves, Goto, InStep, Fits
        <5>2. Returns(t) \/ UNCHANGED call
          BY <4>2 DEF LeavesReaders, LeavesWriters
        <5>3. CASE Returns(t)
          BY <5>1, <5>3, ReturnsIs DEF NoCall
        <5>4. QED
          BY <5>2, <5>3 DEF ReaderFindsValue
      <4>3. CASE Passes(t) \/ EntersToPurge(t)
        BY <4>3 DEF Passes, EntersToPurge, ReaderFindsValue
      <4>4. CASE Enters(t) \/ Purges(t) \/ PurgesExpiry(t) \/ Stores(t) \/ StoresExpiry(t)
                 \/ Deletes(t) \/ DeletesExpiry(t)
        <5>1. PICK s \in {"read", "write", "halfpurged", "missed", "halfwritten", "done"} :
                 StepTo(t, s)
          BY <4>4 DEF Enters, Purges, PurgesExpiry, Stores, StoresExpiry, Deletes, DeletesExpiry
        <5>2. QED
          BY <5>1, StepToIs
      <4>5. QED
        BY <1>1, <2>4, <4>1, <4>2, <4>3, <4>4 DEF ThreadStep
    <3>3. QED
      BY <2>4, <3>1, <3>2
  <2>5. QED
    BY <2>1, <2>2, <2>3, <2>4
<1>2. ASSUME NEW k \in Keys, Expires(k)
      PROVE  FetchesWhatIsHeld' /\ ReaderFindsValue'
  BY <1>2 DEF Expires, FetchesWhatIsHeld, ReaderFindsValue, lock, vars
<1>3. QED
  BY <1>1, <1>2, Cases DEF FetchesWhatIsHeld, ReaderFindsValue

LEMMA AddOne ==
    ASSUME NEW S, IsFiniteSet(S), NEW x
    PROVE  Cardinality(S \cup {x}) <= Cardinality(S) + 1
<1>1. Cardinality(S) \in Nat
  BY FS_CardinalityType
<1>2. Cardinality(S \cup {x}) = IF x \in S THEN Cardinality(S) ELSE Cardinality(S) + 1
  BY FS_AddElement
<1>3. QED
  BY <1>1, <1>2

\* Culling a full cache makes room for one.
LEMMA CullMakesRoom ==
    ASSUME CacheInv, NEW gone \in Culled, NEW k \in Keys
    PROVE  Cardinality((Held \ gone) \cup {k}) <= MaxEntries
<1> USE CacheAssumption
<1>1. IsFiniteSet(Held) /\ Cardinality(Held) \in Nat /\ Cardinality(Held) <= MaxEntries
  BY FS_Subset, FS_CardinalityType DEF Held, CacheInv, Bounded
<1>2. gone \subseteq Held
  BY DEF Culled
<1>3. IsFiniteSet(Held \ gone) /\ Cardinality(Held \ gone) \in Nat
      /\ Cardinality(Held \ gone) <= Cardinality(Held)
  BY <1>1, FS_Subset, FS_CardinalityType
<1>4. Cardinality(Held \ gone) < MaxEntries
  <2>1. CASE ~Full
    BY <1>1, <1>3, <2>1 DEF Full
  <2>2. CASE Full
    <3>1. Cardinality(Held) > 0
      BY <1>1, <2>2 DEF Full
    <3>2. Doomed(Cardinality(Held)) > 0
      <4> DEFINE n == Cardinality(Held)
      <4>1. CASE CullFrequency = 0
        BY <3>1, <4>1 DEF Doomed
      <4>2. CASE CullFrequency # 0
        <5>1. n \in Nat /\ n > 0 /\ CullFrequency \in Nat /\ CullFrequency > 0
          BY <1>1, <3>1, <4>2
        <5> HIDE DEF n
        <5>2. \A a, b \in Nat : b > 0 /\ a >= b => a \div b > 0
          BY SMTT(30)
        <5>3a. n + CullFrequency - 1 \in Nat /\ n + CullFrequency - 1 >= CullFrequency
          BY <5>1
        <5>3. QED
          BY <4>2, <5>1, <5>2, <5>3a DEF Doomed, n
      <4>3. QED
        BY <4>1, <4>2
    <3>3. Cardinality(gone) > 0
      BY <2>2, <3>2 DEF Culled
    <3>4. gone # {}
      BY <3>3, FS_EmptySet
    <3>5. Held \ gone # Held
      BY <1>2, <3>4
    <3>6. Cardinality(Held \ gone) < Cardinality(Held)
      <4>1. Held \ gone \in SUBSET Held
        OBVIOUS
      <4>2. Cardinality(Held \ gone) # Cardinality(Held)
        BY <1>1, <3>5, <4>1, FS_Subset
      <4>3. QED
        BY <1>1, <1>3, <4>2
    <3>7. QED
      BY <1>1, <1>3, <3>6
  <2>3. QED
    BY <2>1, <2>2
<1>5. Cardinality((Held \ gone) \cup {k}) <= Cardinality(Held \ gone) + 1
  BY <1>3, AddOne
<1>6. IsFiniteSet((Held \ gone) \cup {k}) /\ Cardinality((Held \ gone) \cup {k}) \in Nat
  BY <1>3, FS_AddElement, FS_CardinalityType
<1>7. QED
  BY <1>3, <1>4, <1>5, <1>6

LEMMA BoundedKept ==
    ASSUME CacheInv, CacheNext PROVE Bounded'
<1> USE DEF CacheInv
<1>f. IsFiniteSet(Held) /\ Cardinality(Held) \in Nat /\ MaxEntries \in Nat
  BY FS_Subset, FS_CardinalityType, CacheAssumption DEF Held
<1>s. ASSUME Held' \subseteq Held PROVE Bounded'
  <2>1. Cardinality(Held') \in Nat /\ Cardinality(Held') <= Cardinality(Held)
    BY <1>f, <1>s, FS_Subset, FS_CardinalityType
  <2>2. QED
    BY <1>f, <2>1 DEF Bounded
<1>1. ASSUME NEW t \in Threads, Reads(t) PROVE Bounded'
  <2>1. Reads(t) => cache' = cache
    BY DEF Reads, Calling, Begins, Enters, Passes, LooksUp, Fetches, LeavesReaders,
       EntersToPurge, LeavesWriters, data
  <2>2. QED
    BY <1>1, <1>s, <2>1 DEF Held
<1>2. ASSUME NEW t \in Threads, Writes(t) PROVE Bounded'
  <2>1. call[t].key \in Keys
    BY <1>2, WritesInside
  <2>2. CASE Stores(t) /\ ~Refuses(t)
    <3>1. PICK gone \in Culled :
             cache' = [x \in Keys |-> IF x = call[t].key THEN call[t].value
                                      ELSE IF x \in gone THEN Nothing ELSE cache[x]]
      BY <2>2 DEF Stores
    <3>2. Held' \subseteq (Held \ gone) \cup {call[t].key}
      BY <3>1 DEF Held
    <3>3. Cardinality((Held \ gone) \cup {call[t].key}) <= MaxEntries
      BY <2>1, CullMakesRoom
    <3>4. IsFiniteSet((Held \ gone) \cup {call[t].key})
      BY <1>f, FS_Subset, FS_AddElement
    <3>5. Cardinality(Held') <= Cardinality((Held \ gone) \cup {call[t].key})
          /\ Cardinality(Held') \in Nat
      BY <3>2, <3>4, FS_Subset, FS_CardinalityType
    <3>6. Cardinality((Held \ gone) \cup {call[t].key}) \in Nat
      BY <3>4, FS_CardinalityType
    <3>7. QED
      BY <1>f, <3>3, <3>5, <3>6 DEF Bounded
  <2>3. CASE Purges(t) \/ Deletes(t)
    BY <1>s, <2>3 DEF Purges, Deletes, Removes, Held, CacheTypeOK
  <2>4. CASE PurgesExpiry(t) \/ StoresExpiry(t) \/ DeletesExpiry(t)
    BY <1>s, <2>4 DEF PurgesExpiry, StoresExpiry, DeletesExpiry, Held
  <2>5. QED
    BY <1>2, <2>2, <2>3, <2>4 DEF Writes
<1>3. ASSUME NEW k \in Keys, Expires(k) PROVE Bounded'
  BY <1>s, <1>3 DEF Expires, Held
<1>4. QED
  BY <1>1, <1>2, <1>3, Cases, ReadsOrWrites

\* What is promised to a call, and what becomes of it.
PromiseHolds(c, isKept) ==
    /\ Promised(c) /\ isKept /\ c.step \in {"found", "enter", "read"}
       /\ (c.in = "get" => c.step # "found") => Served(c.key)
    /\ c.op = "_cached" /\ c.in = "get" /\ c.step \in {"missed", "purge", "halfpurged"}
       => ~isKept

LEMMA PromiseKept ==
    ASSUME CacheInv, CacheNext, NEW u \in Threads
    PROVE  PromiseHolds(call[u], kept[u])'
<1> USE DEF CacheInv
<1> SUFFICES ASSUME Promised(call'[u]), kept'[u]
             PROVE  PromiseHolds(call[u], kept[u])'
  BY DEF PromiseHolds, Promised
<1>k. /\ Promised(call[u]) => kept[u]
      /\ Served(call[u].key) /\ call'[u].key = call[u].key => Served(call[u].key)'
  BY DEF CacheNext, Watches, Served
<1>h. PromiseHolds(call[u], kept[u])
  BY DEF PromiseHolds, KeptIsServed, NoneOnlyWhenLost
<1>1. CASE call'[u] = call[u]
  BY <1>1, <1>k, <1>h DEF PromiseHolds, Served
<1>2. CASE call'[u] # call[u]
  <2>0. Calling(u) \/ ThreadStep(u)
    <3>1. ASSUME NEW t \in Threads, Calling(t) \/ ThreadStep(t), t # u PROVE FALSE
      BY <1>2, <3>1, OthersStay DEF Calling, IInv
    <3>2. ASSUME NEW k \in Keys, Expires(k) PROVE FALSE
      BY <1>2, <3>2 DEF Expires
    <3>3. QED
      BY <3>1, <3>2, Cases
  <2>1. CASE Calling(u)
    <3>1. call'[u].step = "enter" /\ call'[u].op = "_cached" => call'[u].in = "has_key"
      BY <2>1 DEF Calling, Begins, CacheTypeOK
    <3>2. call'[u].step = "enter"
      BY <2>1 DEF Calling, Begins, CacheTypeOK
    <3>3. QED
      BY <3>1, <3>2 DEF Promised
  <2>2. CASE Enters(u)
    <3>1. call[u].step = "enter" /\ UNCHANGED data
      BY <2>2 DEF Enters, Inside
    <3>2. PICK s \in {"read", "write"} : StepTo(u, s) /\ (s = "read" => call[u].in \in Lookups)
                                         /\ (s = "write" => call[u].in \in Updates)
      BY <2>2 DEF Enters
    <3>3. call'[u].step = s /\ call'[u].key = call[u].key /\ call'[u].in = call[u].in
          /\ call'[u].op = call[u].op
      BY <3>2, StepToIs
    <3>4. call[u].in = "get"
      BY <3>2, <3>3, TypesKept DEF Promised, InStep, Fits, Updates
    <3>5. Promised(call[u]) /\ Served(call[u].key)
      BY <1>k, <1>h, <3>1, <3>3, <3>4 DEF Promised, PromiseHolds
    <3>6. QED
      BY <1>k, <3>2, <3>3, <3>5 DEF PromiseHolds, Served
  <2>3. CASE LooksUp(u)
    <3> DEFINE info == expire_info[call[u].key]
    <3>1. call[u].step = "read" /\ pc[u] = "reading" /\ UNCHANGED data /\ call[u] # NoCall
      BY <2>3 DEF LooksUp, Inside, InStep, Fits
    <3>2. call[u].key \in Keys /\ info \in {"none", "fresh", "expired"}
      BY <3>1, InCall
    <3>3. call'[u].step = Finds(call[u].in, info) /\ call'[u].key = call[u].key
          /\ call'[u].in = call[u].in /\ call'[u].op = call[u].op
      BY <2>3, StepToIs DEF LooksUp
    <3>4. CASE call[u].in = "get"
      <4>1. Served(call[u].key)
        BY <1>k, <1>h, <3>1, <3>3, <3>4 DEF Promised, PromiseHolds
      <4>2. call'[u].step = "fetch"
        BY <3>3, <3>4, <4>1 DEF Served, Finds, WhenServed
      <4>3. QED
        BY <4>2 DEF PromiseHolds
    <3>5. CASE call[u].in # "get"
      <4>1. call'[u].step = "found"
        BY <3>3, <3>5, TypesKept DEF Promised, InStep, Fits
      <4>2. info = "fresh"
        BY <3>2, <3>3, <4>1 DEF Finds, WhenServed
      <4>3. cache[call[u].key] # Nothing
        BY <3>1, <3>2, <4>2, SeenPaired DEF Half
      <4>4. Served(call[u].key)'
        BY <3>1, <3>3, <4>2, <4>3 DEF Served, data
      <4>5. QED
        BY <3>3, <3>5, <4>1, <4>4 DEF PromiseHolds, Served
    <3>6. QED
      BY <3>4, <3>5
  <2>4. CASE Fetches(u)
    <3>1. call[u].step = "fetch" /\ call[u].in = "get"
      BY <2>4 DEF Fetches, Inside, InStep, Fits
    <3>2. call'[u].in = call[u].in /\ call'[u].step \in {"found", "KeyError"}
      <4>1. call[u] # NoCall
        BY <3>1 DEF NoCall
      <4>2. QED
        BY <2>4, <4>1, InCall DEF Fetches, CacheTypeOK
    <3>3. QED
      BY <3>1, <3>2 DEF PromiseHolds
  <2>5. CASE Purges(u) \/ PurgesExpiry(u)
    <3>1. call[u].step \in {"purge", "halfpurged"}
      BY <2>5 DEF Purges, PurgesExpiry, Inside
    <3>2. PICK s \in {"halfpurged", "missed"} : StepTo(u, s)
      BY <2>5 DEF Purges, PurgesExpiry
    <3>3. call'[u].step = s /\ call'[u].in = call[u].in /\ call'[u].op = call[u].op
      BY <3>2, StepToIs
    <3>4. call[u].in = "get" /\ call[u].op = "_cached"
      <4>1. call[u].in \in Lookups
        BY <3>1 DEF InStep, Fits
      <4>2. QED
        BY <3>2, <3>3, <4>1 DEF Promised, Lookups
    <3>5. QED
      BY <1>k, <1>h, <3>1, <3>4 DEF PromiseHolds, Promised
  <2>6. CASE Stores(u) \/ StoresExpiry(u) \/ Deletes(u) \/ DeletesExpiry(u)
    <3>1. call[u].in \in Updates
      BY <2>6 DEF Stores, StoresExpiry, Deletes, DeletesExpiry, Updates
    <3>2. PICK s \in {"halfwritten", "done"} : StepTo(u, s)
      BY <2>6 DEF Stores, StoresExpiry, Deletes, DeletesExpiry
    <3>3. call'[u].in = call[u].in /\ call'[u].op = call[u].op
      BY <3>2, StepToIs
    <3>4. QED
      BY <3>1, <3>3, TypesKept DEF Promised, Updates, InStep, Fits
  <2>7. CASE LeavesReaders(u) \/ LeavesWriters(u)
    <3>1. Returns(u) /\ UNCHANGED data /\ call[u] # NoCall
      BY <1>2, <2>7 DEF LeavesReaders, LeavesWriters, ReaderLeaves, WriterLeaves, Goto,
         InStep, Fits
    <3>2. /\ call'[u].step = "enter" /\ call'[u].key = call[u].key
          /\ call'[u].in = "get" /\ call[u].in = "has_key" /\ call[u].step = "found"
          /\ call[u].op = "_cached"
      BY <3>1, ReturnsIs DEF Promised, NoCall
    <3>3. Served(call[u].key)
      BY <1>k, <1>h, <3>2 DEF Promised, PromiseHolds
    <3>4. QED
      BY <1>k, <3>2, <3>3 DEF PromiseHolds, Served
  <2>8. CASE Passes(u) \/ EntersToPurge(u)
    BY <1>2, <2>8 DEF Passes, EntersToPurge
  <2>9. QED
    BY <2>0, <2>1, <2>2, <2>3, <2>4, <2>5, <2>6, <2>7, <2>8 DEF ThreadStep
<1>3. QED
  BY <1>1, <1>2

LEMMA CacheNextInv == CacheInv /\ [CacheNext]_cacheVars => CacheInv'
<1> SUFFICES ASSUME CacheInv, [CacheNext]_cacheVars PROVE CacheInv'
  OBVIOUS
<1>1. CASE CacheNext
  <2>1. IInv'
    BY <1>1, LockStep, NextIInv DEF CacheInv
  <2>2. KeptIsServed' /\ NoneOnlyWhenLost'
    BY <1>1, PromiseKept DEF PromiseHolds, KeptIsServed, NoneOnlyWhenLost
  <2>3. QED
    BY <1>1, <2>1, <2>2, TypesKept, PairedKept, FetchingKept, BoundedKept DEF CacheInv
<1>2. CASE UNCHANGED cacheVars
  BY <1>2 DEF cacheVars, lock, data, vars, counters, CacheInv, IInv, TypeOK, Accounting,
     AdmissionExclusive, NoLostWakeup, Count, At, CacheTypeOK, InStep, Paired, HalfDone, Half,
     FetchesWhatIsHeld, ReaderFindsValue, Bounded, Held, KeptIsServed, Served, NoneOnlyWhenLost
<1>3. QED
  BY <1>1, <1>2

THEOREM CacheInvariant == CacheSpec => []CacheInv
BY CacheInitInv, CacheNextInv, PTL DEF CacheSpec

(* The threads of the cache use the lock as it is meant to be used, so that *)
(* every theorem about the lock is one about the cache.                    *)
THEOREM UsesTheLock == CacheSpec => Spec
<1>1. CacheInit => Init
  BY DEF CacheInit
<1>2. [CacheNext]_cacheVars => [Next]_vars
  BY LockStep DEF cacheVars, lock, vars
<1>3. QED
  BY <1>1, <1>2, PTL DEF CacheSpec, Spec

(* No lookup raises KeyError (cache.py:200): what an unexpired key stands  *)
(* for is there when the reader fetches it.                                *)
THEOREM NoKeyError == CacheSpec => []ReaderFindsValue
<1>1. CacheInv => ReaderFindsValue
  BY DEF CacheInv
<1>2. QED
  BY <1>1, CacheInvariant, PTL

(* The cache stays within _max_entries, whatever the culling frequency.    *)
THEOREM Capacity == CacheSpec => []Bounded
<1>1. CacheInv => Bounded
  BY DEF CacheInv
<1>2. QED
  BY <1>1, CacheInvariant, PTL

(* _cached answers None only for a key that was lost after has_key.        *)
THEOREM CachedAnswers == CacheSpec => []NoneOnlyWhenLost
<1>1. CacheInv => NoneOnlyWhenLost
  BY DEF CacheInv
<1>2. QED
  BY <1>1, CacheInvariant, PTL
=============================================================================
