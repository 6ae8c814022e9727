------------------------------- MODULE RWLock -------------------------------
(***************************************************************************)
(* The reader-writer lock "with preference to writers" that guards every   *)
(* LocMemCache (agent/mmc/support/cache.py, class RWLock).                 *)
(*                                                                         *)
(* Each method is a section run under self.mutex, one action here, and the *)
(* two *_enters methods then block on a semaphore outside of the mutex,    *)
(* which is a second action.  A thread that blocks owns nothing yet: the   *)
(* token it waits for may be taken by another thread blocked on the same   *)
(* semaphore, for threading.Semaphore wakes no particular waiter.          *)
(***************************************************************************)
EXTENDS Integers, FiniteSets

CONSTANT Threads
ASSUME ThreadsFinite == IsFiniteSet(Threads)

VARIABLES
    pc,               \* where each thread is: see Places
    active_readers, active_writers, waiting_readers, waiting_writers,
    can_read,         \* value of the semaphore can_read
    can_write         \* value of the semaphore can_write

counters == <<active_readers, active_writers, waiting_readers, waiting_writers>>
vars == <<pc, counters, can_read, can_write>>

\* "rblock"/"wblock": left the mutex of *_enters, not yet past the semaphore.
Places == {"idle", "rblock", "reading", "wblock", "writing"}

At(place) == {t \in Threads : pc[t] = place}
Count(place) == Cardinality(At(place))

Goto(t, from, to) ==
    /\ pc[t] = from
    /\ pc' = [pc EXCEPT ![t] = to]

Init ==
    /\ pc = [t \in Threads |-> "idle"]
    /\ active_readers = 0 /\ active_writers = 0
    /\ waiting_readers = 0 /\ waiting_writers = 0
    /\ can_read = 0 /\ can_write = 0
-----------------------------------------------------------------------------
(***************************************************************************)
(* Plausible slips in the methods, each named for what it forgets: the     *)
(* operators ending in an underscore and a word are not the code's.        *)
(***************************************************************************)
MayRead_IgnoringWaiters == active_writers = 0

\* The condition under which reader_enters admits the caller at once.
MayRead == active_writers = 0 /\ waiting_writers = 0

MayWrite_IgnoringReaders == MayRead

\* The condition under which writer_enters admits the caller at once.
MayWrite == MayRead /\ active_readers = 0

ReaderEnters(t) ==
    /\ Goto(t, "idle", "rblock")
    /\ \/ /\ MayRead
          /\ active_readers' = active_readers + 1
          /\ can_read' = can_read + 1
          /\ UNCHANGED waiting_readers
       \/ /\ ~MayRead
          /\ waiting_readers' = waiting_readers + 1
          /\ UNCHANGED <<active_readers, can_read>>
    /\ UNCHANGED <<active_writers, waiting_writers, can_write>>

\* self.can_read.acquire() returns.
ReaderPasses(t) ==
    /\ Goto(t, "rblock", "reading")
    /\ can_read > 0
    /\ can_read' = can_read - 1
    /\ UNCHANGED <<counters, can_write>>

\* The lock goes to one of the waiting writers.
PassToWriter ==
    /\ waiting_writers' = waiting_writers - 1
    /\ can_write' = can_write + 1

ReaderLeaves_KeepingTheLock(t) ==
    /\ Goto(t, "reading", "idle")
    /\ active_readers' = active_readers - 1
    /\ UNCHANGED <<active_writers, waiting_writers, can_write, waiting_readers, can_read>>

ReaderLeaves(t) ==
    /\ Goto(t, "reading", "idle")
    /\ active_readers' = active_readers - 1
    /\ \/ /\ active_readers = 1 /\ waiting_writers # 0
          /\ active_writers' = active_writers + 1
          /\ PassToWriter
       \/ /\ ~(active_readers = 1 /\ waiting_writers # 0)
          /\ UNCHANGED <<active_writers, waiting_writers, can_write>>
    /\ UNCHANGED <<waiting_readers, can_read>>

WriterEnters(t) ==
    /\ Goto(t, "idle", "wblock")
    /\ \/ /\ MayWrite
          /\ active_writers' = active_writers + 1
          /\ can_write' = can_write + 1
          /\ UNCHANGED waiting_writers
       \/ /\ ~MayWrite
          /\ waiting_writers' = waiting_writers + 1
          /\ UNCHANGED <<active_writers, can_write>>
    /\ UNCHANGED <<active_readers, waiting_readers, can_read>>

\* self.can_write.acquire() returns.
WriterPasses(t) ==
    /\ Goto(t, "wblock", "writing")
    /\ can_write > 0
    /\ can_write' = can_write - 1
    /\ UNCHANGED <<counters, can_read>>

WakeReaders_KeepingCount ==
    /\ active_readers' = active_readers + waiting_readers
    /\ can_read' = can_read + waiting_readers
    /\ UNCHANGED waiting_readers

WakeReaders_OnlyOne ==
    /\ active_readers' = active_readers + (IF waiting_readers > 0 THEN 1 ELSE 0)
    /\ can_read' = can_read + (IF waiting_readers > 0 THEN 1 ELSE 0)
    /\ waiting_readers' = 0

\* Every waiting reader is admitted and given a token.
WakeReaders ==
    /\ active_readers' = active_readers + waiting_readers
    /\ can_read' = can_read + waiting_readers
    /\ waiting_readers' = 0

\* The next writer first; the waiting readers only when there is none.
WriterLeaves(t) ==
    /\ Goto(t, "writing", "idle")
    /\ \/ /\ waiting_writers # 0
          /\ PassToWriter
          /\ UNCHANGED <<active_writers, active_readers, waiting_readers, can_read>>
       \/ /\ waiting_writers = 0
          /\ active_writers' = active_writers - 1
          /\ WakeReaders
          /\ UNCHANGED <<waiting_writers, can_write>>

Next == \E t \in Threads :
    \/ ReaderEnters(t) \/ ReaderPasses(t) \/ ReaderLeaves(t)
    \/ WriterEnters(t) \/ WriterPasses(t) \/ WriterLeaves(t)

Spec == Init /\ [][Next]_vars

(***************************************************************************)
(* The scheduler runs a thread that can run, and every section the lock    *)
(* protects ends (the cache leaves in a finally clause), so passing an     *)
(* open semaphore and leaving are weakly fair.  Entering is the callers'   *)
(* choice and carries no fairness.                                         *)
(***************************************************************************)
Fairness == \A t \in Threads :
    /\ WF_vars(ReaderPasses(t)) /\ WF_vars(ReaderLeaves(t))
    /\ WF_vars(WriterPasses(t)) /\ WF_vars(WriterLeaves(t))

FairSpec == Spec /\ Fairness
-----------------------------------------------------------------------------
TypeOK ==
    /\ pc \in [Threads -> Places]
    /\ active_readers \in Nat /\ active_writers \in Nat
    /\ waiting_readers \in Nat /\ waiting_writers \in Nat
    /\ can_read \in Nat /\ can_write \in Nat

(* A thread past writer_enters is alone among those past an enters: the    *)
(* docstring's "Writers get an exclusive access" (cache.py:391), in spite  *)
(* of the semaphores being taken outside of the mutex and of stolen tokens.*)
MutualExclusion ==
    \A t, u \in Threads :
        (pc[t] = "writing" /\ u # t) => pc[u] \notin {"reading", "writing"}

(* The counters and the semaphores never drift from the threads: each      *)
(* admitted thread is past its semaphore or has a token there, and each    *)
(* blocked one is counted as waiting or has a token (reader_leaves and     *)
(* writer_leaves move counts and tokens together).                         *)
Accounting ==
    /\ active_readers = Count("reading") + can_read
    /\ active_writers = Count("writing") + can_write
    /\ waiting_readers + can_read = Count("rblock")
    /\ waiting_writers + can_write = Count("wblock")

(* Admission itself is exclusive: at most one writer admitted, and then no *)
(* reader, whether or not they have passed their semaphore yet.            *)
AdmissionExclusive ==
    /\ active_writers \in {0, 1}
    /\ active_writers = 1 => active_readers = 0

(* No lost wake-up: while a thread is counted as waiting some thread is    *)
(* admitted whose *_leaves will hand the lock on, and readers wait only    *)
(* for a writer.                                                           *)
NoLostWakeup ==
    /\ waiting_writers # 0 => active_readers # 0 \/ active_writers # 0
    /\ waiting_readers # 0 => active_writers # 0 \/ waiting_writers # 0

(* The inductive invariant: what the two enters and two leaves preserve.   *)
IInv == TypeOK /\ Accounting /\ AdmissionExclusive /\ NoLostWakeup

(* Preference to writers (cache.py:388): while a writer waits, no method   *)
(* admits another reader.                                                  *)
WriterPreference ==
    [][waiting_writers > 0 => active_readers' <= active_readers]_vars

\* What each thread may do to the data: the refinement mapping.
Mode == [t \in Threads |-> CASE pc[t] = "reading" -> "read"
                             [] pc[t] = "writing" -> "write"
                             [] OTHER -> "out"]

RW == INSTANCE ReadersWriters WITH mode <- Mode

(* The lock is a reader-writer lock to the threads that use it.            *)
Implements == RW!Spec

(* A writer that asks is followed by a writer that writes: readers cannot  *)
(* starve the writers, whatever their number.                              *)
SomeWriterProceeds == At("wblock") # {} ~> At("writing") # {}

(* A blocked reader is followed by a thread that is let in: the lock is    *)
(* never held by nobody while a reader is blocked.                         *)
BlockedReaderSeesProgress ==
    At("rblock") # {} ~> At("reading") \cup At("writing") # {}
=============================================================================
