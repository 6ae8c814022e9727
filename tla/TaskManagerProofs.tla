-------------------------- MODULE TaskManagerProofs --------------------------
(***************************************************************************)
(* Proof of the safety properties of TaskManager, for any numbers of       *)
(* tasks, calls and pending timers, and any set of faults.                 *)
(*                                                                         *)
(* The argument: a task that was added once has one timer, or one          *)
(* execution, or nothing, and whoever waits for it waits exactly as long   *)
(* as it has one of them (Sound); no two tasks share a Deferred, so what   *)
(* is told of one task leaves the others alone (Distinct).                 *)
(***************************************************************************)
EXTENDS TaskManager, TLAPS

Answers == {"none", "raised", "waiting", "callback", "errback"}

\* Told, of a record and the answers.
Silent(r, a) == r.deferred # None => a[r.deferred] = "raised"

\* A task that was added once.
Single(r, a) ==
    /\ r.pending + r.executing <= 1
    /\ r.pending > 0 => r.call
    /\ r.pending + r.executing = 1 => ~Silent(r, a)
    /\ ~r.crashed

Sound(r, a, c) ==
    /\ r \in TaskRecords
    /\ r.pending + r.executing <= MaxPending
    /\ r.call => r.pending > 0
    /\ r.deferred <= c
    /\ r.kind = "scheduled" /\ r.running /\ ~Silent(r, a)
       => r.pending > 0 \/ r.executing > 0
    /\ ~r.readded => Single(r, a)

Distinct ==
    \A t, u \in Tasks :
        task[t].deferred = task[u].deferred /\ task[t].deferred # None => t = u

IInv == TypeOK /\ Distinct /\ \A t \in Tasks : Sound(task[t], answer, calls)

LEMMA NoTaskRecord == NoTask \in TaskRecords
BY TasksAssumption DEF NoTask, TaskRecords, Kinds, None

(* What the updates of a record are records of.                            *)
LEMMA StartedRecord ==
    ASSUME NEW k \in Kinds, calls' \in Calls
    PROVE  Started(k) \in TaskRecords
BY NoTaskRecord DEF Started, TaskRecords

LEMMA LaterRecord ==
    ASSUME NEW r \in TaskRecords, r.pending < MaxPending
    PROVE  Later(r) \in TaskRecords
<1>1. r.pending + 1 \in 0..MaxPending
  BY TasksAssumption DEF TaskRecords
<1>2. QED
  BY <1>1 DEF Later, TaskRecords

LEMMA InitInvariant == Init => IInv
<1> SUFFICES ASSUME Init PROVE IInv
  OBVIOUS
<1>1. NoTask \in TaskRecords
  BY NoTaskRecord
<1>2. TypeOK
  BY <1>1, TasksAssumption DEF Init, TypeOK
<1>3. Distinct
  BY DEF Init, Distinct, NoTask
<1>4. Sound(NoTask, answer, calls)
  BY <1>1, TasksAssumption DEF Init, Sound, Single, Silent, NoTask, None
<1>5. QED
  BY <1>2, <1>3, <1>4 DEF Init, IInv
-----------------------------------------------------------------------------
(* A step that gives task t the sound record r, with the Deferred it had,  *)
(* none, or that of a new call, and that leaves alone the answers others   *)
(* wait for.                                                               *)
LEMMA TaskStep ==
    ASSUME IInv, NEW t \in Tasks, NEW r, Becomes(t, r),
           registered' \in Tasks \cup {None}, made' \in 0..MaxTasks,
           calls' \in {calls, calls + 1} \cap (0..MaxCalls), answer' \in [Calls -> Answers],
           \A c \in Calls : c <= calls /\ c # task[t].deferred => answer'[c] = answer[c],
           Sound(r, answer', calls'),
           r.deferred \in {None, task[t].deferred} \/ r.deferred = calls + 1
    PROVE  IInv'
<1>1. r \in TaskRecords /\ \A u \in Tasks : task[u] \in TaskRecords
  BY DEF Sound, IInv
<1>2. calls \in Nat /\ calls' \in Nat /\ calls <= calls'
  BY TasksAssumption DEF IInv, TypeOK
<1>3. task' = [task EXCEPT ![t] = r] /\ task' \in [Tasks -> TaskRecords]
  BY <1>1 DEF Becomes, IInv, TypeOK
<1>4. \A u \in Tasks : task'[u] = IF u = t THEN r ELSE task[u]
  BY <1>3 DEF IInv, TypeOK
<1>5. TypeOK'
  BY <1>3 DEF TypeOK, Answers
<1>6. \A u \in Tasks : task[u].deferred \in Calls \cup {None} /\ task[u].deferred <= calls
  BY <1>1 DEF TaskRecords, IInv, Sound
<1>7. Distinct'
  <2> SUFFICES ASSUME NEW u \in Tasks, NEW v \in Tasks,
                      task'[u].deferred = task'[v].deferred, task'[u].deferred # None
               PROVE  u = v
    BY DEF Distinct
  <2>1. \A x, y \in Tasks : task[x].deferred = task[y].deferred /\ task[x].deferred # None
                            => x = y
    BY DEF IInv, Distinct
  <2>2. \A x \in Tasks : task[x].deferred # calls + 1
    BY <1>2, <1>6, TasksAssumption DEF Calls, None
  <2>3. QED
    BY <1>4, <2>1, <2>2
<1>8. ASSUME NEW u \in Tasks PROVE Sound(task'[u], answer', calls')
  <2>1. CASE u = t
    BY <1>4, <2>1
  <2>2. CASE u # t
    <3>1. task'[u] = task[u] /\ Sound(task[u], answer, calls)
      BY <1>4, <2>2 DEF IInv
    <3>2. task[u].deferred # None => answer'[task[u].deferred] = answer[task[u].deferred]
      BY <1>6, <2>2 DEF IInv, Distinct
    <3>3. Silent(task[u], answer') <=> Silent(task[u], answer)
      BY <3>2 DEF Silent
    <3>4. task[u].deferred <= calls'
      BY <1>2, <1>6, TasksAssumption DEF Calls, None
    <3>5. QED
      BY <3>1, <3>3, <3>4 DEF Sound, Single
  <2>3. QED
    BY <2>1, <2>2
<1>9. QED
  BY <1>5, <1>7, <1>8 DEF IInv
-----------------------------------------------------------------------------
(* addTask where no task has the label.                                    *)
LEMMA MakingStep ==
    ASSUME IInv, \/ \E k \in Kinds : Adds(k)
                 \/ CannotParse \/ CannotSchedule
    PROVE  IInv'
<1>1. /\ made \in 0..MaxTasks /\ made < MaxTasks /\ calls \in 0..MaxCalls
      /\ calls < MaxCalls /\ calls' = calls + 1
      /\ made' = made + 1 /\ registered' = made'
  BY DEF Adds, CannotParse, CannotSchedule, Asked, Made, IInv, TypeOK
<1>2. made' \in Tasks /\ calls' \in Calls /\ made' \in 0..MaxTasks /\ calls' \in 0..MaxCalls
  BY <1>1, TasksAssumption DEF Tasks, Calls
<1>3. PICK how \in {"waiting", "raised"} : answer' = [answer EXCEPT ![calls'] = how]
  BY DEF Adds, CannotParse, CannotSchedule, Asked
<1>4. /\ answer' \in [Calls -> Answers] /\ answer'[calls'] = how
      /\ \A c \in Calls : c <= calls => answer'[c] = answer[c]
  BY <1>1, <1>2, <1>3, TasksAssumption DEF IInv, TypeOK, Answers, Calls
<1> DEFINE Result(r) == /\ Becomes(made', r) /\ Sound(r, answer', calls')
                        /\ r.deferred = None \/ r.deferred = calls + 1
<1>5. CASE \E k \in Kinds : Adds(k)
  <2>1. PICK k \in Kinds : Adds(k)
    BY <1>5
  <2> DEFINE r == Later(Started(k))
  <2>2. Becomes(made', r) /\ how = "waiting"
    BY <2>1, <1>2, <1>4, <1>3 DEF Adds, Made, Asked, IInv, TypeOK
  <2>3. Sound(r, answer', calls')
    <3>1. /\ r.kind = k /\ r.running /\ r.call /\ r.pending = 1 /\ r.executing = 0
          /\ r.deferred = calls' /\ ~r.readded /\ ~r.crashed /\ r.schedule \in BOOLEAN
      BY DEF Later, Started, NoTask
    <3>2. r \in TaskRecords
      <4>1. Started(k) \in TaskRecords
        BY <1>2, StartedRecord
      <4>2. Started(k).pending < MaxPending
        BY TasksAssumption DEF Started, NoTask
      <4>3. QED
        BY <4>1, <4>2, LaterRecord
    <3> HIDE DEF r
    <3>3. QED
      BY <3>1, <3>2, <1>1, <1>2, <1>4, <2>2, TasksAssumption
         DEF Sound, Single, Silent, None, Calls
  <2>4. r.deferred = calls + 1
    BY <1>1 DEF Later, Started, NoTask
  <2>5. Result(r)
    BY <2>2, <2>3, <2>4
  <2> HIDE DEF r
  <2>6. QED
    BY <1>1, <1>2, <1>4, <2>5, TaskStep
<1>6. CASE CannotParse
  <2> DEFINE r == [NoTask EXCEPT !.kind = "scheduled"]
  <2>1. Becomes(made', r)
    BY <1>6 DEF CannotParse, Made
  <2>2. Sound(r, answer', calls')
    <3>1. /\ ~r.running /\ ~r.call /\ r.pending = 0 /\ r.executing = 0
          /\ r.deferred = None /\ ~r.readded /\ ~r.crashed
      BY DEF NoTask
    <3>2. r \in TaskRecords
      BY NoTaskRecord DEF TaskRecords, Kinds
    <3> HIDE DEF r
    <3>3. QED
      BY <3>1, <3>2, <1>1, TasksAssumption DEF Sound, Single, Silent, None
  <2>3. r.deferred = None
    BY DEF NoTask
  <2>4. Result(r)
    BY <2>1, <2>2, <2>3
  <2> HIDE DEF r
  <2>5. QED
    BY <1>1, <1>2, <1>4, <2>4, TaskStep
<1>7. CASE CannotSchedule
  <2> DEFINE r == Started("scheduled")
  <2>1. Becomes(made', r) /\ how = "raised"
    BY <1>7, <1>2, <1>4, <1>3 DEF CannotSchedule, Made, Asked, IInv, TypeOK
  <2>2. Sound(r, answer', calls')
    <3>1. /\ r.running /\ ~r.call /\ r.pending = 0 /\ r.executing = 0
          /\ r.deferred = calls' /\ ~r.readded /\ ~r.crashed
      BY DEF Started, NoTask
    <3>2. r \in TaskRecords
      BY <1>2, StartedRecord DEF Kinds
    <3> HIDE DEF r
    <3>3. QED
      BY <3>1, <3>2, <1>1, <1>2, <1>4, <2>1, TasksAssumption
         DEF Sound, Single, Silent, None, Calls
  <2>3. r.deferred = calls + 1
    BY <1>1 DEF Started, NoTask
  <2>4. Result(r)
    BY <2>1, <2>2, <2>3
  <2> HIDE DEF r
  <2>5. QED
    BY <1>1, <1>2, <1>4, <2>4, TaskStep
<1>8. QED
  BY <1>5, <1>6, <1>7
-----------------------------------------------------------------------------
(* What the steps of a task that was made rest on.                         *)
LEMMA TaskFacts ==
    ASSUME IInv, NEW t \in Tasks
    PROVE  /\ task[t] \in TaskRecords /\ Sound(task[t], answer, calls)
           /\ calls \in Nat /\ calls \in 0..MaxCalls /\ made \in 0..MaxTasks
           /\ registered \in Tasks \cup {None}
           /\ answer \in [Calls -> Answers]
           /\ task[t].pending \in Nat /\ task[t].executing \in Nat
           /\ task[t].deferred \in Calls \cup {None}
BY TasksAssumption DEF IInv, TypeOK, TaskRecords, Answers

(* A new call of addTask leaves alone the answers of the earlier ones.     *)
LEMMA AskedFacts ==
    ASSUME IInv, NEW how \in {"waiting", "none"}, Asked(how)
    PROVE  /\ calls' = calls + 1 /\ calls' \in Calls /\ calls' \in 0..MaxCalls
           /\ answer' \in [Calls -> Answers] /\ answer'[calls'] = how
           /\ \A c \in Calls : c <= calls => answer'[c] = answer[c]
<1>1. calls \in 0..MaxCalls /\ answer \in [Calls -> Answers] /\ MaxCalls \in Nat
  BY TasksAssumption DEF IInv, TypeOK, Answers
<1>2. calls' = calls + 1 /\ calls' \in Calls /\ calls' \in 0..MaxCalls
  BY <1>1 DEF Asked, Calls
<1>3. answer' = [answer EXCEPT ![calls'] = how] /\ how \in Answers
  BY DEF Asked, Answers
<1>4. QED
  BY <1>1, <1>2, <1>3 DEF Calls

(* addTask of a DelayedCall that is there.                                 *)
LEMMA AddsDelayedAgainStep ==
    ASSUME IInv, NEW t \in Tasks, AddsDelayedAgain(t)
    PROVE  IInv'
<1> DEFINE s == [task[t] EXCEPT !.running = TRUE, !.deferred = calls', !.readded = TRUE]
           r == Later(s)
<1>1. Becomes(t, r) /\ task[t].kind = "delayed" /\ Roomy(t) /\ Asked("waiting")
      /\ UNCHANGED <<registered, made>>
  BY DEF AddsDelayedAgain
<1>2. /\ calls' = calls + 1 /\ calls' \in Calls /\ calls' \in 0..MaxCalls
      /\ answer' \in [Calls -> Answers]
      /\ \A c \in Calls : c <= calls => answer'[c] = answer[c]
  BY <1>1, AskedFacts
<1>3. s \in TaskRecords /\ s.pending < MaxPending
  <2>1. task[t].pending < MaxPending
    BY <1>1, TaskFacts, TasksAssumption DEF Roomy
  <2>2. task[t] \in TaskRecords
    BY TaskFacts
  <2>3. QED
    BY <1>2, <2>1, <2>2 DEF TaskRecords
<1>4. r \in TaskRecords
  BY <1>3, LaterRecord
<1>5. /\ r.kind = "delayed" /\ r.readded /\ r.deferred = calls'
      /\ r.pending = task[t].pending + 1 /\ r.executing = task[t].executing
  BY <1>1, <1>3, TaskFacts DEF Later, TaskRecords
<1> HIDE DEF r
<1>6. Sound(r, answer', calls')
  BY <1>1, <1>2, <1>4, <1>5, TaskFacts, TasksAssumption DEF Sound, Roomy
<1>7. QED
  BY <1>1, <1>2, <1>5, <1>6, TaskFacts, TaskStep

(* addTask of a ScheduledCall that is there.                               *)
LEMMA AddsScheduledAgainStep ==
    ASSUME IInv, NEW t \in Tasks, AddsScheduledAgain(t)
    PROVE  IInv'
<1> DEFINE s == [task[t] EXCEPT !.readded = TRUE]
           r == IF ~s.call /\ s.schedule THEN Later(s) ELSE s
<1>1. Becomes(t, r) /\ Roomy(t) /\ Asked("none") /\ UNCHANGED <<registered, made>>
  BY DEF AddsScheduledAgain
<1>2. /\ calls' = calls + 1 /\ calls' \in Calls /\ calls' \in 0..MaxCalls
      /\ answer' \in [Calls -> Answers]
      /\ \A c \in Calls : c <= calls => answer'[c] = answer[c]
  BY <1>1, AskedFacts
<1>3. s \in TaskRecords /\ s.pending < MaxPending
  <2>1. task[t].pending < MaxPending
    BY <1>1, TaskFacts, TasksAssumption DEF Roomy
  <2>2. task[t] \in TaskRecords
    BY TaskFacts
  <2>3. QED
    BY <2>1, <2>2 DEF TaskRecords
<1>4. r \in TaskRecords
  BY <1>3, LaterRecord
<1>5. /\ r.kind = task[t].kind /\ r.readded /\ r.deferred = task[t].deferred
      /\ r.running = task[t].running /\ r.executing = task[t].executing
      /\ \/ r.call /\ r.pending = task[t].pending + 1
         \/ r.call = task[t].call /\ r.pending = task[t].pending
  BY <1>3, TaskFacts DEF Later, TaskRecords
<1> HIDE DEF r
<1>6. Silent(r, answer') <=> Silent(task[t], answer)
  BY <1>2, <1>5, TaskFacts DEF Silent, Sound
<1>7. Sound(r, answer', calls')
  <2>1. r.pending + r.executing <= MaxPending
    BY <1>1, <1>5, TaskFacts, TasksAssumption DEF Roomy
  <2>2. (r.call => r.pending > 0) /\ r.deferred <= calls'
    BY <1>2, <1>5, TaskFacts, TasksAssumption DEF Sound, Calls, None
  <2>3. r.kind = "scheduled" /\ r.running /\ ~Silent(r, answer')
        => r.pending > 0 \/ r.executing > 0
    <3>1. task[t].kind = "scheduled" /\ task[t].running /\ ~Silent(task[t], answer)
          => task[t].pending > 0 \/ task[t].executing > 0
      BY TaskFacts DEF Sound
    <3>2. task[t].pending > 0 => r.pending > 0
      BY <1>5, TaskFacts
    <3>3. QED
      BY <1>5, <1>6, <3>1, <3>2
  <2>4. QED
    BY <1>4, <1>5, <2>1, <2>2, <2>3 DEF Sound
<1>8. QED
  BY <1>1, <1>2, <1>5, <1>7, TaskFacts, TaskStep
-----------------------------------------------------------------------------
(* Steps that are no call of addTask and that fire no Deferred.            *)
LEMMA QuietStep ==
    ASSUME IInv, NEW t \in Tasks, NEW r \in TaskRecords, Becomes(t, r),
           registered' \in {registered, None}, UNCHANGED <<made, calls, answer>>,
           r.deferred = task[t].deferred, r.kind = task[t].kind,
           r.readded = task[t].readded, r.crashed = task[t].crashed,
           r.running => task[t].running,
           r.pending + r.executing = task[t].pending + task[t].executing,
           r.call => r.pending > 0, ~r.readded /\ r.pending > 0 => r.call
    PROVE  IInv'
<1>1. Silent(r, answer) <=> Silent(task[t], answer)
  BY DEF Silent
<1>2. r.pending \in Nat /\ r.executing \in Nat
  BY TasksAssumption DEF TaskRecords
<1>3. Sound(r, answer', calls')
  BY <1>1, <1>2, TaskFacts, TasksAssumption DEF Sound, Single
<1>4. QED
  BY <1>3, TaskFacts, TaskStep

(* Steps that fire the Deferred: one timer or execution less.              *)
LEMMA FiringStep ==
    ASSUME IInv, NEW t \in Tasks, NEW s \in TaskRecords, Becomes(t, Fired(s)),
           NEW how \in {"callback", "errback"}, Tells(task[t], how),
           registered' \in {registered, None}, UNCHANGED <<made, calls>>,
           s.deferred = task[t].deferred, s.readded = task[t].readded,
           s.crashed = task[t].crashed,
           s.pending + s.executing = task[t].pending + task[t].executing - 1,
           s.call => s.pending > 0, ~s.readded => (s.pending > 0 => s.call)
    PROVE  IInv'
<1> DEFINE r == Fired(s)
<1>1. /\ r \in TaskRecords /\ r.deferred = None /\ r.readded = s.readded
      /\ r.call = s.call /\ r.pending = s.pending /\ r.executing = s.executing
      /\ r.crashed = (s.crashed \/ s.deferred = None)
  BY DEF Fired, TaskRecords
<1> HIDE DEF r
<1>2. s.pending \in Nat /\ s.executing \in Nat
  BY TasksAssumption DEF TaskRecords
<1>3. Silent(r, answer')
  BY <1>1 DEF Silent
<1>4. ~s.readded => Single(r, answer')
  <2> SUFFICES ASSUME ~s.readded PROVE Single(r, answer')
    OBVIOUS
  <2>1. Single(task[t], answer)
    BY TaskFacts DEF Sound
  <2>2. task[t].pending + task[t].executing = 1
    BY <1>2, <2>1, TaskFacts DEF Single
  <2>3. task[t].deferred # None
    BY <2>1, <2>2 DEF Single, Silent
  <2>4. ~s.crashed /\ ~r.crashed
    BY <1>1, <2>1, <2>3 DEF Single
  <2>5. r.pending = 0 /\ r.executing = 0
    <3>1. s.pending + s.executing = 0
      BY <1>2, <2>2, TaskFacts
    <3>2. s.pending = 0 /\ s.executing = 0
      BY <1>2, <3>1
    <3>3. QED
      BY <1>1, <3>2
  <2>6. QED
    BY <2>4, <2>5 DEF Single
<1>5. Sound(r, answer', calls')
  <2>1. r.pending + r.executing <= MaxPending
    BY <1>1, <1>2, TaskFacts, TasksAssumption DEF Sound
  <2>2. r.deferred <= calls'
    BY <1>1, TaskFacts DEF None
  <2>3. QED
    BY <1>1, <1>3, <1>4, <2>1, <2>2 DEF Sound
<1>6. /\ answer' \in [Calls -> Answers]
      /\ \A c \in Calls : c # task[t].deferred => answer'[c] = answer[c]
  BY TaskFacts DEF Tells, Answers
<1>7. QED
  BY <1>1, <1>5, <1>6, TaskFacts, TaskStep DEF r
-----------------------------------------------------------------------------
(* stopTask.                                                               *)
LEMMA StopsStep ==
    ASSUME IInv, NEW t \in Tasks, Stops(t)
    PROVE  IInv'
<1> DEFINE r == [task[t] EXCEPT !.running = FALSE]
<1>1. /\ r \in TaskRecords /\ ~r.running /\ r.deferred = task[t].deferred
      /\ r.kind = task[t].kind /\ r.readded = task[t].readded
      /\ r.crashed = task[t].crashed /\ r.call = task[t].call
      /\ r.pending = task[t].pending /\ r.executing = task[t].executing
  BY TaskFacts DEF TaskRecords
<1>2. registered' \in {registered, None} /\ UNCHANGED <<made, calls>>
  BY DEF Stops
<1>3. CASE task[t].call
  <2>1. Becomes(t, Fired(Cancelled(r))) /\ Tells(r, "callback")
    BY <1>1, <1>3 DEF Stops
  <2>2. task[t].pending > 0
    BY <1>3, TaskFacts DEF Sound
  <2> HIDE DEF r
  <2>3. /\ Cancelled(r) \in TaskRecords /\ ~Cancelled(r).call
        /\ Cancelled(r).pending = task[t].pending - 1
        /\ Cancelled(r).executing = task[t].executing
        /\ Cancelled(r).deferred = task[t].deferred
        /\ Cancelled(r).readded = task[t].readded
        /\ Cancelled(r).crashed = task[t].crashed
    <3>1. r.pending - 1 \in 0..MaxPending
      BY <1>1, <2>2, TasksAssumption DEF TaskRecords
    <3>2. QED
      BY <1>1, <3>1 DEF Cancelled, TaskRecords
  <2>4. Tells(task[t], "callback")
    BY <1>1, <2>1 DEF Tells
  <2>5. ~Cancelled(r).readded => (Cancelled(r).pending > 0 => Cancelled(r).call)
    BY <2>2, <2>3, TaskFacts DEF Sound, Single
  <2>6. Cancelled(r).pending + Cancelled(r).executing
          = task[t].pending + task[t].executing - 1
    BY <2>3, TaskFacts
  <2>7. QED
    BY <1>2, <2>1, <2>3, <2>4, <2>5, <2>6, FiringStep
<1>4. CASE ~task[t].call
  <2>1. Becomes(t, r) /\ UNCHANGED answer
    BY <1>1, <1>4 DEF Stops
  <2>2. r.call => r.pending > 0
    BY <1>1, <1>4
  <2>3. ~r.readded /\ r.pending > 0 => r.call
    BY <1>1, TaskFacts DEF Sound, Single
  <2> HIDE DEF r
  <2>4. QED
    BY <1>1, <1>2, <2>1, <2>2, <2>3, QuietStep
<1>5. QED
  BY <1>3, <1>4, <1>1

(* A timer calls the task.                                                 *)
LEMMA CalledStep ==
    ASSUME IInv, NEW t \in Tasks, Called(t)
    PROVE  IInv'
<1> DEFINE r == Executes(task[t])
<1>1. Becomes(t, r) /\ task[t].pending > 0 /\ UNCHANGED <<registered, made, calls, answer>>
  BY DEF Called
<1>2. task[t].pending + task[t].executing <= MaxPending
  BY TaskFacts DEF Sound
<1>3. /\ r \in TaskRecords /\ r.deferred = task[t].deferred /\ r.kind = task[t].kind
      /\ r.readded = task[t].readded /\ r.crashed = task[t].crashed
      /\ r.running = task[t].running /\ ~r.call
      /\ r.pending = task[t].pending - 1 /\ r.executing = task[t].executing + 1
  <2>1. task[t] \in TaskRecords
    BY TaskFacts
  <2>2. task[t].pending - 1 \in 0..MaxPending /\ task[t].executing + 1 \in 0..MaxPending
    BY <1>1, <1>2, TaskFacts, TasksAssumption
  <2>3. QED
    BY <2>1, <2>2 DEF Executes, TaskRecords
<1> HIDE DEF r
<1>4. ~r.readded => r.pending = 0
  BY <1>1, <1>3, TaskFacts DEF Sound, Single
<1>5. r.pending + r.executing = task[t].pending + task[t].executing
  BY <1>3, TaskFacts
<1>6. QED
  BY <1>1, <1>3, <1>4, <1>5, QuietStep
-----------------------------------------------------------------------------
(* The record of a task one of whose executions ends.                      *)
LEMMA LeftFacts ==
    ASSUME IInv, NEW t \in Tasks, FunctionEnds(t)
    PROVE  /\ Left(t) \in TaskRecords /\ Left(t).executing = task[t].executing - 1
           /\ Left(t).pending = task[t].pending /\ Left(t).call = task[t].call
           /\ Left(t).kind = task[t].kind /\ Left(t).running = task[t].running
           /\ Left(t).deferred = task[t].deferred /\ Left(t).readded = task[t].readded
           /\ Left(t).crashed = task[t].crashed /\ Left(t).pending \in Nat
           /\ task[t].call => task[t].pending > 0
           /\ ~task[t].readded => (task[t].pending > 0 => task[t].call)
           /\ task[t].executing > 0
<1>1. task[t].executing > 0
  BY DEF FunctionEnds
<1>2. /\ Left(t) \in TaskRecords /\ Left(t).executing = task[t].executing - 1
      /\ Left(t).pending = task[t].pending /\ Left(t).call = task[t].call
      /\ Left(t).kind = task[t].kind /\ Left(t).running = task[t].running
      /\ Left(t).deferred = task[t].deferred /\ Left(t).readded = task[t].readded
      /\ Left(t).crashed = task[t].crashed
  BY <1>1, TaskFacts, TasksAssumption DEF Left, TaskRecords
<1>3. QED
  BY <1>1, <1>2, TaskFacts DEF Sound, Single

(* An execution ends and the task goes on.                                 *)
LEMMA ReschedulesStep ==
    ASSUME IInv, NEW t \in Tasks, Reschedules(t)
    PROVE  IInv'
<1>1. FunctionEnds(t) /\ task[t].kind = "scheduled" /\ task[t].running
      /\ UNCHANGED <<registered, made, calls, answer>>
  BY DEF Reschedules, FunctionEnds, Continuing
<1>2. task[t].pending + task[t].executing <= MaxPending
  BY TaskFacts DEF Sound
<1>3. CASE task[t].call
  <2>1. Becomes(t, Left(t))
    BY <1>3 DEF Reschedules
  <2>2. task[t].readded
    BY <1>1, <1>3, LeftFacts, TaskFacts DEF Sound, Single
  <2>3. Sound(Left(t), answer', calls')
    <3>1. Left(t).pending + Left(t).executing <= MaxPending
      BY <1>1, <1>2, LeftFacts, TaskFacts, TasksAssumption
    <3>2. Left(t).pending > 0 /\ Left(t).deferred <= calls'
      BY <1>1, <1>3, LeftFacts, TaskFacts DEF Sound
    <3>3. QED
      BY <1>1, <2>2, <3>1, <3>2, LeftFacts DEF Sound
  <2>4. QED
    BY <1>1, <2>1, <2>3, LeftFacts, TaskFacts, TaskStep
<1>4. CASE ~task[t].call
  <2> DEFINE r == Later(Left(t))
  <2>1. Becomes(t, r)
    BY <1>4 DEF Reschedules
  <2>2. Left(t).pending < MaxPending
    BY <1>1, <1>2, LeftFacts, TaskFacts, TasksAssumption
  <2>3. r \in TaskRecords
    BY <1>1, <2>2, LeftFacts, LaterRecord
  <2>4. /\ r.deferred = task[t].deferred /\ r.kind = task[t].kind
        /\ r.readded = task[t].readded /\ r.crashed = task[t].crashed
        /\ r.running = task[t].running /\ r.call
        /\ r.pending = task[t].pending + 1 /\ r.executing = task[t].executing - 1
    BY <1>1, LeftFacts DEF Later, TaskRecords
  <2> HIDE DEF r
  <2>5. r.pending + r.executing = task[t].pending + task[t].executing /\ r.pending > 0
    BY <2>4, TaskFacts
  <2>6. QED
    BY <1>1, <2>1, <2>3, <2>4, <2>5, QuietStep
<1>5. QED
  BY <1>3, <1>4, TaskFacts DEF TaskRecords

(* An execution ends and its task too.                                     *)
LEMMA EndingStep ==
    ASSUME IInv, NEW t \in Tasks, Finishes(t) \/ Fails(t)
    PROVE  IInv'
<1>1. PICK b \in BOOLEAN, how \in {"callback", "errback"} :
         /\ Becomes(t, Fired([Left(t) EXCEPT !.running = b])) /\ Tells(task[t], how)
         /\ FunctionEnds(t)
  <2>1. CASE Finishes(t)
    <3> DEFINE b == Left(t).running /\ task[t].deferred # None
    <3>1. [Left(t) EXCEPT !.running = @ /\ task[t].deferred # None]
            = [Left(t) EXCEPT !.running = b]
      OBVIOUS
    <3>2. b \in BOOLEAN
      OBVIOUS
    <3>3. QED
      BY <2>1, <3>1, <3>2 DEF Finishes
  <2>2. CASE Fails(t)
    BY <2>2 DEF Fails
  <2>3. QED
    BY <2>1, <2>2
<1> DEFINE s == [Left(t) EXCEPT !.running = b]
<1>2. /\ s \in TaskRecords /\ s.deferred = task[t].deferred
      /\ s.readded = task[t].readded /\ s.crashed = task[t].crashed
      /\ s.call = task[t].call /\ s.pending = task[t].pending
      /\ s.executing = task[t].executing - 1
  BY <1>1, LeftFacts DEF TaskRecords
<1>3. Becomes(t, Fired(s))
  BY <1>1
<1> HIDE DEF s
<1>4. registered' \in {registered, None} /\ UNCHANGED <<made, calls>>
  BY <1>1 DEF FunctionEnds
<1>5. s.pending + s.executing = task[t].pending + task[t].executing - 1
  BY <1>2, TaskFacts
<1>6. QED
  BY <1>1, <1>2, <1>3, <1>4, <1>5, LeftFacts, FiringStep
-----------------------------------------------------------------------------
LEMMA NextInvariant == IInv /\ [Next]_vars => IInv'
<1> SUFFICES ASSUME IInv, [Next]_vars PROVE IInv'
  OBVIOUS
<1>1. CASE \/ \E k \in Kinds : Adds(k)
           \/ CannotParse \/ CannotSchedule
  BY <1>1, MakingStep
<1>2. CASE \E t \in Tasks : AddsDelayedAgain(t) \/ AddsScheduledAgain(t) \/ Stops(t)
  BY <1>2, AddsDelayedAgainStep, AddsScheduledAgainStep, StopsStep
<1>3. CASE \E t \in Tasks : ReactorStep(t)
  BY <1>3, CalledStep, ReschedulesStep, EndingStep DEF ReactorStep
<1>4. CASE UNCHANGED vars
  BY <1>4 DEF IInv, TypeOK, Distinct, vars
<1>5. QED
  BY <1>1, <1>2, <1>3, <1>4 DEF Next

LEMMA Invariance == Spec => []IInv
<1>1. QED
  BY InitInvariant, NextInvariant, PTL DEF Spec

(* Every variable keeps its type.                                          *)
THEOREM TypeCorrect == Spec => []TypeOK
<1>1. IInv => TypeOK
  BY DEF IInv
<1>2. QED
  BY <1>1, Invariance, PTL

(* A scheduled task that is running has a timer or an execution, whatever  *)
(* the order in which it was added, called, stopped and failed: it will    *)
(* run again (tasks/__init__.py:293-321).                                  *)
THEOREM Continues == Spec => []RunningContinues
<1>1. IInv => RunningContinues
  <2> SUFFICES ASSUME IInv, NEW t \in Tasks, Continuing(t), ~Told(t)
               PROVE  task[t].pending > 0 \/ task[t].executing > 0
    BY DEF RunningContinues
  <2>1. ~Silent(task[t], answer)
    BY DEF Told, Silent
  <2>2. QED
    BY <2>1 DEF IInv, Sound, Continuing
<1>2. QED
  BY <1>1, Invariance, PTL

(* The executions of a task that was added once do not overlap, nor does   *)
(* a timer wait while it executes (tasks/__init__.py:229).                 *)
THEOREM OneAtATime == Spec => []OneRunAtATime
<1>1. IInv => OneRunAtATime
  BY DEF IInv, Sound, Single, OneRunAtATime
<1>2. QED
  BY <1>1, Invariance, PTL

(* Whoever was told that a task has ended is told the truth, for a task    *)
(* that was added once (tasks/__init__.py:112).                            *)
THEOREM ToldTruth == Spec => []ToldIsFinished
<1>1. IInv => ToldIsFinished
  <2> SUFFICES ASSUME IInv, NEW t \in Tasks, ~task[t].readded, Told(t)
               PROVE  task[t].pending = 0 /\ task[t].executing = 0
    BY DEF ToldIsFinished
  <2>1. Silent(task[t], answer)
    BY DEF Told, Silent
  <2>2. Single(task[t], answer)
    BY DEF IInv, Sound
  <2>3. QED
    BY <2>1, <2>2, TaskFacts DEF Single
<1>2. QED
  BY <1>1, Invariance, PTL

(* The Deferred of a task that was added once is fired once, by whichever  *)
(* of stop(), cb and eb comes first (tasks/__init__.py:190-218, 281-309).  *)
THEOREM UsedOnce == Spec => []DeferredUsedOnce
<1>1. IInv => DeferredUsedOnce
  BY DEF IInv, Sound, Single, DeferredUsedOnce
<1>2. QED
  BY <1>1, Invariance, PTL
=============================================================================
