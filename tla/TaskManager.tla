----------------------------- MODULE TaskManager -----------------------------
(***************************************************************************)
(* Delayed and scheduled tasks (agent/mmc/core/tasks/__init__.py).  All of *)
(* it runs in the reactor, so a step is a whole method; in between, timers *)
(* fire and functions that returned a Deferred come to their end.          *)
(*                                                                         *)
(* Labels do not meet, so one label is modelled: the task registered under *)
(* it now, and the ones that were before it and may still be running.      *)
(* Delays are abstracted: a timer that is pending may fire at any moment.  *)
(* Interval tasks are Twisted's LoopingCall and are not modelled.          *)
(***************************************************************************)
EXTENDS Integers

CONSTANTS
    MaxTasks,   \* number of task objects                        (bound)
    MaxCalls,   \* number of calls to addTask                    (bound)
    MaxPending, \* timers and executions of one task at a time   (bound)
    Faults      \* what may fail: a subset of AllFaults

AllFaults == {"function", "cron", "delay"}

ASSUME TasksAssumption ==
    /\ MaxTasks \in Nat /\ MaxCalls \in Nat /\ MaxPending \in Nat \ {0}
    /\ Faults \subseteq AllFaults

Tasks == 1..MaxTasks
Calls == 1..MaxCalls
None == 0

VARIABLES
    registered, \* TaskManager.tasks[label], or None
    made,       \* number of tasks made
    task,       \* the tasks
    calls,      \* number of calls to addTask
    answer      \* what each call of addTask gave: a Deferred or an exception

vars == <<registered, made, task, calls, answer>>

Kinds == {"delayed", "scheduled"}

\* call: self.call is a timer that is pending; pending: the timers of the
\* reactor that will call the task; executing: the executions of its function
\* that have not ended; deferred: the call of addTask whose Deferred
\* self.deferred is; readded: addTask has found the task already there;
\* crashed: a method used a Deferred the task did not have.
TaskRecords ==
    [kind : Kinds, running : BOOLEAN, schedule : BOOLEAN, call : BOOLEAN,
     pending : 0..MaxPending, executing : 0..MaxPending,
     deferred : Calls \cup {None}, readded : BOOLEAN, crashed : BOOLEAN]

NoTask == [kind |-> "delayed", running |-> FALSE, schedule |-> FALSE,
           call |-> FALSE, pending |-> 0, executing |-> 0, deferred |-> None,
           readded |-> FALSE, crashed |-> FALSE]

TypeOK ==
    /\ registered \in Tasks \cup {None} /\ made \in 0..MaxTasks
    /\ task \in [Tasks -> TaskRecords]
    /\ calls \in 0..MaxCalls
    /\ answer \in [Calls -> {"none", "raised", "waiting", "callback", "errback"}]

Init ==
    /\ registered = None /\ made = 0
    /\ task = [t \in Tasks |-> NoTask]
    /\ calls = 0 /\ answer = [c \in Calls |-> "none"]

Roomy(t) == task[t].pending + task[t].executing < MaxPending
-----------------------------------------------------------------------------
\* self.call = self.clock.callLater(delay, self)
Later(r) == [r EXCEPT !.call = TRUE, !.pending = @ + 1]

Cancelled_Never(r) == [r EXCEPT !.call = FALSE]

\* self.call.cancel(); self.call = None
Cancelled(r) == [r EXCEPT !.call = FALSE, !.pending = @ - 1]

\* d, self.deferred = self.deferred, None; then d.callback or d.errback, an
\* AttributeError when there was no Deferred.
Fired(r) == [r EXCEPT !.deferred = None, !.crashed = @ \/ r.deferred = None]
Tells(r, how) ==
    answer' = IF r.deferred = None THEN answer ELSE [answer EXCEPT ![r.deferred] = how]

Becomes(t, r) == task' = [task EXCEPT ![t] = r]

Asked(how) ==
    /\ calls < MaxCalls
    /\ calls' = calls + 1
    /\ answer' = [answer EXCEPT ![calls'] = how]

\* A task is made and registered.
Made(r) ==
    /\ registered = None /\ made < MaxTasks
    /\ made' = made + 1 /\ registered' = made'
    /\ Becomes(made', r)

Started(k) == [NoTask EXCEPT !.kind = k, !.running = TRUE, !.deferred = calls',
                             !.schedule = k = "scheduled"]

\* addTask where no task has the label.
Adds(k) == Asked("waiting") /\ Made(Later(Started(k)))

\* The task is registered before its cron expression is parsed: when that
\* fails it stays there and was never started.
CannotParse ==
    /\ "cron" \in Faults
    /\ Asked("raised") /\ Made([NoTask EXCEPT !.kind = "scheduled"])

\* It is set running before its first delay is computed.
CannotSchedule ==
    /\ "delay" \in Faults
    /\ Asked("raised") /\ Made(Started("scheduled"))

\* addTask of a DelayedCall that is there: started again, with a Deferred more.
AddsDelayedAgain(t) ==
    /\ registered = t /\ task[t].kind = "delayed" /\ Roomy(t)
    /\ Asked("waiting")
    /\ Becomes(t, Later([task[t] EXCEPT !.running = TRUE, !.deferred = calls',
                                        !.readded = TRUE]))
    /\ UNCHANGED <<registered, made>>

\* addTask of a ScheduledCall: scheduled unless it is.  Nothing is returned.
AddsScheduledAgain(t) ==
    /\ registered = t /\ task[t].kind = "scheduled" /\ Roomy(t)
    /\ Asked("none")
    /\ LET r == [task[t] EXCEPT !.readded = TRUE]
       IN  Becomes(t, IF ~r.call /\ r.schedule THEN Later(r) ELSE r)
    /\ UNCHANGED <<registered, made>>

Stops_AlwaysFiring(t) ==
    /\ registered = t /\ task[t].running
    /\ LET r == [task[t] EXCEPT !.running = FALSE]
       IN  /\ Becomes(t, Fired(IF r.call THEN Cancelled(r) ELSE r))
           /\ Tells(r, "callback")
    /\ registered' = None
    /\ UNCHANGED <<made, calls>>

\* stopTask.  A task that is not running fails the assertion of stop() and
\* stays registered; so does one whose missing Deferred stop() uses.
Stops(t) ==
    /\ registered = t /\ task[t].running
    /\ LET r == [task[t] EXCEPT !.running = FALSE]
       IN  IF r.call
           THEN /\ Becomes(t, Fired(Cancelled(r)))
                /\ Tells(r, "callback")
                /\ registered' = IF r.deferred = None THEN t ELSE None
           ELSE Becomes(t, r) /\ registered' = None /\ UNCHANGED answer
    /\ UNCHANGED <<made, calls>>
-----------------------------------------------------------------------------
Executes_KeepingCall(r) == [r EXCEPT !.pending = @ - 1, !.executing = @ + 1]
Executes_ReschedulingFirst(r) == [r EXCEPT !.executing = @ + 1]

\* __call__: whichever timer it was, self.call is None from here on.
Executes(r) == [r EXCEPT !.pending = @ - 1, !.call = FALSE, !.executing = @ + 1]

Called(t) ==
    /\ task[t].pending > 0
    /\ Becomes(t, Executes(task[t]))
    /\ UNCHANGED <<registered, made, calls, answer>>

\* An execution of the function ends.
FunctionEnds(t) == task[t].executing > 0 /\ UNCHANGED <<registered, made, calls>>
Left(t) == [task[t] EXCEPT !.executing = @ - 1]

Continuing(t) == task[t].kind = "scheduled" /\ task[t].running

\* cb of a ScheduledCall that is running.
Reschedules(t) ==
    /\ FunctionEnds(t) /\ Continuing(t)
    /\ Becomes(t, IF task[t].call THEN Left(t) ELSE Later(Left(t)))
    /\ UNCHANGED answer

Finishes_OnlyDelayed(t) ==
    /\ FunctionEnds(t) /\ ~Continuing(t)
    /\ IF task[t].kind = "delayed"
       THEN Becomes(t, Fired(Left(t))) /\ Tells(task[t], "callback")
       ELSE Becomes(t, Left(t)) /\ UNCHANGED answer

\* cb of a DelayedCall, or of a ScheduledCall that was stopped meanwhile.
\* The error of a missing Deferred goes through eb.
Finishes(t) ==
    /\ FunctionEnds(t) /\ ~Continuing(t)
    /\ Becomes(t, Fired([Left(t) EXCEPT !.running = @ /\ task[t].deferred # None]))
    /\ Tells(task[t], "callback")

\* eb: the function failed, or the time of its next execution passed while it
\* was being computed and callLater refused the negative delay.
Fails(t) ==
    /\ FunctionEnds(t)
    /\ \/ "function" \in Faults
       \/ "delay" \in Faults /\ Continuing(t) /\ ~task[t].call
    /\ Becomes(t, Fired([Left(t) EXCEPT !.running = FALSE]))
    /\ Tells(task[t], "errback")
-----------------------------------------------------------------------------
ReactorStep(t) == Called(t) \/ Reschedules(t) \/ Finishes(t) \/ Fails(t)

Next ==
    \/ \E k \in Kinds : Adds(k)
    \/ CannotParse \/ CannotSchedule
    \/ \E t \in Tasks : \/ AddsDelayedAgain(t) \/ AddsScheduledAgain(t) \/ Stops(t)
                        \/ ReactorStep(t)

Spec == Init /\ [][Next]_vars

\* Timers fire and functions end.
Fairness == \A t \in Tasks : WF_vars(ReactorStep(t))
FairSpec == Spec /\ Fairness
-----------------------------------------------------------------------------
Exists(t) == t <= made
Told(t) == task[t].deferred # None => answer[task[t].deferred] = "raised"

(* A scheduled task that is running will run again: whatever addTask,      *)
(* stopTask, failures and overlapping executions did, it is never left     *)
(* with neither a timer nor an execution (tasks/__init__.py:293-321),      *)
(* unless addTask itself raised.                                           *)
RunningContinues ==
    \A t \in Tasks : Continuing(t) /\ ~Told(t)
                     => task[t].pending > 0 \/ task[t].executing > 0

(* "If f returns a deferred, rescheduling will not take place until the    *)
(* deferred has fired" (tasks/__init__.py:229): executions do not overlap, *)
(* unless addTask was called again.                                        *)
OneRunAtATime ==
    \A t \in Tasks : ~task[t].readded => task[t].pending + task[t].executing <= 1

(* Whoever was told that the task has ended is told the truth: it neither  *)
(* runs nor will run ("Callbacks are run when the task is finished",       *)
(* tasks/__init__.py:112), unless addTask was called again.                *)
ToldIsFinished ==
    \A t \in Tasks : Exists(t) /\ ~task[t].readded /\ Told(t)
                     => task[t].pending = 0 /\ task[t].executing = 0

(* No method of a task that was added once uses a Deferred that has been   *)
(* fired already (tasks/__init__.py:190-218, 281-309).                     *)
DeferredUsedOnce == \A t \in Tasks : ~task[t].readded => ~task[t].crashed

(* Whoever waits for a task that was stopped is told, though its function  *)
(* was executing when it was stopped (tasks/__init__.py:281-300).          *)
StoppedIsTold ==
    \A t \in Tasks : Exists(t) /\ ~task[t].running ~> task[t].readded \/ Told(t)
=============================================================================
