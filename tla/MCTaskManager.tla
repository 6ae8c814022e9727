---------------------------- MODULE MCTaskManager ----------------------------
(***************************************************************************)
(* Model checking of TaskManager and of the schedules that its delays come *)
(* from.  Two tasks: one that was removed while its function was executing *)
(* and the one registered after it.  Four calls of addTask start a task    *)
(* again while it waits and while it executes.  The tasks do not look at   *)
(* the dates, so the two are searched one beside the other.                *)
(***************************************************************************)
EXTENDS TaskManager, CronSchedule

VARIABLE part

\* Two years of two months; the second month of the first is short.
SmallCalendar == <<<<4, 3>>, <<4, 4>>>>

SomeLine == [minutes |-> {0}, hours |-> {0}, doms |-> {1}, months |-> {1}, dows |-> {0}]
SomeDate == [year |-> 1, month |-> 1, day |-> 1, hour |-> 0, minute |-> 0]

MCInit ==
    /\ Init
    /\ \/ part = "tasks" /\ line = SomeLine /\ date = SomeDate
       \/ part = "schedules" /\ ScheduleInit

MCNext ==
    /\ \/ part = "tasks" /\ Next /\ UNCHANGED <<line, date>>
       \/ part = "schedules" /\ Advances /\ UNCHANGED vars
    /\ UNCHANGED part

MCSpec == MCInit /\ [][MCNext]_<<vars, line, date, part>> /\ Fairness
=============================================================================
