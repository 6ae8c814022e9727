----------------------------- MODULE CronSchedule -----------------------------
(***************************************************************************)
(* The schedule of a task (agent/mmc/core/tasks/cron.py, class             *)
(* CronSchedule): the next minute that a cron line lists.                  *)
(*                                                                         *)
(* A line has a set of values for each field, as parseCronLine returns it. *)
(* The calendar is a parameter, so that a small one can be searched; what  *)
(* the code relies on is that no month is shorter than a week.  A result   *)
(* is a set: of one date, or empty where the method raises.  The state is  *)
(* the line of a task and the minute at which its next entry is asked for. *)
(***************************************************************************)
EXTENDS Integers, Sequences, FiniteSets

CONSTANTS
    Calendar, \* of each year, the lengths of its months
    MaxDom,   \* the last day of the longest month
    Week,     \* number of days of a week
    Hours,    \* number of hours of a day
    Minutes   \* number of minutes of an hour

VARIABLES
    line, \* the parsed line of the schedule
    date  \* the current minute

Years == DOMAIN Calendar
Months == DOMAIN Calendar[1]
Length(y, m) == Calendar[y][m]

Least(S) == CHOOSE x \in S : \A y \in S : x <= y
Greatest(S) == CHOOSE x \in S : \A y \in S : y <= x

ASSUME CalendarAssumption ==
    /\ MaxDom \in Nat /\ Week \in Nat \ {0}
    /\ Hours \in Nat \ {0} /\ Minutes \in Nat \ {0}
    /\ Calendar \in Seq(Seq(Nat)) /\ Calendar # <<>> /\ Calendar[1] # <<>>
    /\ \A y \in Years : DOMAIN Calendar[y] = Months
    /\ \A y \in Years, m \in Months : Length(y, m) \in Week..MaxDom

Lines == [minutes : (SUBSET (0..Minutes - 1)) \ {{}}, hours : (SUBSET (0..Hours - 1)) \ {{}},
          doms : (SUBSET (1..MaxDom)) \ {{}}, months : (SUBSET Months) \ {{}},
          dows : (SUBSET (0..Week - 1)) \ {{}}]

Dates == {d \in [year : Years, month : Months, day : 1..MaxDom,
                 hour : 0..Hours - 1, minute : 0..Minutes - 1] :
             d.day <= Length(d.year, d.month)}
-----------------------------------------------------------------------------
Days == {x \in [year : Years, month : Months, day : 1..MaxDom] :
            x.day <= Length(x.year, x.month)}

\* How many days came before this one; the first of them was a Monday.
DaysBefore(year, month, day) ==
    Cardinality({x \in Days : \/ x.year < year
                              \/ x.year = year /\ x.month < month
                              \/ x.year = year /\ x.month = month /\ x.day < day})

Weekday == [x \in Days |-> 1 + (DaysBefore(x.year, x.month, x.day) % Week)]

isoweekday(d) == Weekday[[year |-> d.year, month |-> d.month, day |-> d.day]]
-----------------------------------------------------------------------------
\* "for x in list: if x > current": the first of a sorted list that is later.
FirstAfter(S, x) == {y \in S : y > x /\ \A z \in S : z > x => y <= z}

AllDoms(cron) == Cardinality(cron.doms) = MaxDom
AllDows(cron) == Cardinality(cron.dows) = Week

\* Sunday is 0 in a line and the last day of a week in isoweekday().
Dows(cron) == {IF n = 0 THEN Week ELSE n : n \in cron.dows}

NextMinute(cron, d) ==
    {[d EXCEPT !.minute = n] : n \in FirstAfter(cron.minutes, d.minute)}

NextHour(cron, d) ==
    LET inThisHour == IF d.hour \in cron.hours THEN NextMinute(cron, d) ELSE {}
    IN  IF inThisHour # {} THEN inThisHour
        ELSE {[d EXCEPT !.hour = h, !.minute = Least(cron.minutes)]
                : h \in FirstAfter(cron.hours, d.hour)}

DowDistance_SundayFirst(cron, dow) ==
    IF FirstAfter(cron.dows, dow) # {} THEN Least(FirstAfter(cron.dows, dow)) - dow
    ELSE Least(cron.dows) + Week - dow

\* The next listed day of the week, in this week or in the next.
DowDistance(cron, dow) ==
    IF FirstAfter(Dows(cron), dow) # {} THEN Least(FirstAfter(Dows(cron), dow)) - dow
    ELSE Least(Dows(cron)) + Week - dow

Distances(cron, d) ==
    IF AllDoms(cron) /\ AllDows(cron) THEN {1}
    ELSE (IF AllDows(cron) THEN {} ELSE {DowDistance(cron, isoweekday(d))})
         \cup (IF AllDoms(cron) THEN {}
               ELSE {dom - d.day : dom \in FirstAfter(cron.doms, d.day)})

\* Whether the rest of the current day may be used: by its day of the week
\* alone when both fields are restricted.
ListsToday(cron, d) ==
    \/ AllDoms(cron) /\ AllDows(cron)
    \/ d.day \in cron.doms /\ AllDows(cron)
    \/ isoweekday(d) \in Dows(cron) /\ ~AllDows(cron)

NextDay(cron, d) ==
    LET today == IF ListsToday(cron, d) THEN NextHour(cron, d) ELSE {}
        distances == Distances(cron, d)
        day == d.day + Least(distances)
    IN  IF today # {} THEN today
        ELSE IF distances = {} THEN {}
        ELSE IF day > Length(d.year, d.month) THEN {}
        ELSE {[d EXCEPT !.day = day, !.hour = Least(cron.hours),
                        !.minute = Least(cron.minutes)]}

FirstDay_NextListedDow(cron, d) ==
    LET dow == isoweekday(d)
        days == (IF AllDows(cron) THEN {} ELSE {1 + DowDistance(cron, dow)})
                \cup (IF AllDoms(cron) THEN {} ELSE {Least(cron.doms)})
    IN  {[d EXCEPT !.day = n] : n \in IF days = {} THEN {1} ELSE {Least(days)}}

\* The first listed day of the month of d, which is at day 1.  replace()
\* raises where the month has no such day.
FirstDay(cron, d) ==
    LET dow == isoweekday(d)
        day == IF AllDows(cron) THEN IF AllDoms(cron) THEN 1 ELSE Least(cron.doms)
               ELSE IF dow \in Dows(cron) \/ (~AllDoms(cron) /\ Least(cron.doms) = 1) THEN 1
               ELSE Least({1 + DowDistance(cron, dow)}
                          \cup IF AllDoms(cron) THEN {} ELSE {Least(cron.doms)})
    IN  IF day <= Length(d.year, d.month) THEN {[d EXCEPT !.day = day]} ELSE {}

NextMonth(cron, d) ==
    LET inThisMonth == IF d.month \in cron.months THEN NextDay(cron, d) ELSE {}
        later == FirstAfter(cron.months, d.month)
        first == [d EXCEPT !.day = 1, !.hour = Least(cron.hours),
                           !.minute = Least(cron.minutes)]
    IN  IF inThisMonth # {} THEN inThisMonth
        ELSE IF later # {} THEN FirstDay(cron, [first EXCEPT !.month = Least(later)])
        ELSE FirstDay(cron, [first EXCEPT !.year = d.year + 1, !.month = Least(cron.months)])

getNextEntry(cron, d) == NextMonth(cron, d)
-----------------------------------------------------------------------------
(***************************************************************************)
(* The reference: the minutes that a standard cron line lists.  When both  *)
(* the days of the month and those of the week are restricted, one of them *)
(* is enough.                                                              *)
(***************************************************************************)
ListsDay(cron, d) ==
    LET dom == d.day \in cron.doms
        dow == isoweekday(d) \in Dows(cron)
    IN  IF AllDoms(cron) \/ AllDows(cron) THEN dom /\ dow ELSE dom \/ dow

Lists(cron, d) ==
    /\ d.minute \in cron.minutes /\ d.hour \in cron.hours
    /\ d.month \in cron.months /\ ListsDay(cron, d)

SameMonth(d, e) == d.year = e.year /\ d.month = e.month
SameDay(d, e) == SameMonth(d, e) /\ d.day = e.day

Precedes(d, e) ==
    \/ d.year < e.year
    \/ d.year = e.year /\ d.month < e.month
    \/ SameMonth(d, e) /\ d.day < e.day
    \/ SameDay(d, e) /\ d.hour < e.hour
    \/ SameDay(d, e) /\ d.hour = e.hour /\ d.minute < e.minute

Skips(cron, d, next) ==
    {e \in Dates : Lists(cron, e) /\ Precedes(d, e) /\ Precedes(e, next)}

\* Only the day of the month lists this day: ListsToday does not see it.
ListedByDomOnly(cron, d) ==
    /\ ~AllDows(cron) /\ ~AllDoms(cron)
    /\ d.day \in cron.doms /\ isoweekday(d) \notin Dows(cron)

\* The first day that a line lists is one of every month.
EveryMonthHasADay(cron) ==
    ~AllDows(cron) \/ \A y \in Years, m \in Months : Least(cron.doms) <= Length(y, m)
-----------------------------------------------------------------------------
(***************************************************************************)
(* A task is executed at the entries of its line, whenever it starts.  The *)
(* last year has no next: a schedule that reaches it stops        (bound). *)
(***************************************************************************)
ScheduleInit == line \in Lines /\ date \in {d \in Dates : d.year = Least(Years)}

Ends == date.year = Greatest(Years)

Advances == ~Ends /\ date' \in getNextEntry(line, date) /\ UNCHANGED line

ScheduleSpec == ScheduleInit /\ [][Advances]_<<line, date>>
-----------------------------------------------------------------------------
(* There is an answer, unless the first day of the month that is listed is *)
(* not one of every month (cron.py:93), and whatever getNextEntry answers  *)
(* is a minute that the line lists, later than the current one.            *)
EntryIsListed ==
    LET next == getNextEntry(line, date)
    IN  ~Ends => /\ EveryMonthHasADay(line) => next # {}
                 /\ \A e \in next : e \in Dates /\ Lists(line, e) /\ Precedes(date, e)

(* No listed minute lies in between, but on the current day when only the  *)
(* day of the month lists it and both fields are restricted (cron.py:163). *)
SkipsNothing ==
    ~Ends => \A next \in getNextEntry(line, date) : \A e \in Skips(line, date, next) :
                ListedByDomOnly(line, e) /\ SameDay(date, e)
=============================================================================
