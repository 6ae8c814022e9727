-------------------------- MODULE CronScheduleProofs --------------------------
(***************************************************************************)
(* Proofs about CronSchedule, for any calendar, any line and any minute.   *)
(*                                                                         *)
(* The argument follows the code from the inside out: what NextHour finds  *)
(* on the day of the current minute, what NextDay finds in its month, what *)
(* FirstDay finds in another month, and what NextMonth makes of them; each *)
(* is listed, is later, and has nothing that is listed before it, but what *)
(* ListsToday overlooks.  The weeks enter by one fact: the next day has    *)
(* the next day of the week.                                               *)
(***************************************************************************)
EXTENDS CronSchedule, SequenceTheorems, FiniteSetTheorems, WellFoundedInduction, TLAPS

(***************************************************************************)
(* Numbers: the least of a set, and the remainder of the next number.      *)
(***************************************************************************)
LEMMA LeastOf ==
    ASSUME NEW S \in SUBSET Nat, S # {}
    PROVE  Least(S) \in S /\ \A y \in S : Least(S) <= y
<1>1. PICK x \in S : \A y \in S : <<y, x>> \notin OpToRel(<, Nat)
  BY NatLessThanWellFounded, WFMin
<1>2. \A y \in S : ~(y < x)
  BY <1>1 DEF OpToRel
<1>3. \A y \in S : x <= y
  BY <1>2
<1>4. QED
  BY <1>3 DEF Least

LEMMA FirstAfterIs ==
    ASSUME NEW S \in SUBSET Nat, NEW x \in Nat
    PROVE  /\ FirstAfter(S, x) = {} => \A z \in S : z <= x
           /\ FirstAfter(S, x) # {}
              => \E n \in S : /\ FirstAfter(S, x) = {n} /\ Least(FirstAfter(S, x)) = n
                              /\ n > x /\ \A z \in S : z > x => n <= z
<1> DEFINE T == {z \in S : z > x}
<1>1. ASSUME T = {} PROVE FirstAfter(S, x) = {} /\ \A z \in S : z <= x
  BY <1>1 DEF FirstAfter
<1>2. ASSUME T # {}
      PROVE  \E n \in S : /\ FirstAfter(S, x) = {n} /\ n > x
                          /\ \A z \in S : z > x => n <= z
  <2>1. PICK n \in T : \A z \in T : n <= z
    BY <1>2, LeastOf
  <2>2. \A y \in FirstAfter(S, x) : y = n
    BY <2>1 DEF FirstAfter
  <2>3. n \in FirstAfter(S, x)
    BY <2>1 DEF FirstAfter
  <2>4. QED
    BY <2>1, <2>2, <2>3
<1>3. \A n \in Nat : Least({n}) = n
  <2>1. ASSUME NEW n \in Nat PROVE Least({n}) = n
    <3>1. {n} \in SUBSET Nat /\ {n} # {}
      OBVIOUS
    <3>2. Least({n}) \in {n}
      BY <3>1, LeastOf
    <3>3. QED
      BY <3>2
  <2>2. QED
    BY <2>1
<1>4. QED
  BY <1>1, <1>2, <1>3

LEMMA DivMod ==
    ASSUME NEW w \in Nat \ {0}, NEW a \in Nat
    PROVE  /\ a % w \in 0..(w - 1) /\ a \div w \in Nat
           /\ a = w * (a \div w) + (a % w)
<1>1. a % w \in 0..(w - 1)
  OBVIOUS
<1>2. a \div w \in Int /\ a = w * (a \div w) + (a % w)
  OBVIOUS
<1>3. QED
  BY <1>1, <1>2

LEMMA Multiples ==
    ASSUME NEW w \in Nat \ {0}, NEW i \in Nat, NEW j \in Nat, i < j
    PROVE  w * i + w <= w * j
OBVIOUS

LEMMA ModUnique ==
    ASSUME NEW w \in Nat \ {0}, NEW q \in Nat, NEW p \in Nat,
           NEW r \in 0..(w - 1), NEW s \in 0..(w - 1), w * q + r = w * p + s
    PROVE  r = s
<1>1. w * q \in Nat /\ w * p \in Nat
  OBVIOUS
<1>2. ~(q < p)
  BY <1>1, Multiples
<1>3. ~(p < q)
  BY <1>1, Multiples
<1>4. p = q
  BY <1>2, <1>3
<1>5. QED
  BY <1>1, <1>4

LEMMA ModStep ==
    ASSUME NEW w \in Nat \ {0}, NEW a \in Nat
    PROVE  (a + 1) % w = IF a % w = w - 1 THEN 0 ELSE (a % w) + 1
<1> DEFINE b == a + 1
           q == a \div w
           r == a % w
           p == b \div w
           s == b % w
<1>1. q \in Nat /\ r \in 0..(w - 1) /\ a = w * q + r
  BY DivMod
<1>2. b \in Nat
  OBVIOUS
<1> HIDE DEF b
<1>3. p \in Nat /\ s \in 0..(w - 1) /\ b = w * p + s
  BY <1>2, DivMod
<1>4. s = IF r = w - 1 THEN 0 ELSE r + 1
  <2> HIDE DEF q, r, p, s
  <2>1. w * q + r + 1 = w * p + s
    BY <1>1, <1>3 DEF b
  <2>2. w * q \in Nat /\ w * (q + 1) = w * q + w
    BY <1>1
  <2>3. CASE r = w - 1
    <3>1. w * (q + 1) + 0 = w * p + s
      BY <1>3, <2>1, <2>2, <2>3
    <3>2. q + 1 \in Nat /\ 0 \in 0..(w - 1)
      BY <1>1
    <3>3. QED
      BY <1>3, <2>3, <3>1, <3>2, ModUnique
  <2>4. CASE r # w - 1
    <3>1. w * q + (r + 1) = w * p + s /\ r + 1 \in 0..(w - 1)
      BY <1>1, <1>3, <2>1, <2>2, <2>4
    <3>2. QED
      BY <1>1, <1>3, <2>4, <3>1, ModUnique
  <2>5. QED
    BY <2>3, <2>4
<1>5. QED
  BY <1>4 DEF b
-----------------------------------------------------------------------------
(***************************************************************************)
(* The calendar.                                                           *)
(***************************************************************************)
LEMMA CalendarFacts ==
    /\ Years = 1..Len(Calendar) /\ Len(Calendar) \in Nat \ {0}
    /\ Months = 1..Len(Calendar[1]) /\ Len(Calendar[1]) \in Nat \ {0}
    /\ Years \subseteq Nat /\ Months \subseteq Nat /\ 1 \in Years /\ 1 \in Months
    /\ MaxDom \in Nat /\ Week \in Nat \ {0} /\ Hours \in Nat \ {0} /\ Minutes \in Nat \ {0}
    /\ \A y \in Years, m \in Months :
          Length(y, m) \in Nat /\ Week <= Length(y, m) /\ Length(y, m) <= MaxDom
<1>1. Years = 1..Len(Calendar) /\ Len(Calendar) \in Nat \ {0}
  BY CalendarAssumption, LenProperties, EmptySeq DEF Years
<1>2. Calendar[1] \in Seq(Nat)
  BY <1>1, CalendarAssumption, ElementOfSeq
<1>3. Months = 1..Len(Calendar[1]) /\ Len(Calendar[1]) \in Nat \ {0}
  BY <1>2, CalendarAssumption, LenProperties, EmptySeq DEF Months
<1>4. QED
  BY <1>1, <1>3, CalendarAssumption

LEMMA DaysFinite == IsFiniteSet(Days)
<1> DEFINE All == [year : Years, month : Months, day : 1..MaxDom]
           Pairs == (Years \X Months) \X (1..MaxDom)
           f == [x \in All |-> <<<<x.year, x.month>>, x.day>>]
<1>1. IsFiniteSet(Years) /\ IsFiniteSet(Months) /\ IsFiniteSet(1..MaxDom)
  BY CalendarFacts, FS_Interval
<1>2. IsFiniteSet(Pairs)
  BY <1>1, FS_Product
<1>3. f \in [All -> Pairs]
  OBVIOUS
<1>4. ASSUME NEW t \in All, NEW u \in All, f[t] = f[u] PROVE t = u
  BY <1>4
<1>5. f \in Injection(All, Pairs)
  BY <1>3, <1>4 DEF Injection, IsInjective
<1>6. IsFiniteSet(All)
  BY <1>2, <1>5, FS_Injection
<1>7. QED
  BY <1>6, FS_Subset DEF Days

\* One more day.
LEMMA DaysBeforeNext ==
    ASSUME NEW y \in Years, NEW m \in Months, NEW n \in Nat \ {0}, n <= Length(y, m)
    PROVE  /\ DaysBefore(y, m, n) \in Nat
           /\ DaysBefore(y, m, n + 1) = DaysBefore(y, m, n) + 1
<1> DEFINE Until(k) == {x \in Days : \/ x.year < y
                                     \/ x.year = y /\ x.month < m
                                     \/ x.year = y /\ x.month = m /\ x.day < k}
           today == [year |-> y, month |-> m, day |-> n]
<1>1. IsFiniteSet(Until(n))
  BY DaysFinite, FS_Subset
<1>2. today \in Days /\ today \notin Until(n)
  BY CalendarFacts DEF Days
<1>3. Until(n + 1) = Until(n) \cup {today}
  <2>1. ASSUME NEW x \in Until(n + 1) PROVE x \in Until(n) \cup {today}
    <3>1. x.day \in Nat
      BY DEF Days
    <3>2. x.year = y /\ x.month = m /\ x.day = n => x = today
      BY DEF Days
    <3>3. QED
      BY <3>1, <3>2
  <2>2. ASSUME NEW x \in Until(n) \cup {today} PROVE x \in Until(n + 1)
    BY <1>2, CalendarFacts DEF Days
  <2>3. QED
    BY <2>1, <2>2
<1> HIDE DEF Until
<1>4. Cardinality(Until(n)) \in Nat /\ Cardinality(Until(n + 1)) = Cardinality(Until(n)) + 1
  BY <1>1, <1>2, <1>3, FS_AddElement, FS_CardinalityType
<1>5. QED
  BY <1>4 DEF DaysBefore, Until

Dow(y, m, n) == Weekday[[year |-> y, month |-> m, day |-> n]]

LEMMA WeekdayIs ==
    ASSUME NEW y \in Years, NEW m \in Months, NEW n \in 1..MaxDom, n <= Length(y, m)
    PROVE  /\ Dow(y, m, n) = 1 + (DaysBefore(y, m, n) % Week)
           /\ Dow(y, m, n) \in 1..Week
<1>1. Dow(y, m, n) = 1 + (DaysBefore(y, m, n) % Week)
  <2>1. [year |-> y, month |-> m, day |-> n] \in Days
    BY DEF Days
  <2>2. QED
    BY <2>1 DEF Weekday, Dow
<1>2. DaysBefore(y, m, n) \in Nat
  BY DaysBeforeNext
<1>3. DaysBefore(y, m, n) % Week \in 0..(Week - 1)
  BY <1>2, CalendarFacts, DivMod
<1>4. QED
  BY <1>1, <1>3, CalendarFacts

\* The next day has the next day of the week.
LEMMA WeekdayNext ==
    ASSUME NEW y \in Years, NEW m \in Months, NEW n \in 1..MaxDom, n + 1 <= Length(y, m)
    PROVE  Dow(y, m, n + 1) = IF Dow(y, m, n) = Week THEN 1 ELSE Dow(y, m, n) + 1
<1>1. Length(y, m) \in Nat /\ Length(y, m) <= MaxDom /\ MaxDom \in Nat /\ Week \in Nat \ {0}
  BY CalendarFacts
<1>2. n \in Nat \ {0} /\ n <= Length(y, m) /\ n + 1 \in 1..MaxDom
  BY <1>1
<1> DEFINE b == DaysBefore(y, m, n)
<1>3. b \in Nat /\ DaysBefore(y, m, n + 1) = b + 1
  BY <1>2, DaysBeforeNext
<1>4. /\ Dow(y, m, n) = 1 + (b % Week) /\ Dow(y, m, n + 1) = 1 + ((b + 1) % Week)
      /\ b % Week \in 0..(Week - 1)
  <2>1. Dow(y, m, n) = 1 + (b % Week)
    BY <1>2, WeekdayIs
  <2>2. Dow(y, m, n + 1) = 1 + (DaysBefore(y, m, n + 1) % Week)
    BY <1>2, WeekdayIs
  <2>3. b % Week \in 0..(Week - 1)
    BY <1>1, <1>3, DivMod
  <2>4. QED
    BY <1>3, <2>1, <2>2, <2>3
<1>5. (b + 1) % Week = IF b % Week = Week - 1 THEN 0 ELSE (b % Week) + 1
  BY <1>1, <1>3, ModStep
<1>6. QED
  BY <1>1, <1>4, <1>5

\* k days after a day with day of the week w, at most a week later.
After(w, k) == IF w + k <= Week THEN w + k ELSE w + k - Week

LEMMA WeekdayAfter ==
    ASSUME NEW y \in Years, NEW m \in Months, NEW n \in 1..MaxDom, NEW k \in 0..Week,
           n + k <= Length(y, m)
    PROVE  Dow(y, m, n + k) = After(Dow(y, m, n), k)
<1> DEFINE w == Dow(y, m, n)
           Bad == {i \in Nat : i <= k /\ Dow(y, m, n + i) # After(w, i)}
<1>1. /\ Length(y, m) \in Nat /\ Length(y, m) <= MaxDom /\ MaxDom \in Nat
      /\ Week \in Nat \ {0} /\ n \in Nat /\ k \in Nat /\ k <= Week
  BY CalendarFacts
<1>2. w \in 1..Week
  BY <1>1, WeekdayIs
<1>3. ASSUME Bad # {} PROVE FALSE
  <2>1. PICK i \in Bad : \A j \in Bad : i <= j
    BY <1>3, LeastOf
  <2>2. i \in Nat /\ i <= k /\ Dow(y, m, n + i) # After(w, i)
    OBVIOUS
  <2> HIDE DEF w
  <2>3. CASE i = 0
    BY <1>1, <1>2, <2>2, <2>3 DEF After, w
  <2>4. CASE i # 0
    <3>1. i - 1 \in Nat /\ i - 1 <= k /\ ~(i <= i - 1) /\ n + (i - 1) \in 1..MaxDom
          /\ n + (i - 1) + 1 <= Length(y, m) /\ n + (i - 1) + 1 = n + i
      BY <1>1, <2>2, <2>4
    <3>2. Dow(y, m, n + (i - 1)) = After(w, i - 1)
      BY <2>1, <3>1 DEF w
    <3>3. Dow(y, m, n + i) = IF After(w, i - 1) = Week THEN 1 ELSE After(w, i - 1) + 1
      BY <3>1, <3>2, WeekdayNext
    <3>4. (IF After(w, i - 1) = Week THEN 1 ELSE After(w, i - 1) + 1) = After(w, i)
      BY <1>1, <1>2, <2>2, <3>1 DEF After
    <3>5. QED
      BY <2>2, <3>3, <3>4
  <2>5. QED
    BY <2>3, <2>4
<1>4. QED
  BY <1>1, <1>3
-----------------------------------------------------------------------------
(***************************************************************************)
(* Lines and dates.                                                        *)
(***************************************************************************)
LEMMA LineFacts ==
    ASSUME NEW cron \in Lines
    PROVE  /\ cron.minutes \subseteq 0..Minutes - 1 /\ cron.minutes \in SUBSET Nat
           /\ Least(cron.minutes) \in cron.minutes
           /\ \A n \in cron.minutes : Least(cron.minutes) <= n
           /\ cron.hours \subseteq 0..Hours - 1 /\ cron.hours \in SUBSET Nat
           /\ Least(cron.hours) \in cron.hours
           /\ \A n \in cron.hours : Least(cron.hours) <= n
           /\ cron.doms \subseteq 1..MaxDom /\ cron.doms \in SUBSET Nat
           /\ Least(cron.doms) \in cron.doms
           /\ \A n \in cron.doms : Least(cron.doms) <= n
           /\ cron.months \subseteq Months /\ cron.months \in SUBSET Nat
           /\ Least(cron.months) \in cron.months
           /\ \A n \in cron.months : Least(cron.months) <= n
<1>1. /\ cron.minutes \in SUBSET Nat /\ cron.minutes # {}
      /\ cron.hours \in SUBSET Nat /\ cron.hours # {}
      /\ cron.doms \in SUBSET Nat /\ cron.doms # {}
      /\ cron.months \in SUBSET Nat /\ cron.months # {}
  <2>1. /\ cron.minutes \subseteq 0..Minutes - 1 /\ cron.minutes # {}
        /\ cron.hours \subseteq 0..Hours - 1 /\ cron.hours # {}
        /\ cron.doms \subseteq 1..MaxDom /\ cron.doms # {}
        /\ cron.months \subseteq Months /\ cron.months # {}
    BY DEF Lines
  <2>2. /\ 0..Minutes - 1 \subseteq Nat /\ 0..Hours - 1 \subseteq Nat
        /\ 1..MaxDom \subseteq Nat /\ Months \subseteq Nat
    BY CalendarFacts
  <2>3. QED
    BY <2>1, <2>2
<1>2. QED
  BY <1>1, LeastOf DEF Lines

LEMMA DayFacts ==
    ASSUME NEW cron \in Lines
    PROVE  /\ Dows(cron) \subseteq 1..Week /\ Dows(cron) \in SUBSET Nat
           /\ Least(Dows(cron)) \in Dows(cron)
           /\ \A n \in Dows(cron) : Least(Dows(cron)) <= n
           /\ AllDows(cron) => Dows(cron) = 1..Week
           /\ AllDoms(cron) => cron.doms = 1..MaxDom
<1>1. cron.dows \subseteq 0..Week - 1 /\ cron.dows # {} /\ cron.doms \subseteq 1..MaxDom
      /\ Week \in Nat \ {0} /\ MaxDom \in Nat
  BY CalendarFacts DEF Lines
<1>2. Dows(cron) \subseteq 1..Week /\ Dows(cron) # {}
  BY <1>1 DEF Dows
<1>3. Dows(cron) \in SUBSET Nat
  BY <1>1, <1>2
<1>4. AllDoms(cron) => cron.doms = 1..MaxDom
  <2>1. IsFiniteSet(1..MaxDom) /\ Cardinality(1..MaxDom) = MaxDom
    BY <1>1, FS_Interval
  <2>2. QED
    BY <1>1, <2>1, FS_Subset DEF AllDoms
<1>5. AllDows(cron) => Dows(cron) = 1..Week
  <2>1. IsFiniteSet(0..Week - 1) /\ Cardinality(0..Week - 1) = Week
    <3>1. Week - 1 \in Int /\ ~(0 > Week - 1) /\ Week - 1 - 0 + 1 = Week
      BY <1>1
    <3>2. QED
      BY <3>1, FS_Interval
  <2>2. AllDows(cron) => cron.dows = 0..Week - 1
    BY <1>1, <2>1, FS_Subset DEF AllDows
  <2>3. \A n \in 1..Week : n = Week \/ (n \in 0..Week - 1 /\ n # 0)
    BY <1>1
  <2>4. 0 \in 0..Week - 1
    BY <1>1
  <2>5. ASSUME AllDows(cron), NEW n \in 1..Week PROVE n \in Dows(cron)
    BY <2>2, <2>3, <2>4, <2>5 DEF Dows
  <2>6. QED
    BY <1>2, <2>5
<1>6. QED
  BY <1>2, <1>3, <1>4, <1>5, LeastOf

LEMMA DateFacts ==
    ASSUME NEW d \in Dates
    PROVE  /\ d.year \in Years /\ d.month \in Months /\ d.day \in 1..MaxDom
           /\ d.hour \in 0..Hours - 1 /\ d.minute \in 0..Minutes - 1
           /\ d.year \in Nat /\ d.month \in Nat /\ d.day \in Nat
           /\ d.hour \in Nat /\ d.minute \in Nat
           /\ d.day <= Length(d.year, d.month) /\ Length(d.year, d.month) \in Nat
           /\ Length(d.year, d.month) <= MaxDom /\ Week <= Length(d.year, d.month)
BY CalendarFacts DEF Dates

\* The time of a listed minute, whatever its day.
ListsTime(cron, x) == x.minute \in cron.minutes /\ x.hour \in cron.hours

(***************************************************************************)
(* On the day of the current minute NextHour finds the next time.          *)
(***************************************************************************)
LEMMA HourFinds ==
    ASSUME NEW cron \in Lines, NEW d \in Dates, NEW e \in NextHour(cron, d)
    PROVE  /\ e \in Dates /\ SameDay(d, e) /\ ListsTime(cron, e) /\ Precedes(d, e)
           /\ \A x \in Dates : SameDay(d, x) /\ ListsTime(cron, x) /\ Precedes(d, x)
                               => ~Precedes(x, e)
<1> USE DateFacts, LineFacts
<1>1. CASE d.hour \in cron.hours /\ NextMinute(cron, d) # {}
  <2>1. e \in NextMinute(cron, d)
    BY <1>1 DEF NextHour
  <2>2. PICK n \in FirstAfter(cron.minutes, d.minute) : e = [d EXCEPT !.minute = n]
    BY <2>1 DEF NextMinute
  <2>3. n \in cron.minutes /\ n > d.minute /\ \A z \in cron.minutes : z > d.minute => n <= z
    BY <2>2 DEF FirstAfter
  <2>4. n \in 0..Minutes - 1 /\ n \in Nat
    BY <2>3
  <2>5. /\ e.year = d.year /\ e.month = d.month /\ e.day = d.day /\ e.hour = d.hour
        /\ e.minute = n /\ e \in Dates
    BY <2>2, <2>4 DEF Dates
  <2>6. ASSUME NEW x \in Dates, SameDay(d, x), ListsTime(cron, x), Precedes(d, x)
        PROVE  ~Precedes(x, e)
    BY <2>3, <2>4, <2>5, <2>6 DEF SameDay, SameMonth, ListsTime, Precedes
  <2>7. QED
    BY <1>1, <2>3, <2>5, <2>6 DEF SameDay, SameMonth, ListsTime, Precedes
<1>2. CASE ~(d.hour \in cron.hours /\ NextMinute(cron, d) # {})
  <2>1. PICK h \in FirstAfter(cron.hours, d.hour) :
           e = [d EXCEPT !.hour = h, !.minute = Least(cron.minutes)]
    BY <1>2 DEF NextHour
  <2>2. h \in cron.hours /\ h > d.hour /\ \A z \in cron.hours : z > d.hour => h <= z
    BY <2>1 DEF FirstAfter
  <2>3. h \in 0..Hours - 1 /\ h \in Nat /\ Least(cron.minutes) \in 0..Minutes - 1
    BY <2>2
  <2>4. /\ e.year = d.year /\ e.month = d.month /\ e.day = d.day /\ e.hour = h
        /\ e.minute = Least(cron.minutes) /\ e \in Dates
    BY <2>1, <2>3 DEF Dates
  <2>5. ASSUME d.hour \in cron.hours, NEW n \in cron.minutes PROVE n <= d.minute
    <3>1. FirstAfter(cron.minutes, d.minute) = {}
      BY <1>2, <2>5 DEF NextMinute
    <3>2. QED
      BY <3>1, FirstAfterIs
  <2>6. ASSUME NEW x \in Dates, SameDay(d, x), ListsTime(cron, x), Precedes(d, x)
        PROVE  ~Precedes(x, e)
    <3>1. x.hour > d.hour
      BY <2>5, <2>6 DEF SameDay, SameMonth, ListsTime, Precedes
    <3>2. h <= x.hour /\ Least(cron.minutes) <= x.minute
      BY <2>2, <2>6, <3>1 DEF ListsTime
    <3>3. QED
      BY <2>3, <2>4, <2>6, <3>2 DEF SameDay, SameMonth, Precedes
  <2>7. QED
    BY <2>2, <2>4, <2>6 DEF SameDay, SameMonth, ListsTime, Precedes
<1>3. QED
  BY <1>1, <1>2

LEMMA HourFindsAll ==
    ASSUME NEW cron \in Lines, NEW d \in Dates, NextHour(cron, d) = {},
           NEW x \in Dates, SameDay(d, x), ListsTime(cron, x)
    PROVE  ~Precedes(d, x)
<1> USE DateFacts, LineFacts
<1>1. /\ FirstAfter(cron.hours, d.hour) = {}
      /\ d.hour \in cron.hours => FirstAfter(cron.minutes, d.minute) = {}
  BY DEF NextHour, NextMinute
<1>2. /\ \A z \in cron.hours : z <= d.hour
      /\ d.hour \in cron.hours => \A z \in cron.minutes : z <= d.minute
  BY <1>1, FirstAfterIs
<1>3. QED
  BY <1>2 DEF SameDay, SameMonth, ListsTime, Precedes
-----------------------------------------------------------------------------
(***************************************************************************)
(* The days of the week.  A listed one comes at the distance that the code *)
(* computes and not before, and within a week.                             *)
(***************************************************************************)
LEMMA DistanceIs ==
    ASSUME NEW cron \in Lines, NEW w \in 1..Week
    PROVE  /\ DowDistance(cron, w) \in 1..Week
           /\ After(w, DowDistance(cron, w)) \in Dows(cron)
           /\ \A k \in 1..Week : After(w, k) \in Dows(cron) => DowDistance(cron, w) <= k
           /\ w \notin Dows(cron) => DowDistance(cron, w) # Week
<1> DEFINE later == FirstAfter(Dows(cron), w)
           dist == DowDistance(cron, w)
<1>1. /\ Week \in Nat \ {0} /\ w \in Nat /\ Dows(cron) \in SUBSET Nat
      /\ Dows(cron) \subseteq 1..Week /\ Least(Dows(cron)) \in Dows(cron)
      /\ \A n \in Dows(cron) : Least(Dows(cron)) <= n
  BY CalendarFacts, DayFacts
<1>2. CASE later # {}
  <2>1. PICK n \in Dows(cron) : /\ Least(later) = n /\ n > w
                                /\ \A z \in Dows(cron) : z > w => n <= z
    BY <1>1, <1>2, FirstAfterIs
  <2>2. dist = n - w
    BY <1>2, <2>1 DEF DowDistance
  <2> HIDE DEF later, dist
  <2>3. n \in 1..Week
    BY <1>1, <2>1
  <2>4. dist \in 1..Week /\ dist # Week /\ After(w, dist) = n
    BY <1>1, <2>1, <2>2, <2>3 DEF After
  <2>5. ASSUME NEW k \in 1..Week, After(w, k) \in Dows(cron) PROVE dist <= k
    <3>1. CASE w + k <= Week
      BY <1>1, <2>1, <2>2, <2>3, <2>5, <3>1 DEF After
    <3>2. CASE ~(w + k <= Week)
      BY <1>1, <2>1, <2>2, <2>3, <3>2
    <3>3. QED
      BY <3>1, <3>2
  <2>6. QED
    BY <2>1, <2>4, <2>5 DEF dist
<1>3. CASE later = {}
  <2>1. \A z \in Dows(cron) : z <= w
    BY <1>1, <1>3, FirstAfterIs
  <2>2. dist = Least(Dows(cron)) + Week - w
    BY <1>3 DEF DowDistance
  <2> DEFINE n == Least(Dows(cron))
  <2>3. n \in 1..Week /\ n <= w /\ n \in Dows(cron) /\ dist = n + Week - w
    BY <1>1, <2>1, <2>2
  <2> HIDE DEF later, dist, n
  <2>4. dist \in 1..Week /\ After(w, dist) = n
    BY <1>1, <2>3 DEF After
  <2>5. dist = Week => w = n
    BY <1>1, <2>3
  <2>6. ASSUME NEW k \in 1..Week, After(w, k) \in Dows(cron) PROVE dist <= k
    <3>1. ~(w + k <= Week)
      BY <1>1, <2>1, <2>6 DEF After
    <3>2. w + k - Week \in Dows(cron)
      BY <2>6, <3>1 DEF After
    <3>3. n <= w + k - Week
      BY <1>1, <3>2 DEF n
    <3>4. QED
      BY <1>1, <2>3, <3>3
  <2>7. QED
    BY <2>3, <2>4, <2>5, <2>6 DEF dist
<1>4. QED
  BY <1>2, <1>3

\* Whether a line lists the n-th day of a month.
ListsDom(cron, y, m, n) ==
    IF AllDoms(cron) \/ AllDows(cron) THEN n \in cron.doms /\ Dow(y, m, n) \in Dows(cron)
    ELSE n \in cron.doms \/ Dow(y, m, n) \in Dows(cron)

LEMMA DowAhead ==
    ASSUME NEW cron \in Lines, NEW y \in Years, NEW m \in Months, NEW n \in 1..MaxDom,
           n <= Length(y, m)
    PROVE  LET dist == DowDistance(cron, Dow(y, m, n))
           IN  /\ dist \in 1..Week /\ Dow(y, m, n) \in 1..Week
               /\ n + dist <= Length(y, m) => Dow(y, m, n + dist) \in Dows(cron)
               /\ \A k \in Nat \ {0} :
                     n + k <= Length(y, m) /\ Dow(y, m, n + k) \in Dows(cron) => dist <= k
               /\ Dow(y, m, n) \notin Dows(cron) => dist # Week
<1> DEFINE w == Dow(y, m, n)
           dist == DowDistance(cron, w)
<1>1. Length(y, m) \in Nat /\ MaxDom \in Nat /\ Week \in Nat \ {0}
  BY CalendarFacts
<1>2. w \in 1..Week
  BY WeekdayIs
<1> HIDE DEF w
<1>3. /\ dist \in 1..Week /\ After(w, dist) \in Dows(cron)
      /\ \A k \in 1..Week : After(w, k) \in Dows(cron) => dist <= k
      /\ w \notin Dows(cron) => dist # Week
  BY <1>2, DistanceIs
<1>4. \A k \in 0..Week : n + k <= Length(y, m) => Dow(y, m, n + k) = After(w, k)
  BY WeekdayAfter DEF w
<1> HIDE DEF dist
<1>5. n + dist <= Length(y, m) => Dow(y, m, n + dist) \in Dows(cron)
  BY <1>1, <1>3, <1>4
<1>6. ASSUME NEW k \in Nat \ {0}, n + k <= Length(y, m), Dow(y, m, n + k) \in Dows(cron)
      PROVE  dist <= k
  <2>1. CASE k <= Week
    BY <1>1, <1>3, <1>4, <1>6, <2>1
  <2>2. CASE ~(k <= Week)
    BY <1>1, <1>3, <2>2
  <2>3. QED
    BY <2>1, <2>2
<1>7. QED
  BY <1>2, <1>3, <1>5, <1>6 DEF dist, w

LEMMA ListsDayIs == \A cron, x : ListsDay(cron, x) <=> ListsDom(cron, x.year, x.month, x.day)
BY DEF ListsDay, ListsDom, isoweekday, Dow

(* The least distance leads to the next listed day of the month.           *)
LEMMA DistancesAre ==
    ASSUME NEW cron \in Lines, NEW d \in Dates
    PROVE  LET Listed(k) == /\ d.day + k <= Length(d.year, d.month)
                            /\ ListsDom(cron, d.year, d.month, d.day + k)
               least == Least(Distances(cron, d))
           IN  /\ Distances(cron, d) # {}
                  => /\ least \in Nat \ {0}
                     /\ d.day + least <= Length(d.year, d.month) => Listed(least)
               /\ \A k \in Nat \ {0} : Listed(k) => Distances(cron, d) # {} /\ least <= k
<1> DEFINE L == Length(d.year, d.month)
           InDoms(k) == d.day + k \in cron.doms
           InDows(k) == Dow(d.year, d.month, d.day + k) \in Dows(cron)
           byDom == {dom - d.day : dom \in FirstAfter(cron.doms, d.day)}
           byDow == DowDistance(cron, isoweekday(d))
           Listed(k) == d.day + k <= L /\ ListsDom(cron, d.year, d.month, d.day + k)
<1>1. /\ d.year \in Years /\ d.month \in Months /\ d.day \in 1..MaxDom /\ d.day \in Nat
      /\ d.day <= L /\ L \in Nat /\ L <= MaxDom /\ MaxDom \in Nat /\ Week \in Nat \ {0}
      /\ cron.doms \in SUBSET Nat
  BY DateFacts, CalendarFacts, LineFacts
<1>2. /\ byDow \in Nat \ {0}
      /\ d.day + byDow <= L => InDows(byDow)
      /\ \A k \in Nat \ {0} : d.day + k <= L /\ InDows(k) => byDow <= k
  BY <1>1, DowAhead DEF isoweekday, Dow
<1>3. /\ byDom \subseteq Nat \ {0}
      /\ \A k \in byDom : InDoms(k)
      /\ \A k \in Nat \ {0} : InDoms(k) => \E j \in byDom : j <= k
  <2>1. ASSUME NEW dom \in FirstAfter(cron.doms, d.day)
        PROVE  dom - d.day \in Nat \ {0} /\ InDoms(dom - d.day)
    BY <1>1, <2>1 DEF FirstAfter
  <2>2. ASSUME NEW k \in Nat \ {0}, InDoms(k) PROVE \E j \in byDom : j <= k
    <3>1. d.day + k > d.day
      BY <1>1
    <3>2. FirstAfter(cron.doms, d.day) # {}
      BY <1>1, <2>2, <3>1, FirstAfterIs
    <3>3. PICK n \in cron.doms : /\ FirstAfter(cron.doms, d.day) = {n}
                                 /\ \A z \in cron.doms : z > d.day => n <= z
      BY <1>1, <3>2, FirstAfterIs
    <3>4. n - d.day \in byDom /\ n <= d.day + k /\ n \in Nat
      BY <1>1, <2>2, <3>1, <3>3
    <3>5. n - d.day <= k
      BY <1>1, <3>4
    <3>6. QED
      BY <3>4, <3>5
  <2>3. QED
    BY <2>1, <2>2
<1>4. \A k \in Nat \ {0} : d.day + k <= L
         => /\ AllDoms(cron) => InDoms(k)
            /\ AllDows(cron) => InDows(k)
  <2>1. ASSUME NEW k \in Nat \ {0}, d.day + k <= L
        PROVE  d.day + k \in 1..MaxDom /\ Dow(d.year, d.month, d.day + k) \in 1..Week
    BY <1>1, <2>1, WeekdayIs
  <2>2. QED
    BY <2>1, DayFacts
<1>5. Distances(cron, d) = IF AllDoms(cron) /\ AllDows(cron) THEN {1}
                           ELSE (IF AllDows(cron) THEN {} ELSE {byDow})
                                \cup (IF AllDoms(cron) THEN {} ELSE byDom)
  BY DEF Distances
<1>6. \A k \in Nat \ {0} : Listed(k) <=> d.day + k <= L /\ IF AllDoms(cron) \/ AllDows(cron)
                                                THEN InDoms(k) /\ InDows(k)
                                                ELSE InDoms(k) \/ InDows(k)
  BY DEF ListsDom
<1> HIDE DEF InDoms, InDows, byDom, byDow, Listed, L
<1>7. /\ Distances(cron, d) \subseteq Nat \ {0}
      /\ \A k \in Distances(cron, d) : d.day + k <= L => Listed(k)
      /\ \A k \in Nat \ {0} : Listed(k) => \E j \in Distances(cron, d) : j <= k
  <2>1. CASE AllDoms(cron) /\ AllDows(cron)
    BY <1>4, <1>5, <1>6, <2>1
  <2>2. CASE ~AllDoms(cron) /\ AllDows(cron)
    BY <1>3, <1>4, <1>5, <1>6, <2>2
  <2>3. CASE AllDoms(cron) /\ ~AllDows(cron)
    BY <1>2, <1>4, <1>5, <1>6, <2>3
  <2>4. CASE ~AllDoms(cron) /\ ~AllDows(cron)
    BY <1>2, <1>3, <1>5, <1>6, <2>4
  <2>5. QED
    BY <2>1, <2>2, <2>3, <2>4
<1> DEFINE least == Least(Distances(cron, d))
<1>8. Distances(cron, d) # {}
      => least \in Distances(cron, d) /\ \A j \in Distances(cron, d) : least <= j
  BY <1>7, LeastOf
<1> HIDE DEF least
<1>9. /\ Distances(cron, d) # {}
         => least \in Nat \ {0} /\ (d.day + least <= L => Listed(least))
      /\ \A k \in Nat \ {0} : Listed(k) => Distances(cron, d) # {} /\ least <= k
  <2>1. Distances(cron, d) # {}
        => least \in Nat \ {0} /\ (d.day + least <= L => Listed(least))
    BY <1>7, <1>8
  <2>2. ASSUME NEW k \in Nat \ {0}, Listed(k)
        PROVE  Distances(cron, d) # {} /\ least <= k
    <3>1. PICK j \in Distances(cron, d) : j <= k
      BY <1>7, <2>2
    <3>2. least \in Nat /\ j \in Nat /\ least <= j
      BY <1>7, <1>8, <3>1
    <3>3. QED
      BY <3>1, <3>2
  <2>3. QED
    BY <2>1, <2>2
<1>10. QED
  BY <1>9 DEF least, Listed, L

(* What ListsToday tells of the current day, and what it overlooks.        *)
LEMMA TodayIs ==
    ASSUME NEW cron \in Lines, NEW d \in Dates
    PROVE  /\ ListsToday(cron, d) => ListsDay(cron, d)
           /\ ListsDay(cron, d) /\ ~ListsToday(cron, d) => ListedByDomOnly(cron, d)
<1>1. d.day \in 1..MaxDom /\ isoweekday(d) \in 1..Week
  BY DateFacts, WeekdayIs DEF isoweekday, Dow
<1>2. /\ AllDows(cron) => isoweekday(d) \in Dows(cron)
      /\ AllDoms(cron) => d.day \in cron.doms
  BY <1>1, DayFacts
<1>3. QED
  BY <1>2 DEF ListsToday, ListsDay, ListedByDomOnly

LEMMA SameDayIs ==
    ASSUME NEW cron, NEW d, NEW x, SameDay(d, x)
    PROVE  /\ ListsDay(cron, x) <=> ListsDay(cron, d)
           /\ ListedByDomOnly(cron, x) <=> ListedByDomOnly(cron, d)
BY DEF SameDay, SameMonth, ListsDay, ListedByDomOnly, isoweekday

LEMMA OverlookedToday ==
    ASSUME NEW cron \in Lines, NEW d \in Dates,
           ListsToday(cron, d) => NextHour(cron, d) = {},
           NEW x \in Dates, SameDay(d, x), ListsTime(cron, x), ListsDay(cron, x), Precedes(d, x)
    PROVE  ListedByDomOnly(cron, x)
<1>1. ~ListsToday(cron, d)
  BY HourFindsAll
<1>2. QED
  BY <1>1, TodayIs, SameDayIs

(***************************************************************************)
(* In the month of the current minute NextDay finds the next one.          *)
(***************************************************************************)
Overlooked(cron, d, x) == ListedByDomOnly(cron, x) /\ SameDay(d, x)

LEMMA DayFinds ==
    ASSUME NEW cron \in Lines, NEW d \in Dates, NEW e \in NextDay(cron, d)
    PROVE  /\ e \in Dates /\ SameMonth(d, e) /\ ListsTime(cron, e) /\ ListsDay(cron, e)
           /\ Precedes(d, e)
           /\ \A x \in Dates : /\ SameMonth(d, x) /\ ListsTime(cron, x) /\ ListsDay(cron, x)
                               /\ Precedes(d, x) /\ Precedes(x, e)
                               => Overlooked(cron, d, x)
<1> DEFINE today == IF ListsToday(cron, d) THEN NextHour(cron, d) ELSE {}
           least == Least(Distances(cron, d))
           L == Length(d.year, d.month)
<1>1. CASE today # {}
  <2>1. ListsToday(cron, d) /\ e \in NextHour(cron, d)
    BY <1>1 DEF NextDay
  <2>2. /\ e \in Dates /\ SameDay(d, e) /\ ListsTime(cron, e) /\ Precedes(d, e)
        /\ \A x \in Dates : SameDay(d, x) /\ ListsTime(cron, x) /\ Precedes(d, x)
                            => ~Precedes(x, e)
    BY <2>1, HourFinds
  <2>3. ListsDay(cron, e)
    BY <2>1, <2>2, TodayIs, SameDayIs
  <2>4. ASSUME NEW x \in Dates, SameMonth(d, x), ListsTime(cron, x),
               Precedes(d, x), Precedes(x, e)
        PROVE  FALSE
    <3>1. SameDay(d, x)
      BY <2>2, <2>4, DateFacts DEF SameDay, SameMonth, Precedes
    <3>2. QED
      BY <2>2, <2>4, <3>1
  <2>5. QED
    BY <2>2, <2>3, <2>4 DEF SameDay
<1>2. CASE today = {}
  <2>1. /\ Distances(cron, d) # {} /\ d.day + least <= L
        /\ e = [d EXCEPT !.day = d.day + least, !.hour = Least(cron.hours),
                         !.minute = Least(cron.minutes)]
    <3>1. /\ Distances(cron, d) # {} /\ ~(d.day + least > L)
          /\ e = [d EXCEPT !.day = d.day + least, !.hour = Least(cron.hours),
                           !.minute = Least(cron.minutes)]
      BY <1>2 DEF NextDay
    <3>2. least \in Nat \ {0} /\ d.day \in Nat /\ L \in Nat
      BY <3>1, DistancesAre, DateFacts
    <3>3. QED
      BY <3>1, <3>2
  <2>2. /\ least \in Nat \ {0} /\ ListsDom(cron, d.year, d.month, d.day + least)
        /\ \A k \in Nat \ {0} :
              d.day + k <= L /\ ListsDom(cron, d.year, d.month, d.day + k) => least <= k
    BY <2>1, DistancesAre
  <2>3. /\ d.day \in Nat \ {0} /\ L \in Nat /\ L <= MaxDom /\ MaxDom \in Nat
        /\ Least(cron.hours) \in cron.hours /\ Least(cron.hours) \in 0..Hours - 1
        /\ Least(cron.minutes) \in cron.minutes /\ Least(cron.minutes) \in 0..Minutes - 1
        /\ \A n \in cron.hours : Least(cron.hours) <= n
        /\ \A n \in cron.minutes : Least(cron.minutes) <= n
    BY DateFacts, LineFacts, CalendarFacts
  <2> HIDE DEF least
  <2>4. d.day + least \in 1..MaxDom
    BY <2>1, <2>2, <2>3
  <2>5. /\ e.year = d.year /\ e.month = d.month /\ e.day = d.day + least
        /\ e.hour = Least(cron.hours) /\ e.minute = Least(cron.minutes) /\ e \in Dates
    BY <2>1, <2>3, <2>4 DEF Dates
  <2>6. ListsDay(cron, e)
    BY <2>2, <2>5, ListsDayIs
  <2>7. ListsTime(cron, e) /\ SameMonth(d, e) /\ Precedes(d, e)
    BY <2>2, <2>3, <2>5 DEF ListsTime, SameMonth, Precedes
  <2>8. ASSUME NEW x \in Dates, SameMonth(d, x), ListsTime(cron, x), ListsDay(cron, x),
               Precedes(d, x), Precedes(x, e)
        PROVE  Overlooked(cron, d, x)
    <3>1. x.day \in Nat /\ x.day <= L /\ x.year = d.year /\ x.month = d.month
          /\ x.hour \in Nat /\ x.minute \in Nat
      BY <2>8, DateFacts DEF SameMonth
    <3>2. ~(x.day < d.day)
      BY <2>3, <2>8, <3>1, DateFacts DEF Precedes, SameMonth, SameDay
    <3>3. CASE x.day = d.day
      <4>1. SameDay(d, x)
        BY <2>8, <3>3 DEF SameDay
      <4>2. QED
        BY <1>2, <2>8, <4>1, OverlookedToday DEF Overlooked
    <3>4. CASE x.day > d.day
      <4>1. x.day - d.day \in Nat \ {0} /\ d.day + (x.day - d.day) = x.day
        BY <2>3, <3>1, <3>4
      <4>2. ListsDom(cron, d.year, d.month, x.day)
        BY <2>8, <3>1, ListsDayIs
      <4>3. least <= x.day - d.day
        BY <2>2, <3>1, <4>1, <4>2
      <4>4. e.day <= x.day
        BY <2>2, <2>3, <2>5, <3>1, <4>3
      <4>5. Least(cron.hours) <= x.hour /\ Least(cron.minutes) <= x.minute
        BY <2>3, <2>8 DEF ListsTime
      <4>6. ~Precedes(x, e)
        BY <2>3, <2>4, <2>5, <3>1, <4>4, <4>5, DateFacts DEF Precedes, SameMonth, SameDay
      <4>7. QED
        BY <2>8, <4>6
    <3>5. QED
      BY <2>3, <3>1, <3>2, <3>3, <3>4
  <2>9. QED
    BY <2>5, <2>6, <2>7, <2>8
<1>3. QED
  BY <1>1, <1>2

LEMMA DayFindsAll ==
    ASSUME NEW cron \in Lines, NEW d \in Dates, NextDay(cron, d) = {},
           NEW x \in Dates, SameMonth(d, x), ListsTime(cron, x), ListsDay(cron, x),
           Precedes(d, x)
    PROVE  Overlooked(cron, d, x)
<1> DEFINE least == Least(Distances(cron, d))
           L == Length(d.year, d.month)
<1>1. /\ ListsToday(cron, d) => NextHour(cron, d) = {}
      /\ Distances(cron, d) = {} \/ d.day + least > L
  BY DEF NextDay
<1>2. /\ x.day \in Nat /\ x.day <= L /\ x.year = d.year /\ x.month = d.month
      /\ d.day \in Nat /\ L \in Nat
  BY DateFacts DEF SameMonth
<1>3. ~(x.day < d.day)
  BY <1>2, DateFacts DEF Precedes, SameMonth, SameDay
<1>4. ~(x.day > d.day)
  <2>1. SUFFICES ASSUME x.day > d.day PROVE FALSE
    OBVIOUS
  <2>2. x.day - d.day \in Nat \ {0} /\ d.day + (x.day - d.day) = x.day
    BY <1>2, <2>1
  <2>3. ListsDom(cron, d.year, d.month, x.day)
    BY <1>2, ListsDayIs
  <2>4. Distances(cron, d) # {} /\ least <= x.day - d.day
    BY <1>2, <2>2, <2>3, DistancesAre
  <2>5. least \in Nat
    BY <2>4, DistancesAre
  <2> HIDE DEF least
  <2>6. QED
    BY <1>1, <1>2, <2>4, <2>5
<1>5. SameDay(d, x)
  BY <1>2, <1>3, <1>4 DEF SameDay, SameMonth
<1>6. QED
  BY <1>1, <1>5, OverlookedToday DEF Overlooked
-----------------------------------------------------------------------------
(***************************************************************************)
(* In another month FirstDay finds the first day that is listed.  A line   *)
(* that restricts the days of the week has one in the first week.          *)
(***************************************************************************)
FirstListed(cron, dow) ==
    IF AllDows(cron) THEN IF AllDoms(cron) THEN 1 ELSE Least(cron.doms)
    ELSE IF dow \in Dows(cron) \/ (~AllDoms(cron) /\ Least(cron.doms) = 1) THEN 1
    ELSE Least({1 + DowDistance(cron, dow)}
               \cup IF AllDoms(cron) THEN {} ELSE {Least(cron.doms)})

LEMMA FirstListedIs ==
    ASSUME NEW cron \in Lines, NEW y \in Years, NEW m \in Months
    PROVE  LET day == FirstListed(cron, Dow(y, m, 1))
           IN  /\ day \in Nat \ {0}
               /\ day <= Length(y, m) => ListsDom(cron, y, m, day)
               /\ \A n \in Nat \ {0} :
                     n < day /\ n <= Length(y, m) => ~ListsDom(cron, y, m, n)
               /\ EveryMonthHasADay(cron) => day <= Length(y, m)
<1> DEFINE L == Length(y, m)
           w == Dow(y, m, 1)
           dist == DowDistance(cron, w)
           first == Least(cron.doms)
           day == FirstListed(cron, w)
           Listed(n) == ListsDom(cron, y, m, n)
           InDows(n) == Dow(y, m, n) \in Dows(cron)
<1>1. /\ L \in Nat /\ L <= MaxDom /\ MaxDom \in Nat /\ Week \in Nat \ {0} /\ Week <= L
      /\ 1 \in 1..MaxDom /\ 1 <= L
      /\ first \in Nat \ {0} /\ first \in cron.doms /\ cron.doms \in SUBSET Nat
      /\ \A n \in cron.doms : first <= n
  BY CalendarFacts, LineFacts
<1>2. /\ dist \in 1..Week
      /\ 1 + dist <= L => InDows(1 + dist)
      /\ \A k \in Nat \ {0} : 1 + k <= L /\ InDows(1 + k) => dist <= k
      /\ w \notin Dows(cron) => dist # Week
  BY <1>1, DowAhead
<1>3. \A n \in Nat \ {0} : n <= L => /\ AllDoms(cron) => n \in cron.doms
                                     /\ AllDows(cron) => InDows(n)
  <2>1. ASSUME NEW n \in Nat \ {0}, n <= L
        PROVE  n \in 1..MaxDom /\ Dow(y, m, n) \in 1..Week
    BY <1>1, <2>1, WeekdayIs
  <2>2. QED
    BY <2>1, DayFacts
<1>4. \A n : Listed(n) <=> IF AllDoms(cron) \/ AllDows(cron) THEN n \in cron.doms /\ InDows(n)
                           ELSE n \in cron.doms \/ InDows(n)
  BY DEF ListsDom
<1>5. InDows(1) <=> w \in Dows(cron)
  OBVIOUS
<1>6. EveryMonthHasADay(cron) => ~AllDows(cron) \/ first <= L
  BY DEF EveryMonthHasADay
<1>7. day = IF AllDows(cron) THEN IF AllDoms(cron) THEN 1 ELSE first
            ELSE IF w \in Dows(cron) \/ (~AllDoms(cron) /\ first = 1) THEN 1
            ELSE Least({1 + dist} \cup IF AllDoms(cron) THEN {} ELSE {first})
  BY DEF FirstListed
<1> HIDE DEF day, Listed, InDows, w, dist, L, first
<1>8. CASE AllDows(cron)
  BY <1>1, <1>3, <1>4, <1>6, <1>7, <1>8 DEF Listed, InDows, L, w, day
<1>9. CASE ~AllDows(cron) /\ (w \in Dows(cron) \/ (~AllDoms(cron) /\ first = 1))
  <2>1. day = 1
    BY <1>7, <1>9
  <2>2. Listed(1)
    BY <1>1, <1>3, <1>4, <1>5, <1>9
  <2>3. QED
    BY <1>1, <2>1, <2>2 DEF Listed, L, w, day
<1>10. CASE ~AllDows(cron) /\ ~(w \in Dows(cron) \/ (~AllDoms(cron) /\ first = 1))
  <2> DEFINE days == {1 + dist} \cup IF AllDoms(cron) THEN {} ELSE {first}
  <2>1. /\ days \in SUBSET (Nat \ {0}) /\ days # {} /\ 1 + dist \in days
        /\ ~AllDoms(cron) => first \in days
        /\ \A n \in days : n = 1 + dist \/ (n = first /\ ~AllDoms(cron))
    BY <1>1, <1>2
  <2>2. day = Least(days)
    BY <1>7, <1>10
  <2> HIDE DEF days
  <2>3. day \in days /\ \A n \in days : day <= n
    <3>1. days \in SUBSET Nat
      BY <2>1
    <3>2. QED
      BY <2>1, <2>2, <3>1, LeastOf
  <2>4. day \in Nat \ {0} /\ day <= 1 + dist /\ 1 + dist <= L /\ (~AllDoms(cron) => day <= first)
    <3>1. day \in Nat \ {0} /\ day <= 1 + dist /\ (~AllDoms(cron) => day <= first)
      BY <2>1, <2>3
    <3>2. 1 + dist <= L
      BY <1>1, <1>2, <1>10
    <3>3. QED
      BY <3>1, <3>2
  <2>5. day <= L
    BY <1>1, <1>2, <2>4
  <2>6. Listed(day)
    <3>1. CASE day = 1 + dist
      <4>1. InDows(day) /\ (AllDoms(cron) => day \in cron.doms)
        BY <1>2, <1>3, <2>4, <2>5, <3>1
      <4>2. QED
        BY <1>4, <1>10, <4>1
    <3>2. CASE day = first /\ ~AllDoms(cron)
      <4>1. day \in cron.doms
        BY <1>1, <3>2
      <4>2. QED
        BY <1>4, <1>10, <3>2, <4>1
    <3>3. QED
      BY <2>1, <2>3, <3>1, <3>2
  <2>7. ASSUME NEW n \in Nat \ {0}, n < day, n <= L, Listed(n) PROVE FALSE
    <3>1. n \in cron.doms /\ ~AllDoms(cron) => first <= n
      BY <1>1
    <3>2. ~InDows(n)
      <4>1. CASE n = 1
        BY <1>5, <1>10, <4>1
      <4>2. CASE n # 1
        <5>1. n - 1 \in Nat \ {0} /\ 1 + (n - 1) = n /\ ~(dist <= n - 1)
          BY <1>2, <2>4, <2>7, <4>2
        <5>2. QED
          BY <1>2, <2>7, <5>1
      <4>3. QED
        BY <4>1, <4>2
    <3>3. ~AllDoms(cron) /\ n \in cron.doms
      BY <1>4, <1>10, <2>7, <3>2
    <3>4. QED
      BY <1>1, <2>4, <2>7, <3>1, <3>3
  <2>8. QED
    BY <2>4, <2>5, <2>6, <2>7 DEF Listed, L, w, day
<1>11. QED
  BY <1>8, <1>9, <1>10

LEMMA FirstDayFinds ==
    ASSUME NEW cron \in Lines, NEW d \in Dates, d.day = 1
    PROVE  /\ EveryMonthHasADay(cron) => FirstDay(cron, d) # {}
           /\ \A e \in FirstDay(cron, d) :
                 /\ e \in Dates /\ SameMonth(d, e) /\ e.hour = d.hour /\ e.minute = d.minute
                 /\ ListsDay(cron, e)
                 /\ \A x \in Dates : SameMonth(d, x) /\ ListsDay(cron, x) => e.day <= x.day
<1> DEFINE day == FirstListed(cron, Dow(d.year, d.month, 1))
           L == Length(d.year, d.month)
<1>1. /\ day \in Nat \ {0}
      /\ day <= L => ListsDom(cron, d.year, d.month, day)
      /\ \A n \in Nat \ {0} : n < day /\ n <= L => ~ListsDom(cron, d.year, d.month, n)
      /\ EveryMonthHasADay(cron) => day <= L
  BY FirstListedIs, DateFacts
<1>2. FirstDay(cron, d) = IF day <= L THEN {[d EXCEPT !.day = day]} ELSE {}
  BY DEF FirstDay, FirstListed, isoweekday, Dow
<1> HIDE DEF day
<1>3. L \in Nat /\ L <= MaxDom /\ MaxDom \in Nat
  BY DateFacts, CalendarFacts
<1>4. ASSUME NEW e \in FirstDay(cron, d)
      PROVE  /\ e \in Dates /\ SameMonth(d, e) /\ e.hour = d.hour /\ e.minute = d.minute
             /\ ListsDay(cron, e)
             /\ \A x \in Dates : SameMonth(d, x) /\ ListsDay(cron, x) => e.day <= x.day
  <2>1. e = [d EXCEPT !.day = day] /\ day <= L
    BY <1>2
  <2>2. /\ e.year = d.year /\ e.month = d.month /\ e.day = day
        /\ e.hour = d.hour /\ e.minute = d.minute
    BY <2>1 DEF Dates
  <2>3. day \in 1..MaxDom
    BY <1>1, <1>3, <2>1
  <2>4. e \in Dates
    BY <2>1, <2>3 DEF Dates
  <2>5. ListsDay(cron, e)
    BY <1>1, <2>1, <2>2, ListsDayIs
  <2>6. ASSUME NEW x \in Dates, SameMonth(d, x), ListsDay(cron, x) PROVE day <= x.day
    <3>1. /\ x.day \in Nat \ {0} /\ x.day <= L
          /\ ListsDom(cron, d.year, d.month, x.day)
      BY <2>6, DateFacts, ListsDayIs DEF SameMonth
    <3>2. QED
      BY <1>1, <3>1
  <2>7. QED
    BY <2>2, <2>4, <2>5, <2>6 DEF SameMonth
<1>5. QED
  BY <1>1, <1>2, <1>4
-----------------------------------------------------------------------------
(***************************************************************************)
(* The next entry.                                                         *)
(***************************************************************************)
FirstOf(cron, y, m) ==
    [year |-> y, month |-> m, day |-> 1,
     hour |-> Least(cron.hours), minute |-> Least(cron.minutes)]

\* The two dates that NextMonth gives to FirstDay.
FirstLater(cron, d, k) ==
    [[d EXCEPT !.day = 1, !.hour = Least(cron.hours), !.minute = Least(cron.minutes)]
        EXCEPT !.month = k]

FirstNextYear(cron, d, k) ==
    [[d EXCEPT !.day = 1, !.hour = Least(cron.hours), !.minute = Least(cron.minutes)]
        EXCEPT !.year = d.year + 1, !.month = k]

LEMMA FirstLaterIs ==
    ASSUME NEW cron, NEW d \in Dates, NEW k
    PROVE  /\ FirstLater(cron, d, k) = FirstOf(cron, d.year, k)
           /\ FirstNextYear(cron, d, k) = FirstOf(cron, d.year + 1, k)
<1> DEFINE h == Least(cron.hours)
           n == Least(cron.minutes)
           z == d.year + 1
           e == FirstLater(cron, d, k)
           f == FirstNextYear(cron, d, k)
<1>1. e = [[d EXCEPT !.day = 1, !.hour = h, !.minute = n] EXCEPT !.month = k]
  BY DEF FirstLater
<1>2. f = [[d EXCEPT !.day = 1, !.hour = h, !.minute = n] EXCEPT !.year = z, !.month = k]
  BY DEF FirstNextYear
<1> HIDE DEF h, n, z, e, f
<1>3. e \in [year : {d.year}, month : {k}, day : {1}, hour : {h}, minute : {n}]
  BY <1>1 DEF Dates
<1>4. f \in [year : {z}, month : {k}, day : {1}, hour : {h}, minute : {n}]
  BY <1>2 DEF Dates
<1>5. e = [year |-> d.year, month |-> k, day |-> 1, hour |-> h, minute |-> n]
  BY <1>3
<1>6. f = [year |-> z, month |-> k, day |-> 1, hour |-> h, minute |-> n]
  BY <1>4
<1>7. QED
  BY <1>5, <1>6 DEF FirstOf, e, f, h, n, z

LEMMA NextIsIn ==
    ASSUME NEW cron, NEW d
    PROVE  getNextEntry(cron, d) =
             LET inThisMonth == IF d.month \in cron.months THEN NextDay(cron, d) ELSE {}
                 later == FirstAfter(cron.months, d.month)
             IN  IF inThisMonth # {} THEN inThisMonth
                 ELSE IF later # {} THEN FirstDay(cron, FirstLater(cron, d, Least(later)))
                 ELSE FirstDay(cron, FirstNextYear(cron, d, Least(cron.months)))
BY DEF getNextEntry, NextMonth, FirstLater, FirstNextYear

LEMMA FirstOfIs ==
    ASSUME NEW cron \in Lines, NEW y \in Years, NEW m \in Months
    PROVE  FirstOf(cron, y, m) \in Dates
<1>1. 1 \in 1..MaxDom /\ 1 <= Length(y, m)
  BY CalendarFacts
<1>2. QED
  BY <1>1, LineFacts DEF FirstOf, Dates

\* What getNextEntry owes of an answer.
IsNext(cron, d, e) ==
    /\ e \in Dates /\ Lists(cron, e) /\ Precedes(d, e)
    /\ \A x \in Skips(cron, d, e) : Overlooked(cron, d, x)

\* Nothing is left of the current month, and of months that are not listed.
LEMMA MonthIsOver ==
    ASSUME NEW cron \in Lines, NEW d \in Dates,
           d.month \in cron.months => NextDay(cron, d) = {},
           NEW x \in Dates, SameMonth(d, x), Lists(cron, x), Precedes(d, x)
    PROVE  Overlooked(cron, d, x)
<1>1. d.month \in cron.months /\ ListsTime(cron, x) /\ ListsDay(cron, x)
  BY DEF Lists, ListsTime, SameMonth
<1>2. QED
  BY <1>1, DayFindsAll

LEMMA MonthsPrecede ==
    ASSUME NEW d \in Dates, NEW e \in Dates, Precedes(d, e)
    PROVE  d.year < e.year \/ (d.year = e.year /\ d.month <= e.month)
BY DateFacts DEF Precedes, SameMonth, SameDay

\* The first entry of a later month, when no month in between is listed.
LEMMA LaterMonth ==
    ASSUME NEW cron \in Lines, NEW d \in Dates,
           d.month \in cron.months => NextDay(cron, d) = {},
           NEW y \in Years, NEW m \in cron.months,
           \/ y = d.year /\ m > d.month
              /\ \A n \in cron.months : n > d.month => m <= n
           \/ y = d.year + 1 /\ (\A n \in cron.months : n <= d.month /\ m <= n),
           NEW e \in FirstDay(cron, FirstOf(cron, y, m))
    PROVE  IsNext(cron, d, e)
<1>1. m \in Months /\ m \in Nat /\ cron.months \in SUBSET Nat
  BY LineFacts
<1> DEFINE f == FirstOf(cron, y, m)
<1>2. /\ f \in Dates /\ f.year = y /\ f.month = m /\ f.day = 1
      /\ f.hour = Least(cron.hours) /\ f.minute = Least(cron.minutes)
  BY <1>1, FirstOfIs DEF FirstOf
<1> HIDE DEF f
<1>3. /\ e \in Dates /\ SameMonth(f, e) /\ e.hour = f.hour /\ e.minute = f.minute
      /\ ListsDay(cron, e)
      /\ \A x \in Dates : SameMonth(f, x) /\ ListsDay(cron, x) => e.day <= x.day
  BY <1>2, FirstDayFinds DEF f
<1>4. e.year = y /\ e.month = m
  BY <1>2, <1>3 DEF SameMonth
<1>5. Lists(cron, e)
  BY <1>2, <1>3, <1>4, LineFacts DEF Lists
<1>6. d.year \in Nat /\ d.month \in Nat
  BY DateFacts
<1>7. Precedes(d, e)
  BY <1>1, <1>4, <1>6 DEF Precedes
<1>8. ASSUME NEW x \in Dates, Lists(cron, x), Precedes(d, x), Precedes(x, e)
      PROVE  Overlooked(cron, d, x)
  <2>1. /\ x.month \in cron.months /\ x.year \in Nat /\ x.month \in Nat /\ x.day \in Nat
        /\ ListsDay(cron, x) /\ x.hour \in Nat /\ x.minute \in Nat
        /\ Least(cron.hours) <= x.hour /\ Least(cron.minutes) <= x.minute
    BY <1>8, DateFacts, LineFacts DEF Lists
  <2>2. ~SameMonth(f, x)
    <3>1. SUFFICES ASSUME SameMonth(f, x) PROVE FALSE
      OBVIOUS
    <3>2. e.day <= x.day /\ x.year = e.year /\ x.month = e.month
      BY <1>2, <1>3, <1>4, <2>1, <3>1 DEF SameMonth
    <3>3. e.day \in Nat /\ e.hour \in Nat /\ e.minute \in Nat
          /\ e.hour <= x.hour /\ e.minute <= x.minute
      BY <1>2, <1>3, <2>1, DateFacts
    <3>4. QED
      BY <1>8, <2>1, <3>2, <3>3, DateFacts DEF Precedes, SameMonth, SameDay
  <2>3. SameMonth(d, x)
    <3>1. ~(x.year = y /\ x.month = m)
      BY <1>2, <2>2 DEF SameMonth
    <3>2. /\ d.year < x.year \/ (d.year = x.year /\ d.month <= x.month)
          /\ x.year < y \/ (x.year = y /\ x.month <= m)
      BY <1>3, <1>4, <1>8, MonthsPrecede
    <3>3. x.year = d.year /\ x.month = d.month
      BY <1>1, <1>6, <2>1, <3>1, <3>2
    <3>4. QED
      BY <3>3 DEF SameMonth
  <2>4. QED
    BY <1>8, <2>3, MonthIsOver
<1>9. QED
  BY <1>3, <1>5, <1>7, <1>8 DEF IsNext, Skips

LEMMA NextIs ==
    ASSUME NEW cron \in Lines, NEW d \in Dates, d.year # Greatest(Years)
    PROVE  /\ EveryMonthHasADay(cron) => getNextEntry(cron, d) # {}
           /\ \A e \in getNextEntry(cron, d) : IsNext(cron, d, e)
<1> DEFINE inThisMonth == IF d.month \in cron.months THEN NextDay(cron, d) ELSE {}
           later == FirstAfter(cron.months, d.month)
<1>1. /\ d.year \in Years /\ d.year \in Nat /\ d.month \in Nat /\ cron.months \in SUBSET Nat
      /\ Least(cron.months) \in cron.months /\ \A n \in cron.months : Least(cron.months) <= n
      /\ cron.months \subseteq Months
  BY DateFacts, LineFacts
<1>2. d.year + 1 \in Years
  <2>1. Years = 1..Len(Calendar) /\ Len(Calendar) \in Nat \ {0}
    BY CalendarFacts
  <2>2. Greatest(Years) = Len(Calendar)
    <3>1. \A x \in Years : (\A z \in Years : z <= x) <=> x = Len(Calendar)
      BY <2>1
    <3>2. Len(Calendar) \in Years
      BY <2>1
    <3>3. QED
      BY <3>1, <3>2 DEF Greatest
  <2>3. QED
    BY <1>1, <2>1, <2>2
<1>3. CASE inThisMonth # {}
  <2>1. getNextEntry(cron, d) = NextDay(cron, d) /\ d.month \in cron.months
        /\ NextDay(cron, d) # {}
    BY <1>3 DEF getNextEntry, NextMonth
  <2>2. ASSUME NEW e \in NextDay(cron, d) PROVE IsNext(cron, d, e)
    <3>1. /\ e \in Dates /\ SameMonth(d, e) /\ ListsTime(cron, e) /\ ListsDay(cron, e)
          /\ Precedes(d, e)
          /\ \A x \in Dates : /\ SameMonth(d, x) /\ ListsTime(cron, x) /\ ListsDay(cron, x)
                              /\ Precedes(d, x) /\ Precedes(x, e)
                              => Overlooked(cron, d, x)
      BY DayFinds
    <3>2. Lists(cron, e)
      BY <2>1, <3>1 DEF Lists, ListsTime, SameMonth
    <3>3. ASSUME NEW x \in Dates, Lists(cron, x), Precedes(d, x), Precedes(x, e)
          PROVE  Overlooked(cron, d, x)
      <4>1. SameMonth(d, x)
        BY <3>1, <3>3, DateFacts DEF SameMonth, SameDay, Precedes
      <4>2. QED
        BY <3>1, <3>3, <4>1 DEF Lists, ListsTime
    <3>4. QED
      BY <3>1, <3>2, <3>3 DEF IsNext, Skips
  <2>3. QED
    BY <2>1, <2>2
<1>4. CASE inThisMonth = {} /\ later # {}
  <2>1. PICK m \in cron.months : /\ Least(later) = m /\ m > d.month
                                 /\ \A n \in cron.months : n > d.month => m <= n
    BY <1>1, <1>4, FirstAfterIs
  <2>2. getNextEntry(cron, d) = FirstDay(cron, FirstOf(cron, d.year, m))
    BY <1>4, <2>1, NextIsIn, FirstLaterIs
  <2>3. d.month \in cron.months => NextDay(cron, d) = {}
    BY <1>4
  <2>4. EveryMonthHasADay(cron) => FirstDay(cron, FirstOf(cron, d.year, m)) # {}
    BY <1>1, FirstOfIs, FirstDayFinds DEF FirstOf
  <2>5. QED
    BY <1>1, <2>1, <2>2, <2>3, <2>4, LaterMonth
<1>5. CASE inThisMonth = {} /\ later = {}
  <2> DEFINE m == Least(cron.months)
  <2>1. \A n \in cron.months : n <= d.month
    BY <1>1, <1>5, FirstAfterIs
  <2>2. getNextEntry(cron, d) = FirstDay(cron, FirstOf(cron, d.year + 1, m))
    BY <1>5, NextIsIn, FirstLaterIs
  <2>3. d.month \in cron.months => NextDay(cron, d) = {}
    BY <1>5
  <2>4. EveryMonthHasADay(cron) => FirstDay(cron, FirstOf(cron, d.year + 1, m)) # {}
    BY <1>1, <1>2, FirstOfIs, FirstDayFinds DEF FirstOf
  <2> HIDE DEF m
  <2>5. m \in cron.months /\ \A n \in cron.months : n <= d.month /\ m <= n
    BY <1>1, <2>1 DEF m
  <2>6. QED
    BY <1>2, <2>2, <2>3, <2>4, <2>5, LaterMonth
<1>6. QED
  BY <1>3, <1>4, <1>5
-----------------------------------------------------------------------------
(* A line stays what it is, and the current minute one of the calendar     *)
(* (cron.py:240-252).                                                      *)
ScheduleTypeOK == line \in Lines /\ date \in Dates

THEOREM ScheduleTypeCorrect == ScheduleSpec => []ScheduleTypeOK
<1>1. ScheduleInit => ScheduleTypeOK
  BY DEF ScheduleInit, ScheduleTypeOK
<1>2. ScheduleTypeOK /\ [Advances]_<<line, date>> => ScheduleTypeOK'
  BY NextIs DEF Advances, Ends, ScheduleTypeOK, IsNext
<1>3. QED
  BY <1>1, <1>2, PTL DEF ScheduleSpec

(* getNextEntry answers a minute that the line lists, later than the       *)
(* current one, and always does when the first listed day is one of every  *)
(* month (cron.py:53-247).                                                 *)
THEOREM NextIsListed == ScheduleSpec => []EntryIsListed
<1>1. ScheduleTypeOK => EntryIsListed
  BY NextIs DEF ScheduleTypeOK, EntryIsListed, Ends, IsNext
<1>2. QED
  BY <1>1, ScheduleTypeCorrect, PTL

(* No listed minute lies before the answer, but on the current day when    *)
(* ListsToday overlooks it (cron.py:53-247).                               *)
THEOREM NextSkipsNothing == ScheduleSpec => []SkipsNothing
<1>1. ScheduleTypeOK => SkipsNothing
  BY NextIs DEF ScheduleTypeOK, SkipsNothing, Ends, IsNext, Overlooked
<1>2. QED
  BY <1>1, ScheduleTypeCorrect, PTL
=============================================================================
