--------------------------- MODULE WebPagesProofs ---------------------------
(***************************************************************************)
(* Proofs about the timers of AjaxFilter, for any filters, pages and       *)
(* numbers of requests, events and failures, and about Portlets, for any   *)
(* pages and columns.                                                      *)
(*                                                                         *)
(* OneTimer is inductive once it is known that timers is a record: a timer *)
(* is started either after both were cleared, or in the place of the one   *)
(* that fires, while the other is not pending.                             *)
(*                                                                         *)
(* The icons are made by the ready handler from what has been loaded: that *)
(* they are right needs that nothing was hidden before.  After it nothing  *)
(* is loaded or hidden that keeps its icon.                                *)
(*                                                                         *)
(* That a page restores what it saved needs two things.  The cookies of    *)
(* its columns are those of the arrangement that was kept: all columns are *)
(* saved at once, and each portlet is in one of them, at one place.  And   *)
(* appending the entries one after the other, each from wherever its       *)
(* portlet stands, ends in that arrangement: what has been appended to a   *)
(* column is not disturbed by what is appended later, because no other     *)
(* entry names it, and at the end nothing else is left.                    *)
(***************************************************************************)
EXTENDS AjaxFilter, Portlets, SequenceTheorems, WellFoundedInduction, TLAPS

TimersKnown ==
    /\ timers = [refreshtimer |-> timers.refreshtimer,
                 refreshparamtimer |-> timers.refreshparamtimer]
    /\ timers.refreshtimer \in BOOLEAN
    /\ orphan \in BOOLEAN

TimerInv == TimersKnown /\ OneTimer

LEMMA NothingPending ==
  /\ NoTimers = [refreshtimer |-> NoTimers.refreshtimer,
                 refreshparamtimer |-> NoTimers.refreshparamtimer]
  /\ NoTimers.refreshtimer = FALSE
  /\ NoTimers.refreshparamtimer = NoAsk
  BY DEF NoTimers

LEMMA ClearingKeeps ==
  ASSUME orphan = FALSE, orphan' = FALSE, timers' = NoTimers  PROVE  TimerInv'
  BY NothingPending DEF TimerInv, TimersKnown, OneTimer

(* Starting the timer of a search after clearing both (1358-1361).         *)
LEMMA PushSearchKeeps ==
  ASSUME TimerInv, PushSearch  PROVE  TimerInv'
  BY DEF TimerInv, TimersKnown, OneTimer, PushSearch, StartsTimer, NoTimers

(* A search with parameters clears both timers before it starts one        *)
(* (1334-1352).                                                            *)
LEMMA UpdateSearchParamKeeps ==
  ASSUME NEW ask, TimerInv, UpdateSearchParam(ask)  PROVE  TimerInv'
  <1>1. CASE refresh
    BY <1>1 DEF TimerInv, TimersKnown, OneTimer, UpdateSearchParam, StartsParamTimer, NoTimers
  <1>2. CASE ~refresh
    <2>1. timers' = NoTimers /\ orphan' = orphan
      BY <1>2 DEF UpdateSearchParam
    <2>2. orphan = FALSE
      BY DEF TimerInv, TimersKnown, OneTimer
    <2> QED BY <2>1, <2>2, ClearingKeeps
  <1> QED BY <1>1, <1>2

(* The timer of a search that fires leaves its place to the next one       *)
(* (1313-1329).                                                            *)
LEMMA SearchTimerKeeps ==
  ASSUME TimerInv, SearchTimerFires  PROVE  TimerInv'
  <1>1. CASE refresh
    BY <1>1 DEF TimerInv, TimersKnown, OneTimer, SearchTimerFires, StartsTimer
  <1>2. CASE ~refresh
    BY <1>2 DEF TimerInv, TimersKnown, OneTimer, SearchTimerFires
  <1> QED BY <1>1, <1>2

LEMMA TimerInvInit == Init => TimerInv
  BY NothingPending DEF Init, TimerInv, TimersKnown, OneTimer

LEMMA TimerInvStep ==
  ASSUME TimerInv, [Next]_vars  PROVE  TimerInv'
  <1>1. CASE Opens
    BY <1>1, PushSearchKeeps DEF Opens
  <1>2. CASE Leaves
    BY <1>2 DEF Leaves, TimerInv, TimersKnown, OneTimer, NoTimers
  <1>3. ASSUME NEW f \in Filters, Types(f)  PROVE TimerInv'
    BY <1>3, PushSearchKeeps DEF Types
  <1>4. ASSUME NEW s \in Starts, Clicks(s)  PROVE TimerInv'
    BY <1>4, UpdateSearchParamKeeps DEF Clicks
  <1>5. CASE SearchTimerFires
    BY <1>5, SearchTimerKeeps
  <1>6. CASE ParamTimerFires
    BY <1>6, UpdateSearchParamKeeps DEF ParamTimerFires
  <1>7. ASSUME NEW i \in 1..MaxRequests, Serves(i) \/ Answers(i) \/ Fails(i)  PROVE TimerInv'
    BY <1>7 DEF Serves, Answers, Fails, TimerInv, TimersKnown, OneTimer
  <1>8. CASE UNCHANGED vars
    BY <1>8 DEF vars, TimerInv, TimersKnown, OneTimer
  <1> QED BY <1>1, <1>2, <1>3, <1>4, <1>5, <1>6, <1>7, <1>8 DEF Next

(* A list never has two timers, and none that cannot be cleared            *)
(* (PageGenerator.php:1294-1361).                                          *)
THEOREM TimersKept == Spec => []OneTimer
  <1>1. TimerInv => OneTimer
    BY DEF TimerInv
  <1> QED BY TimerInvInit, TimerInvStep, <1>1, PTL DEF Spec
-----------------------------------------------------------------------------
\* Before the ready handler there are no icons, and what is loaded is visible.
Fresh == ~ready => loaded \subseteq visible /\ \A q \in DOMAIN icon : icon[q] = "none"

IconInv ==
    /\ icon = [q \in DOMAIN icon |-> icon[q]]
    /\ \A q \in DOMAIN icon : icon[q] \in {"none", "minus", "plus"}
    /\ Fresh
    /\ IconsTell

LEMMA IconInvInit == PortletsInit => IconInv
  BY DEF PortletsInit, IconInv, Fresh, IconsTell

(* The ready handler gives a closed icon to what it hides (40-68).         *)
LEMMA ReadyKeeps ==
  ASSUME IconInv, Ready  PROVE  IconInv'
  <1> DEFINE closed == Closed
  <1>1. /\ ~ready /\ ready'
        /\ visible' = visible \ closed
        /\ icon' = [q \in DOMAIN icon |-> IconAfter(q, closed)]
    BY DEF Ready
  <1>2. loaded \subseteq visible
    BY <1>1 DEF IconInv, Fresh
  <1> HIDE DEF closed
  <1>3. \A q \in DOMAIN icon : icon'[q] = "minus" <=> q \in loaded /\ q \notin closed
    BY <1>1 DEF IconAfter
  <1>4. \A q \in DOMAIN icon : icon'[q] # "none" => q \in loaded
    BY <1>1 DEF IconAfter
  <1>5. \A q \in DOMAIN icon : icon'[q] \in {"none", "minus", "plus"}
    BY <1>1 DEF IconAfter
  <1> QED BY <1>1, <1>2, <1>3, <1>4, <1>5 DEF IconInv, Fresh, IconsTell

(* A click changes the icon and the content together (70-75).              *)
LEMMA TogglesKeeps ==
  ASSUME NEW q, IconInv, Toggles(q)  PROVE  IconInv'
  BY DEF Toggles, IconInv, Fresh, IconsTell

LEMMA IconInvStep ==
  ASSUME IconInv, [PortletsNext]_portletVars  PROVE  IconInv'
  <1>1. ASSUME NEW p \in Pages, Displays(p)  PROVE IconInv'
    BY <1>1 DEF Displays, IconInv, Fresh, IconsTell
  <1>2. CASE Ready
    BY <1>2, ReadyKeeps
  <1>3. ASSUME NEW q \in PortletsOf(page), Loads(q)  PROVE IconInv'
    BY <1>3 DEF Loads, IconInv, Fresh, IconsTell
  <1>4. ASSUME NEW q \in PortletsOf(page), Toggles(q)  PROVE IconInv'
    BY <1>4, TogglesKeeps
  <1>5. ASSUME NEW q \in PortletsOf(page), Resizes(q)  PROVE IconInv'
    BY <1>5 DEF Resizes, shape, IconInv, Fresh, IconsTell
  <1>6. ASSUME NEW q, NEW c, NEW i, Drags(q, c, i)  PROVE IconInv'
    BY <1>6 DEF Drags, IconInv, Fresh, IconsTell
  <1>7. CASE UNCHANGED portletVars
    BY <1>7 DEF portletVars, shape, IconInv, Fresh, IconsTell
  <1> QED BY <1>1, <1>2, <1>3, <1>4, <1>5, <1>6, <1>7 DEF PortletsNext

(* The icon of a portlet always tells whether its content is visible       *)
(* (portlet.js:40-44, 70-75).                                              *)
THEOREM IconsKept == PortletsSpec => []IconsTell
  <1>1. IconInv => IconsTell
    BY DEF IconInv
  <1> QED BY IconInvInit, IconInvStep, <1>1, PTL DEF PortletsSpec
-----------------------------------------------------------------------------
(***************************************************************************)
(* Sequences without repetition: taking a member out, putting one in, and  *)
(* adding one at the end.                                                  *)
(***************************************************************************)
Once(S) == {s \in Seq(S) : \A i, j \in 1..Len(s) : s[i] = s[j] => i = j}

LEMMA OnceIs ==
    ASSUME NEW S, NEW s \in Once(S)
    PROVE  /\ s \in Seq(S) /\ Len(s) \in Nat /\ DOMAIN s = 1..Len(s)
           /\ \A i \in 1..Len(s) : s[i] \in S
           /\ \A i, j \in 1..Len(s) : s[i] = s[j] => i = j
BY DEF Once

LEMMA MemberIs ==
    ASSUME NEW S, NEW s \in Seq(S), NEW q
    PROVE  q \in ToSet(s) <=> \E i \in 1..Len(s) : s[i] = q
BY DEF ToSet

LEMMA RemovedAt ==
    ASSUME NEW S, NEW s \in Seq(S), NEW i \in 1..Len(s)
    PROVE  /\ RemoveAt(s, i) \in Seq(S) /\ Len(RemoveAt(s, i)) = Len(s) - 1
           /\ \A k \in 1..Len(s) - 1 : RemoveAt(s, i)[k] = IF k < i THEN s[k] ELSE s[k + 1]
<1> DEFINE a == SubSeq(s, 1, i - 1)
           b == SubSeq(s, i + 1, Len(s))
<1>1. Len(s) \in Nat /\ i \in Nat /\ \A k \in 1..Len(s) : s[k] \in S
  OBVIOUS
<1>2. a \in Seq(S) /\ Len(a) = i - 1 /\ \A k \in 1..(i - 1) : a[k] = s[k]
  BY <1>1
<1>3. b \in Seq(S) /\ Len(b) = Len(s) - i /\ \A k \in 1..(Len(s) - i) : b[k] = s[i + k]
  BY <1>1
<1> HIDE DEF a, b
<1>4. /\ a \o b \in Seq(S) /\ Len(a \o b) = Len(s) - 1
      /\ \A k \in 1..(Len(s) - 1) : (a \o b)[k] = IF k <= i - 1 THEN a[k] ELSE b[k - (i - 1)]
  <2>1. /\ a \o b \in Seq(S) /\ Len(a \o b) = Len(a) + Len(b)
        /\ \A k \in 1..Len(a) + Len(b) :
              (a \o b)[k] = IF k <= Len(a) THEN a[k] ELSE b[k - Len(a)]
    BY <1>2, <1>3, ConcatProperties
  <2>2. Len(a) + Len(b) = Len(s) - 1
    BY <1>1, <1>2, <1>3
  <2>3. QED
    BY <1>2, <2>1, <2>2
<1>5. ASSUME NEW k \in 1..(Len(s) - 1)
      PROVE  (a \o b)[k] = IF k < i THEN s[k] ELSE s[k + 1]
  <2>1. CASE k < i
    <3>1. k <= i - 1 /\ k \in 1..(i - 1)
      BY <1>1, <2>1
    <3>2. QED
      BY <1>2, <1>4, <2>1, <3>1
  <2>2. CASE ~(k < i)
    <3>1. ~(k <= i - 1) /\ k - (i - 1) \in 1..(Len(s) - i) /\ i + (k - (i - 1)) = k + 1
      BY <1>1, <2>2
    <3>2. QED
      BY <1>3, <1>4, <2>2, <3>1
  <2>3. QED
    BY <2>1, <2>2
<1>6. RemoveAt(s, i) = a \o b
  BY DEF RemoveAt, a, b
<1>7. QED
  BY <1>4, <1>5, <1>6

LEMMA Removed ==
    ASSUME NEW S, NEW s \in Once(S), NEW q
    PROVE  /\ q \notin ToSet(s) => RemoveFirst(s, q) = s
           /\ \A i \in 1..Len(s) : s[i] = q => RemoveFirst(s, q) = RemoveAt(s, i)
<1>1. s \in Seq(S) /\ \A i, j \in 1..Len(s) : s[i] = s[j] => i = j
  BY OnceIs
<1>2. q \notin ToSet(s) => RemoveFirst(s, q) = s
  BY <1>1, MemberIs DEF RemoveFirst
<1>3. ASSUME NEW i \in 1..Len(s), s[i] = q PROVE RemoveFirst(s, q) = RemoveAt(s, i)
  <2>1. {j \in 1..Len(s) : s[j] = q} = {i}
    BY <1>1, <1>3
  <2>2. SelectInSeq(s, LAMBDA v : v = q) = Min({i})
    BY <2>1 DEF SelectInSeq
  <2>3. Min({i}) = i
    BY DEF Min
  <2>4. QED
    BY <1>3, <2>2, <2>3 DEF RemoveFirst
<1>4. QED
  BY <1>2, <1>3

LEMMA RemovedIs ==
    ASSUME NEW S, NEW s \in Once(S), NEW q
    PROVE  /\ RemoveFirst(s, q) \in Once(S)
           /\ ToSet(RemoveFirst(s, q)) = ToSet(s) \ {q}
<1>1. CASE q \notin ToSet(s)
  BY <1>1, Removed
<1>2. CASE q \in ToSet(s)
  <2>1. /\ s \in Seq(S) /\ Len(s) \in Nat
        /\ \A i, j \in 1..Len(s) : s[i] = s[j] => i = j
    BY OnceIs
  <2>2. PICK i \in 1..Len(s) : s[i] = q
    BY <1>2, <2>1, MemberIs
  <2> DEFINE t == RemoveFirst(s, q)
  <2>3. /\ t \in Seq(S) /\ Len(t) = Len(s) - 1
        /\ \A k \in 1..Len(s) - 1 : t[k] = IF k < i THEN s[k] ELSE s[k + 1]
    <3>1. t = RemoveAt(s, i)
      BY <2>2, Removed
    <3>2. QED
      BY <2>1, <3>1, RemovedAt
  <2> HIDE DEF t
  <2>4. \A j, k \in 1..Len(t) : t[j] = t[k] => j = k
    <3>1. ASSUME NEW j \in 1..Len(t), NEW k \in 1..Len(t), t[j] = t[k] PROVE j = k
      <4>1. /\ j \in 1..Len(s) - 1 /\ k \in 1..Len(s) - 1
            /\ j \in 1..Len(s) /\ j + 1 \in 1..Len(s) /\ k \in 1..Len(s) /\ k + 1 \in 1..Len(s)
        BY <2>1, <2>3
      <4>2. (IF j < i THEN s[j] ELSE s[j + 1]) = (IF k < i THEN s[k] ELSE s[k + 1])
        BY <2>3, <3>1, <4>1
      <4>3. (IF j < i THEN j ELSE j + 1) = (IF k < i THEN k ELSE k + 1)
        BY <2>1, <4>1, <4>2
      <4>4. QED
        BY <4>1, <4>3
    <3>2. QED
      BY <3>1
  <2>5. ASSUME NEW x PROVE x \in ToSet(t) <=> x \in ToSet(s) /\ x # q
    <3>1. ASSUME x \in ToSet(t) PROVE x \in ToSet(s) /\ x # q
      <4>1. PICK k \in 1..Len(t) : t[k] = x
        BY <2>3, <3>1, MemberIs
      <4>2. k \in 1..Len(s) - 1 /\ k \in 1..Len(s) /\ k + 1 \in 1..Len(s)
        BY <2>1, <2>3
      <4>3. CASE k < i
        <5>1. x = s[k] /\ k # i
          BY <2>3, <4>1, <4>2, <4>3
        <5>2. QED
          BY <2>1, <2>2, <4>2, <5>1, MemberIs
      <4>4. CASE ~(k < i)
        <5>1. x = s[k + 1] /\ k + 1 # i
          BY <2>3, <4>1, <4>2, <4>4
        <5>2. QED
          BY <2>1, <2>2, <4>2, <5>1, MemberIs
      <4>5. QED
        BY <4>3, <4>4
    <3>2. ASSUME x \in ToSet(s), x # q PROVE x \in ToSet(t)
      <4>1. PICK k \in 1..Len(s) : s[k] = x
        BY <2>1, <3>2, MemberIs
      <4>2. k # i
        BY <2>2, <3>2, <4>1
      <4>3. CASE k < i
        <5>1. k \in 1..Len(s) - 1 /\ k \in 1..Len(t)
          BY <2>1, <2>3, <4>3
        <5>2. t[k] = x
          BY <2>3, <4>1, <4>3, <5>1
        <5>3. QED
          BY <2>3, <5>1, <5>2, MemberIs
      <4>4. CASE i < k
        <5>1. k - 1 \in 1..Len(s) - 1 /\ k - 1 \in 1..Len(t) /\ ~(k - 1 < i) /\ (k - 1) + 1 = k
          BY <2>1, <2>3, <4>4
        <5>2. t[k - 1] = x
          BY <2>3, <4>1, <5>1
        <5>3. QED
          BY <2>3, <5>1, <5>2, MemberIs
      <4>5. QED
        BY <2>1, <4>2, <4>3, <4>4
    <3>3. QED
      BY <3>1, <3>2
  <2>6. t \in Once(S)
    BY <2>3, <2>4 DEF Once
  <2>7. QED
    BY <2>5, <2>6 DEF t
<1>3. QED
  BY <1>1, <1>2

\* t is s with q at place i.
PutsIn(t, s, q, i) ==
    /\ i \in 1..Len(s) + 1 /\ Len(t) = Len(s) + 1
    /\ \A k \in 1..Len(t) : t[k] = IF k < i THEN s[k] ELSE IF k = i THEN q ELSE s[k - 1]

LEMMA PutIn ==
    ASSUME NEW S, NEW s \in Once(S), NEW q \in S, q \notin ToSet(s), NEW i,
           NEW t \in Seq(S), PutsIn(t, s, q, i)
    PROVE  t \in Once(S) /\ ToSet(t) = ToSet(s) \cup {q}
<1>1. /\ s \in Seq(S) /\ Len(s) \in Nat /\ i \in 1..Len(s) + 1 /\ i \in 1..Len(t)
      /\ Len(t) = Len(s) + 1
      /\ \A j, k \in 1..Len(s) : s[j] = s[k] => j = k
      /\ \A k \in 1..Len(s) : s[k] # q
  BY OnceIs, MemberIs DEF PutsIn
<1>2. ASSUME NEW k \in 1..Len(t)
      PROVE  /\ k < i => k \in 1..Len(s) /\ t[k] = s[k]
             /\ k = i => t[k] = q
             /\ i < k => k - 1 \in 1..Len(s) /\ t[k] = s[k - 1]
  BY <1>1 DEF PutsIn
<1>3. ASSUME NEW j \in 1..Len(t), NEW k \in 1..Len(t), t[j] = t[k] PROVE j = k
  <2> DEFINE old(n) == IF n < i THEN n ELSE n - 1
  <2>1. \A n \in 1..Len(t) : n # i => old(n) \in 1..Len(s) /\ t[n] = s[old(n)]
    BY <1>1, <1>2
  <2>2. \A m, n \in 1..Len(t) : m # i /\ n # i /\ old(m) = old(n) => m = n
    BY <1>1
  <2> HIDE DEF old
  <2>3. CASE j = i \/ k = i
    <3>1. t[j] = q
      BY <1>2, <1>3, <2>3
    <3>2. \A n \in 1..Len(t) : n # i => t[n] # q
      BY <1>1, <2>1
    <3>3. QED
      BY <1>3, <3>1, <3>2
  <2>4. CASE j # i /\ k # i
    BY <1>1, <1>3, <2>1, <2>2, <2>4
  <2>5. QED
    BY <2>3, <2>4
<1>4. ASSUME NEW x \in ToSet(t) PROVE x \in ToSet(s) \cup {q}
  <2>1. PICK k \in 1..Len(t) : t[k] = x
    BY MemberIs
  <2>2. CASE k = i
    BY <1>2, <2>1, <2>2
  <2>3. CASE k # i
    <3>1. \E j \in 1..Len(s) : s[j] = x
      BY <1>1, <1>2, <2>1, <2>3
    <3>2. QED
      BY <1>1, <3>1, MemberIs
  <2>4. QED
    BY <2>2, <2>3
<1>5. ASSUME NEW x \in ToSet(s) PROVE x \in ToSet(t)
  <2>1. PICK k \in 1..Len(s) : s[k] = x
    BY <1>1, MemberIs
  <2>2. CASE k < i
    <3>1. k \in 1..Len(t) /\ t[k] = x
      BY <1>1, <1>2, <2>1, <2>2
    <3>2. QED
      BY <3>1, MemberIs
  <2>3. CASE ~(k < i)
    <3>1. k + 1 \in 1..Len(t) /\ i < k + 1 /\ (k + 1) - 1 = k
      BY <1>1, <2>3
    <3>2. t[k + 1] = x
      BY <1>2, <2>1, <3>1
    <3>3. QED
      BY <3>1, <3>2, MemberIs
  <2>4. QED
    BY <2>2, <2>3
<1>6. q \in ToSet(t)
  <2>1. i \in 1..Len(t) /\ t[i] = q
    BY <1>1, <1>2
  <2>2. QED
    BY <2>1, MemberIs
<1>7. QED
  BY <1>3, <1>4, <1>5, <1>6 DEF Once

LEMMA Appended ==
    ASSUME NEW S, NEW s \in Once(S), NEW q \in S, q \notin ToSet(s)
    PROVE  Append(s, q) \in Once(S) /\ ToSet(Append(s, q)) = ToSet(s) \cup {q}
<1>1. s \in Seq(S) /\ Len(s) \in Nat
  BY OnceIs
<1>2. PICK t : t = Append(s, q)
  OBVIOUS
<1>3. PICK i \in 1..Len(s) + 1 : i = Len(s) + 1
  BY <1>1
<1>4. /\ t \in Seq(S) /\ Len(t) = Len(s) + 1
      /\ \A k \in 1..Len(s) : t[k] = s[k]
      /\ t[Len(s) + 1] = q
  BY <1>1, <1>2, AppendProperties
<1>5. ASSUME NEW k \in 1..Len(t)
      PROVE  t[k] = IF k < i THEN s[k] ELSE IF k = i THEN q ELSE s[k - 1]
  BY <1>1, <1>3, <1>4
<1>6. PutsIn(t, s, q, i)
  BY <1>4, <1>5 DEF PutsIn
<1>7. t \in Once(S) /\ ToSet(t) = ToSet(s) \cup {q}
  BY <1>4, <1>6, PutIn
<1>8. QED
  BY <1>2, <1>7

LEMMA Inserted ==
    ASSUME NEW S, NEW s \in Once(S), NEW q \in S, q \notin ToSet(s), NEW i \in 1..Len(s) + 1
    PROVE  InsertAt(s, i, q) \in Once(S) /\ ToSet(InsertAt(s, i, q)) = ToSet(s) \cup {q}
<1> DEFINE a == SubSeq(s, 1, i - 1)
           b == SubSeq(s, i, Len(s))
           u == <<q>>
           m == a \o u
           t == m \o b
<1>1. s \in Seq(S) /\ Len(s) \in Nat /\ i \in Nat /\ \A k \in 1..Len(s) : s[k] \in S
  BY OnceIs
<1>2. a \in Seq(S) /\ Len(a) = i - 1 /\ \A k \in 1..(i - 1) : a[k] = s[k]
  BY <1>1
<1>3. b \in Seq(S) /\ Len(b) = Len(s) - i + 1
      /\ \A k \in 1..(Len(s) - i + 1) : b[k] = s[i + k - 1]
  BY <1>1
<1>4. u \in Seq(S) /\ Len(u) = 1 /\ u[1] = q
  OBVIOUS
<1>5. InsertAt(s, i, q) = t
  BY DEF InsertAt
<1> HIDE DEF a, b, u
<1>6. /\ m \in Seq(S) /\ Len(m) = i
      /\ \A k \in 1..i : m[k] = IF k < i THEN s[k] ELSE q
  <2>1. /\ m \in Seq(S) /\ Len(m) = (i - 1) + 1
        /\ \A k \in 1..(i - 1) + 1 : m[k] = IF k <= i - 1 THEN a[k] ELSE u[k - (i - 1)]
    <3>1. /\ m \in Seq(S) /\ Len(m) = Len(a) + Len(u)
          /\ \A k \in 1..Len(a) + Len(u) : m[k] = IF k <= Len(a) THEN a[k] ELSE u[k - Len(a)]
      BY <1>2, <1>4, ConcatProperties
    <3>2. QED
      BY <1>2, <1>4, <3>1
  <2> HIDE DEF m
  <2>2. ASSUME NEW k \in 1..i PROVE m[k] = IF k < i THEN s[k] ELSE q
    <3>1. CASE k < i
      <4>1. k \in 1..(i - 1) + 1 /\ k <= i - 1 /\ k \in 1..(i - 1)
        BY <1>1, <3>1
      <4>2. QED
        BY <1>2, <2>1, <3>1, <4>1
    <3>2. CASE k = i
      <4>1. k \in 1..(i - 1) + 1 /\ ~(k <= i - 1) /\ k - (i - 1) = 1
        BY <1>1, <3>2
      <4>2. QED
        BY <1>4, <2>1, <3>2, <4>1
    <3>3. QED
      BY <1>1, <3>1, <3>2
  <2>3. QED
    BY <1>1, <2>1, <2>2
<1> HIDE DEF m
<1>7. /\ t \in Seq(S) /\ Len(t) = i + Len(b)
      /\ \A k \in 1..i + Len(b) : t[k] = IF k <= i THEN m[k] ELSE b[k - i]
  BY <1>3, <1>6, ConcatProperties
<1> HIDE DEF t
<1>8. Len(t) = Len(s) + 1
  BY <1>1, <1>3, <1>7
<1>9. ASSUME NEW k \in 1..Len(t)
      PROVE  t[k] = IF k < i THEN s[k] ELSE IF k = i THEN q ELSE s[k - 1]
  <2>1. CASE k <= i
    <3>1. k \in 1..i /\ k \in 1..i + Len(b)
      BY <1>1, <1>7, <2>1
    <3>2. t[k] = IF k < i THEN s[k] ELSE q
      BY <1>6, <1>7, <2>1, <3>1
    <3>3. QED
      BY <1>1, <2>1, <3>2
  <2>2. CASE ~(k <= i)
    <3>1. /\ k \in 1..i + Len(b) /\ k - i \in 1..(Len(s) - i + 1)
          /\ i + (k - i) - 1 = k - 1 /\ ~(k < i) /\ k # i
      BY <1>1, <1>3, <1>7, <2>2
    <3>2. QED
      BY <1>3, <1>7, <2>2, <3>1
  <2>3. QED
    BY <2>1, <2>2
<1>10. PutsIn(t, s, q, i)
  BY <1>8, <1>9 DEF PutsIn
<1>11. QED
  BY <1>5, <1>7, <1>10, PutIn
-----------------------------------------------------------------------------
(***************************************************************************)
(* The arrangements of a page: each of its portlets is in one column, at   *)
(* one place.                                                              *)
(***************************************************************************)
ColumnsOf(p) == DOMAIN Layout[p]

Arranges(p, cols) ==
    /\ cols \in [ColumnsOf(p) -> Once(PortletsOf(p))]
    /\ \A c, d \in ColumnsOf(p) : c # d => ToSet(cols[c]) \cap ToSet(cols[d]) = {}
    /\ \A q \in PortletsOf(p) : \E c \in ColumnsOf(p) : q \in ToSet(cols[c])

LEMMA LayoutArranges ==
    ASSUME NEW p \in Pages
    PROVE  Arranges(p, Layout[p]) /\ ColumnsOf(p) \subseteq ToSet(Columns)
<1>1. /\ ColumnsOf(p) \subseteq ToSet(Columns)
      /\ Layout[p] \in [ColumnsOf(p) -> Seq(PortletsOf(p))]
      /\ \A c \in ColumnsOf(p) : IsInjective(Layout[p][c])
      /\ \A c, d \in ColumnsOf(p) : c # d => ToSet(Layout[p][c]) \cap ToSet(Layout[p][d]) = {}
  BY LayoutAssumption DEF ColumnsOf
<1>2. ASSUME NEW c \in ColumnsOf(p) PROVE Layout[p][c] \in Once(PortletsOf(p))
  BY <1>1 DEF Once, IsInjective
<1>3. Layout[p] \in [ColumnsOf(p) -> Once(PortletsOf(p))]
  BY <1>1, <1>2
<1>4. \A q \in PortletsOf(p) : \E c \in ColumnsOf(p) : q \in ToSet(Layout[p][c])
  BY DEF PortletsOf, ColumnsOf
<1>5. QED
  BY <1>1, <1>3, <1>4 DEF Arranges

LEMMA TakenOutIs ==
    ASSUME NEW p, NEW cols, Arranges(p, cols), NEW q
    PROVE  /\ TakenOut(cols, q) \in [ColumnsOf(p) -> Once(PortletsOf(p))]
           /\ \A d \in ColumnsOf(p) : /\ TakenOut(cols, q)[d] = RemoveFirst(cols[d], q)
                                      /\ ToSet(TakenOut(cols, q)[d]) = ToSet(cols[d]) \ {q}
<1>1. DOMAIN cols = ColumnsOf(p) /\ \A d \in ColumnsOf(p) : cols[d] \in Once(PortletsOf(p))
  BY DEF Arranges
<1>2. \A d \in ColumnsOf(p) : /\ RemoveFirst(cols[d], q) \in Once(PortletsOf(p))
                              /\ ToSet(RemoveFirst(cols[d], q)) = ToSet(cols[d]) \ {q}
  BY <1>1, RemovedIs
<1>3. QED
  BY <1>1, <1>2 DEF TakenOut

With(cols, c, s) == [cols EXCEPT ![c] = s]

LEMMA MovedArranges ==
    ASSUME NEW p, NEW cols, Arranges(p, cols), NEW q \in PortletsOf(p), NEW c \in ColumnsOf(p),
           NEW s \in Once(PortletsOf(p)), ToSet(s) = ToSet(TakenOut(cols, q)[c]) \cup {q}
    PROVE  Arranges(p, With(TakenOut(cols, q), c, s))
<1> DEFINE out == TakenOut(cols, q)
           new == With(out, c, s)
<1>1. /\ out \in [ColumnsOf(p) -> Once(PortletsOf(p))]
      /\ \A d \in ColumnsOf(p) : ToSet(out[d]) = ToSet(cols[d]) \ {q}
  BY TakenOutIs
<1> HIDE DEF out
<1>2. /\ new \in [ColumnsOf(p) -> Once(PortletsOf(p))]
      /\ new[c] = s /\ \A d \in ColumnsOf(p) : d # c => new[d] = out[d]
  BY <1>1 DEF With
<1> HIDE DEF new
<1>3. /\ ToSet(new[c]) = (ToSet(cols[c]) \ {q}) \cup {q}
      /\ \A d \in ColumnsOf(p) : d # c => ToSet(new[d]) = ToSet(cols[d]) \ {q}
  BY <1>1, <1>2 DEF out
<1>4. /\ \A d, e \in ColumnsOf(p) : d # e => ToSet(cols[d]) \cap ToSet(cols[e]) = {}
      /\ \A r \in PortletsOf(p) : \E d \in ColumnsOf(p) : r \in ToSet(cols[d])
  BY DEF Arranges
<1>5. \A d, e \in ColumnsOf(p) : d # e => ToSet(new[d]) \cap ToSet(new[e]) = {}
  BY <1>3, <1>4
<1>6. \A r \in PortletsOf(p) : \E d \in ColumnsOf(p) : r \in ToSet(new[d])
  BY <1>3, <1>4
<1>7. QED
  BY <1>2, <1>5, <1>6 DEF Arranges, new, out

LEMMA AppendedArranges ==
    ASSUME NEW p, NEW cols, Arranges(p, cols), NEW q \in PortletsOf(p), NEW c \in ColumnsOf(p)
    PROVE  Arranges(p, AppendedTo(cols, q, c))
<1> DEFINE t == TakenOut(cols, q)[c]
           s == Append(t, q)
<1>1. t \in Once(PortletsOf(p)) /\ q \notin ToSet(t)
  BY TakenOutIs
<1>2. AppendedTo(cols, q, c) = With(TakenOut(cols, q), c, s)
  BY DEF AppendedTo, With
<1>3. s \in Once(PortletsOf(p)) /\ ToSet(s) = ToSet(t) \cup {q}
  <2> HIDE DEF t
  <2>1. QED
    BY <1>1, Appended
<1> HIDE DEF s
<1>4. QED
  BY <1>2, <1>3, MovedArranges
-----------------------------------------------------------------------------
(***************************************************************************)
(* The restoring of an arrangement K.  After n[d] entries of the cookie of *)
(* each column d, a column is some portlets that no entry has named yet,   *)
(* followed by those that its own entries named, in their order.           *)
(***************************************************************************)
EndsIn(s, t, n, M) ==
    /\ n \in Nat /\ n <= Len(s)
    /\ \A k \in 1..n : s[Len(s) - n + k] = t[k]
    /\ \A k \in 1..Len(s) - n : s[k] \notin M

LEMMA TailOfRemoved ==
    ASSUME NEW S, NEW s \in Once(S), NEW t, NEW n, NEW M, EndsIn(s, t, n, M),
           \A k \in 1..n : t[k] \in M, NEW q, q \notin M
    PROVE  EndsIn(RemoveFirst(s, q), t, n, M \cup {q})
<1>1. /\ s \in Seq(S) /\ Len(s) \in Nat
      /\ \A i, j \in 1..Len(s) : s[i] = s[j] => i = j
  BY OnceIs
<1>2. /\ n \in Nat /\ n <= Len(s)
      /\ \A k \in 1..n : s[Len(s) - n + k] = t[k]
      /\ \A k \in 1..Len(s) - n : s[k] \notin M
  BY DEF EndsIn
<1>3. CASE q \notin ToSet(s)
  <2>1. RemoveFirst(s, q) = s
    BY <1>3, Removed
  <2>2. \A k \in 1..Len(s) - n : s[k] # q
    BY <1>1, <1>2, <1>3, MemberIs
  <2>3. QED
    BY <1>2, <2>1, <2>2 DEF EndsIn
<1>4. CASE q \in ToSet(s)
  <2>1. PICK i \in 1..Len(s) : s[i] = q
    BY <1>1, <1>4, MemberIs
  <2> DEFINE r == RemoveFirst(s, q)
  <2>2. r = RemoveAt(s, i)
    BY <2>1, Removed
  <2>3. /\ Len(r) = Len(s) - 1
        /\ \A k \in 1..Len(s) - 1 : r[k] = IF k < i THEN s[k] ELSE s[k + 1]
    BY <1>1, <2>2, RemovedAt
  <2> HIDE DEF r
  <2>4. i <= Len(s) - n
    <3>1. SUFFICES ASSUME ~(i <= Len(s) - n) PROVE FALSE
      OBVIOUS
    <3>2. i - (Len(s) - n) \in 1..n /\ Len(s) - n + (i - (Len(s) - n)) = i
      BY <1>1, <1>2, <3>1
    <3>3. q = t[i - (Len(s) - n)]
      BY <1>2, <2>1, <3>2
    <3>4. QED
      BY <3>2, <3>3
  <2>5. n <= Len(r)
    BY <1>1, <1>2, <2>3, <2>4
  <2>6. ASSUME NEW k \in 1..n PROVE r[Len(r) - n + k] = t[k]
    <3>1. /\ Len(r) - n + k \in 1..Len(s) - 1 /\ ~(Len(r) - n + k < i)
          /\ (Len(r) - n + k) + 1 = Len(s) - n + k
      BY <1>1, <1>2, <2>3, <2>4, <2>5
    <3>2. QED
      BY <1>2, <2>3, <3>1
  <2>7. ASSUME NEW k \in 1..Len(r) - n PROVE r[k] \notin M \cup {q}
    <3>1. /\ k \in 1..Len(s) - 1 /\ k \in 1..Len(s) - n /\ k + 1 \in 1..Len(s) - n
          /\ k \in 1..Len(s) /\ k + 1 \in 1..Len(s)
      BY <1>1, <1>2, <2>3, <2>5
    <3>2. CASE k < i
      <4>1. r[k] = s[k] /\ k # i
        BY <2>3, <3>1, <3>2
      <4>2. QED
        BY <1>1, <1>2, <2>1, <3>1, <4>1
    <3>3. CASE ~(k < i)
      <4>1. r[k] = s[k + 1] /\ k + 1 # i
        BY <2>3, <3>1, <3>3
      <4>2. QED
        BY <1>1, <1>2, <2>1, <3>1, <4>1
    <3>4. QED
      BY <3>2, <3>3
  <2>8. QED
    BY <1>2, <2>5, <2>6, <2>7 DEF EndsIn, r
<1>5. QED
  BY <1>3, <1>4

LEMMA TailOfAppended ==
    ASSUME NEW S, NEW s \in Seq(S), NEW t, NEW n, NEW M, EndsIn(s, t, n, M),
           NEW q \in S, t[n + 1] = q
    PROVE  EndsIn(Append(s, q), t, n + 1, M)
<1>1. PICK r : r = Append(s, q)
  OBVIOUS
<1>2. /\ Len(s) \in Nat /\ Len(r) = Len(s) + 1 /\ r[Len(s) + 1] = q
      /\ \A k \in 1..Len(s) : r[k] = s[k]
  BY <1>1, AppendProperties
<1>3. /\ n \in Nat /\ n <= Len(s)
      /\ \A k \in 1..n : s[Len(s) - n + k] = t[k]
      /\ \A k \in 1..Len(s) - n : s[k] \notin M
  BY DEF EndsIn
<1>4. n + 1 \in Nat /\ n + 1 <= Len(r) /\ Len(r) - (n + 1) = Len(s) - n
  BY <1>2, <1>3
<1>5. ASSUME NEW k \in 1..n + 1 PROVE r[Len(s) - n + k] = t[k]
  <2>1. CASE k = n + 1
    <3>1. Len(s) - n + k = Len(s) + 1
      BY <1>2, <1>3, <2>1
    <3>2. QED
      BY <1>2, <2>1, <3>1
  <2>2. CASE k # n + 1
    <3>1. k \in 1..n /\ Len(s) - n + k \in 1..Len(s)
      BY <1>2, <1>3, <2>2
    <3>2. QED
      BY <1>2, <1>3, <3>1
  <2>3. QED
    BY <2>1, <2>2
<1>6. ASSUME NEW k \in 1..Len(s) - n PROVE r[k] \notin M
  <2>1. k \in 1..Len(s)
    BY <1>2, <1>3
  <2>2. QED
    BY <1>2, <1>3, <2>1
<1>7. EndsIn(r, t, n + 1, M)
  BY <1>4, <1>5, <1>6 DEF EndsIn
<1>8. QED
  BY <1>1, <1>7

LEMMA TailIsAll ==
    ASSUME NEW S, NEW s \in Seq(S), NEW t \in Seq(S), EndsIn(s, t, Len(t), S)
    PROVE  s = t
<1>1. /\ Len(s) \in Nat /\ Len(t) \in Nat /\ Len(t) <= Len(s)
      /\ \A k \in 1..Len(t) : s[Len(s) - Len(t) + k] = t[k]
      /\ \A k \in 1..Len(s) - Len(t) : s[k] \notin S
      /\ \A k \in 1..Len(s) : s[k] \in S
  BY DEF EndsIn
<1>2. Len(s) = Len(t)
  <2>1. SUFFICES ASSUME Len(s) # Len(t) PROVE FALSE
    OBVIOUS
  <2>2. 1 \in 1..Len(s) - Len(t) /\ 1 \in 1..Len(s)
    BY <1>1, <2>1
  <2>3. QED
    BY <1>1, <2>2
<1>3. \A k \in 1..Len(s) : s[k] = t[k]
  <2>1. ASSUME NEW k \in 1..Len(s) PROVE s[k] = t[k]
    <3>1. Len(s) - Len(t) + k = k /\ k \in 1..Len(t)
      BY <1>1, <1>2
    <3>2. QED
      BY <1>1, <3>1
  <2>2. QED
    BY <2>1
<1>4. QED
  BY <1>2, <1>3, SeqEqual
-----------------------------------------------------------------------------
Moved(p, K, n) == UNION {{K[d][k] : k \in 1..n[d]} : d \in ColumnsOf(p)}

Restoring(p, cols, K, n) ==
    \A d \in ColumnsOf(p) : n[d] <= Len(K[d]) /\ EndsIn(cols[d], K[d], n[d], Moved(p, K, n))

LEMMA NotMoved ==
    ASSUME NEW p, NEW K, Arranges(p, K), NEW n \in [ColumnsOf(p) -> Nat],
           \A d \in ColumnsOf(p) : n[d] <= Len(K[d]),
           NEW c \in ColumnsOf(p), n[c] < Len(K[c])
    PROVE  /\ K[c][n[c] + 1] \in PortletsOf(p) \ Moved(p, K, n)
           /\ Moved(p, K, With(n, c, n[c] + 1)) = Moved(p, K, n) \cup {K[c][n[c] + 1]}
           /\ With(n, c, n[c] + 1) \in [ColumnsOf(p) -> Nat]
<1> DEFINE q == K[c][n[c] + 1]
           m == With(n, c, n[c] + 1)
<1>1. \A d \in ColumnsOf(p) : /\ K[d] \in Seq(PortletsOf(p)) /\ Len(K[d]) \in Nat
                              /\ \A i \in 1..Len(K[d]) : K[d][i] \in PortletsOf(p)
                              /\ \A i, j \in 1..Len(K[d]) : K[d][i] = K[d][j] => i = j
  BY OnceIs DEF Arranges
<1>2. n[c] \in Nat /\ n[c] + 1 \in 1..Len(K[c])
  BY <1>1
<1>3. m \in [ColumnsOf(p) -> Nat] /\ m[c] = n[c] + 1
      /\ \A d \in ColumnsOf(p) : d # c => m[d] = n[d]
  BY <1>2 DEF With
<1> HIDE DEF m
<1>4. q \in PortletsOf(p)
  BY <1>1, <1>2
<1>5. ASSUME NEW d \in ColumnsOf(p), NEW k \in 1..n[d], K[d][k] = q PROVE FALSE
  <2>1. k \in 1..Len(K[d])
    BY <1>1
  <2>2. CASE d = c
    BY <1>1, <1>2, <1>5, <2>1, <2>2
  <2>3. CASE d # c
    <3>1. q \in ToSet(K[c]) /\ q \in ToSet(K[d])
      BY <1>1, <1>2, <1>5, <2>1, MemberIs
    <3>2. QED
      BY <2>3, <3>1 DEF Arranges
  <2>4. QED
    BY <2>2, <2>3
<1>6. q \notin Moved(p, K, n)
  BY <1>5 DEF Moved
<1>7. ASSUME NEW x PROVE x \in Moved(p, K, m) <=> x \in Moved(p, K, n) \/ x = q
  <2>1. ASSUME NEW d \in ColumnsOf(p), NEW k \in 1..m[d], x = K[d][k]
        PROVE  x \in Moved(p, K, n) \/ x = q
    <3>1. k \in 1..n[d] \/ (d = c /\ k = n[c] + 1)
      BY <1>2, <1>3
    <3>2. QED
      BY <2>1, <3>1 DEF Moved
  <2>2. ASSUME NEW d \in ColumnsOf(p), NEW k \in 1..n[d], x = K[d][k]
        PROVE  x \in Moved(p, K, m)
    <3>1. k \in 1..m[d]
      BY <1>2, <1>3
    <3>2. QED
      BY <2>2, <3>1 DEF Moved
  <2>3. q \in Moved(p, K, m)
    <3>1. n[c] + 1 \in 1..m[c]
      BY <1>2, <1>3
    <3>2. QED
      BY <3>1 DEF Moved
  <2>4. ASSUME x \in Moved(p, K, m) PROVE x \in Moved(p, K, n) \/ x = q
    <3>1. PICK d \in ColumnsOf(p) : \E k \in 1..m[d] : x = K[d][k]
      BY <2>4 DEF Moved
    <3>2. QED
      BY <2>1, <3>1
  <2>5. ASSUME x \in Moved(p, K, n) PROVE x \in Moved(p, K, m)
    <3>1. PICK d \in ColumnsOf(p) : \E k \in 1..n[d] : x = K[d][k]
      BY <2>5 DEF Moved
    <3>2. QED
      BY <2>2, <3>1
  <2>6. QED
    BY <2>3, <2>4, <2>5
<1>8. QED
  BY <1>3, <1>4, <1>6, <1>7 DEF m

\* The next entry of a column.
LEMMA RestoringStep ==
    ASSUME NEW p, NEW K, Arranges(p, K), NEW cols, Arranges(p, cols),
           NEW n \in [ColumnsOf(p) -> Nat], Restoring(p, cols, K, n),
           NEW c \in ColumnsOf(p), n[c] < Len(K[c])
    PROVE  Restoring(p, AppendedTo(cols, K[c][n[c] + 1], c), K, With(n, c, n[c] + 1))
<1> DEFINE q == K[c][n[c] + 1]
           m == With(n, c, n[c] + 1)
           M == Moved(p, K, n)
           out == TakenOut(cols, q)
           new == AppendedTo(cols, q, c)
<1>1. \A d \in ColumnsOf(p) : n[d] <= Len(K[d]) /\ EndsIn(cols[d], K[d], n[d], M)
  BY DEF Restoring
<1>2. /\ q \in PortletsOf(p) /\ q \notin M /\ Moved(p, K, m) = M \cup {q}
      /\ m[c] = n[c] + 1 /\ \A d \in ColumnsOf(p) : d # c => m[d] = n[d]
  <2>1. /\ q \in PortletsOf(p) /\ q \notin M /\ Moved(p, K, m) = M \cup {q}
        /\ m \in [ColumnsOf(p) -> Nat]
    <3>1. \A d \in ColumnsOf(p) : n[d] <= Len(K[d])
      BY <1>1
    <3> HIDE DEF q, m, M
    <3>2. QED
      BY <3>1, NotMoved DEF q, m, M
  <2>2. m[c] = n[c] + 1 /\ \A d \in ColumnsOf(p) : d # c => m[d] = n[d]
    BY DEF With
  <2>3. QED
    BY <2>1, <2>2
<1>3. /\ out \in [ColumnsOf(p) -> Once(PortletsOf(p))]
      /\ \A d \in ColumnsOf(p) : out[d] = RemoveFirst(cols[d], q)
  BY TakenOutIs
<1>4. new[c] = Append(out[c], q) /\ \A d \in ColumnsOf(p) : d # c => new[d] = out[d]
  BY <1>3 DEF AppendedTo
<1> HIDE DEF q, m, M, out, new
<1>5. ASSUME NEW d \in ColumnsOf(p) PROVE EndsIn(out[d], K[d], n[d], M \cup {q})
  <2>1. \A k \in 1..n[d] : K[d][k] \in M
    BY DEF M, Moved
  <2>2. cols[d] \in Once(PortletsOf(p))
    BY DEF Arranges
  <2>3. QED
    BY <1>1, <1>2, <1>3, <2>1, <2>2, TailOfRemoved
<1>6. ASSUME NEW d \in ColumnsOf(p)
      PROVE  m[d] <= Len(K[d]) /\ EndsIn(new[d], K[d], m[d], Moved(p, K, m))
  <2>1. CASE d = c
    <3>1. out[c] \in Seq(PortletsOf(p)) /\ K[c][n[c] + 1] = q
      BY <1>3, OnceIs DEF q
    <3>2. EndsIn(Append(out[c], q), K[c], n[c] + 1, M \cup {q})
      BY <1>2, <1>5, <3>1, TailOfAppended
    <3>3. m[c] <= Len(K[c])
      <4>1. Len(K[c]) \in Nat /\ n[c] \in Nat
        BY OnceIs DEF Arranges
      <4>2. QED
        BY <1>2, <4>1
    <3>4. QED
      BY <1>2, <1>4, <2>1, <3>2, <3>3
  <2>2. CASE d # c
    BY <1>1, <1>2, <1>4, <1>5, <2>2
  <2>3. QED
    BY <2>1, <2>2
<1>7. QED
  BY <1>6 DEF Restoring, q, m, new

\* When every entry has been read, the arrangement is restored.
LEMMA RestoredAll ==
    ASSUME NEW p, NEW K, Arranges(p, K), NEW cols, Arranges(p, cols), NEW n,
           Restoring(p, cols, K, n), \A d \in ColumnsOf(p) : n[d] = Len(K[d])
    PROVE  cols = K
<1>1. \A d \in ColumnsOf(p) : /\ K[d] \in Seq(PortletsOf(p)) /\ cols[d] \in Seq(PortletsOf(p))
                              /\ DOMAIN K[d] = 1..Len(K[d])
  BY OnceIs DEF Arranges
<1>2. PortletsOf(p) \subseteq Moved(p, K, n)
  <2>1. ASSUME NEW q \in PortletsOf(p) PROVE q \in Moved(p, K, n)
    <3>1. PICK d \in ColumnsOf(p) : q \in ToSet(K[d])
      BY DEF Arranges
    <3>2. PICK k \in 1..Len(K[d]) : K[d][k] = q
      BY <1>1, <3>1, MemberIs
    <3>3. QED
      BY <3>2 DEF Moved
  <2>2. QED
    BY <2>1
<1>3. ASSUME NEW d \in ColumnsOf(p) PROVE cols[d] = K[d]
  <2>1. EndsIn(cols[d], K[d], Len(K[d]), Moved(p, K, n))
    BY DEF Restoring
  <2>2. EndsIn(cols[d], K[d], Len(K[d]), PortletsOf(p))
    BY <1>2, <2>1 DEF EndsIn
  <2>3. QED
    BY <1>1, <2>2, TailIsAll
<1>4. QED
  BY <1>3 DEF Arranges
-----------------------------------------------------------------------------
(***************************************************************************)
(* The loops of restoreOrder.  Their recursive functions exist, by the     *)
(* least number for which they would not.                                  *)
(***************************************************************************)
LEMMA Least ==
    ASSUME NEW S \in SUBSET Nat, S # {}
    PROVE  \E x \in S : \A y \in S : x <= y
<1>1. PICK x \in S : \A y \in S : <<y, x>> \notin OpToRel(<, Nat)
  BY NatLessThanWellFounded, WFMin
<1>2. \A y \in S : ~(y < x)
  BY <1>1 DEF OpToRel
<1>3. QED
  BY <1>2

\* What entry i of column c makes of an arrangement, and what column n does.
EntryRestored(cols, c, i) ==
    IF cookie[c][i].id \in PortletsOf(page) THEN AppendedTo(cols, cookie[c][i].id, c) ELSE cols

ColumnRestored(cols, n) ==
    IF HasColumn(page, Columns[n]) THEN RestoredColumn(cols, Columns[n]) ELSE cols

IsColumnPass(f, cols, c, n) ==
    f = [i \in 0..n |-> IF i = 0 THEN cols ELSE EntryRestored(f[i - 1], c, i)]

IsPagePass(f, cols, n) ==
    f = [i \in 0..n |-> IF i = 0 THEN cols ELSE ColumnRestored(f[i - 1], i)]

LEMMA ColumnPassStep ==
    ASSUME NEW f, NEW cols, NEW c, NEW n \in Nat, IsColumnPass(f, cols, c, n)
    PROVE  f[0] = cols /\ \A i \in 1..n : f[i] = EntryRestored(f[i - 1], c, i)
<1>1. 0 \in 0..n /\ \A i \in 1..n : i \in 0..n /\ i # 0
  OBVIOUS
<1>2. QED
  BY <1>1 DEF IsColumnPass

LEMMA PagePassStep ==
    ASSUME NEW f, NEW cols, NEW n \in Nat, IsPagePass(f, cols, n)
    PROVE  f[0] = cols /\ \A i \in 1..n : f[i] = ColumnRestored(f[i - 1], i)
<1>1. 0 \in 0..n /\ \A i \in 1..n : i \in 0..n /\ i # 0
  OBVIOUS
<1>2. QED
  BY <1>1 DEF IsPagePass

LEMMA ColumnPassExists ==
    ASSUME NEW cols, NEW c, NEW n \in Nat
    PROVE  \E f : IsColumnPass(f, cols, c, n)
<1> DEFINE Bad == {k \in Nat : ~ \E f : IsColumnPass(f, cols, c, k)}
<1>1. ASSUME Bad # {} PROVE FALSE
  <2>1. PICK k \in Bad : \A j \in Bad : k <= j
    BY <1>1, Least
  <2>2. k \in Nat /\ ~ \E f : IsColumnPass(f, cols, c, k)
    OBVIOUS
  <2>3. CASE k = 0
    <3>1. IsColumnPass([i \in 0..0 |-> cols], cols, c, 0)
      BY DEF IsColumnPass
    <3>2. QED
      BY <2>2, <2>3, <3>1
  <2>4. CASE k # 0
    <3>1. k - 1 \in Nat /\ ~(k <= k - 1)
      BY <2>2, <2>4
    <3>2. PICK f : IsColumnPass(f, cols, c, k - 1)
      BY <2>1, <3>1
    <3> DEFINE g == [i \in 0..k |-> IF i < k THEN f[i] ELSE EntryRestored(f[k - 1], c, k)]
    <3>3. ASSUME NEW i \in 0..k
          PROVE  g[i] = IF i = 0 THEN cols ELSE EntryRestored(g[i - 1], c, i)
      <4>1. CASE i = 0
        BY <4>1, <3>1, <3>2, <2>4, ColumnPassStep
      <4>2. CASE i # 0 /\ i < k
        <5>1. i \in 1..(k - 1) /\ i - 1 \in 0..k /\ i - 1 < k
          BY <4>2, <3>1
        <5>2. QED
          BY <5>1, <4>2, <3>1, <3>2, ColumnPassStep
      <4>3. CASE i = k
        BY <4>3, <2>4, <3>1
      <4>4. QED
        BY <4>1, <4>2, <4>3, <2>2
    <3>4. IsColumnPass(g, cols, c, k)
      <4>1. g = [i \in 0..k |-> g[i]]
        OBVIOUS
      <4> HIDE DEF g
      <4>2. QED
        BY <4>1, <3>3 DEF IsColumnPass
    <3>5. QED
      BY <3>4, <2>2
  <2>5. QED
    BY <2>3, <2>4
<1>2. QED
  BY <1>1

LEMMA PagePassExists ==
    ASSUME NEW cols, NEW n \in Nat
    PROVE  \E f : IsPagePass(f, cols, n)
<1> DEFINE Bad == {k \in Nat : ~ \E f : IsPagePass(f, cols, k)}
<1>1. ASSUME Bad # {} PROVE FALSE
  <2>1. PICK k \in Bad : \A j \in Bad : k <= j
    BY <1>1, Least
  <2>2. k \in Nat /\ ~ \E f : IsPagePass(f, cols, k)
    OBVIOUS
  <2>3. CASE k = 0
    <3>1. IsPagePass([i \in 0..0 |-> cols], cols, 0)
      BY DEF IsPagePass
    <3>2. QED
      BY <2>2, <2>3, <3>1
  <2>4. CASE k # 0
    <3>1. k - 1 \in Nat /\ ~(k <= k - 1)
      BY <2>2, <2>4
    <3>2. PICK f : IsPagePass(f, cols, k - 1)
      BY <2>1, <3>1
    <3> DEFINE g == [i \in 0..k |-> IF i < k THEN f[i] ELSE ColumnRestored(f[k - 1], k)]
    <3>3. ASSUME NEW i \in 0..k
          PROVE  g[i] = IF i = 0 THEN cols ELSE ColumnRestored(g[i - 1], i)
      <4>1. CASE i = 0
        BY <4>1, <3>1, <3>2, <2>4, PagePassStep
      <4>2. CASE i # 0 /\ i < k
        <5>1. i \in 1..(k - 1) /\ i - 1 \in 0..k /\ i - 1 < k
          BY <4>2, <3>1
        <5>2. QED
          BY <5>1, <4>2, <3>1, <3>2, PagePassStep
      <4>3. CASE i = k
        BY <4>3, <2>4, <3>1
      <4>4. QED
        BY <4>1, <4>2, <4>3, <2>2
    <3>4. IsPagePass(g, cols, k)
      <4>1. g = [i \in 0..k |-> g[i]]
        OBVIOUS
      <4> HIDE DEF g
      <4>2. QED
        BY <4>1, <3>3 DEF IsPagePass
    <3>5. QED
      BY <3>4, <2>2
  <2>5. QED
    BY <2>3, <2>4
<1>2. QED
  BY <1>1

LEMMA RestoredColumnIs ==
    ASSUME NEW cols, NEW c, Len(cookie[c]) \in Nat
    PROVE  \E f : IsColumnPass(f, cols, c, Len(cookie[c])) /\ RestoredColumn(cols, c) = f[Len(cookie[c])]
<1> DEFINE f == CHOOSE f : IsColumnPass(f, cols, c, Len(cookie[c]))
<1>1. IsColumnPass(f, cols, c, Len(cookie[c]))
  BY ColumnPassExists
<1>2. RestoredColumn(cols, c) = f[Len(cookie[c])]
  BY DEF RestoredColumn, IsColumnPass, EntryRestored
<1>3. QED
  BY <1>1, <1>2

LEMMA RestoredIs ==
    ASSUME Len(Columns) \in Nat
    PROVE  \E f : IsPagePass(f, columns, Len(Columns)) /\ Restored = f[Len(Columns)]
<1> DEFINE f == CHOOSE f : IsPagePass(f, columns, Len(Columns))
<1>1. IsPagePass(f, columns, Len(Columns))
  BY PagePassExists
<1>2. Restored = f[Len(Columns)]
  BY DEF Restored, IsPagePass, ColumnRestored
<1>3. QED
  BY <1>1, <1>2

\* Whatever the cookies hold, restoring them loses no portlet of the page.
LEMMA ColumnKeepsArranged ==
    ASSUME NEW cols, Arranges(page, cols), NEW c \in ColumnsOf(page), Len(cookie[c]) \in Nat
    PROVE  Arranges(page, RestoredColumn(cols, c))
<1>1. PICK f : /\ IsColumnPass(f, cols, c, Len(cookie[c]))
               /\ RestoredColumn(cols, c) = f[Len(cookie[c])]
  BY RestoredColumnIs
<1>2. f[0] = cols /\ \A i \in 1..Len(cookie[c]) : f[i] = EntryRestored(f[i - 1], c, i)
  BY <1>1, ColumnPassStep
<1> DEFINE Bad == {k \in Nat : k <= Len(cookie[c]) /\ ~Arranges(page, f[k])}
<1>3. ASSUME Bad # {} PROVE FALSE
  <2>1. PICK k \in Bad : \A j \in Bad : k <= j
    BY <1>3, Least
  <2>2. k \in Nat /\ k <= Len(cookie[c]) /\ ~Arranges(page, f[k])
    OBVIOUS
  <2>3. k # 0
    BY <1>2, <2>2
  <2>4. k - 1 \in Nat /\ k - 1 <= Len(cookie[c]) /\ ~(k <= k - 1) /\ k \in 1..Len(cookie[c])
    BY <2>2, <2>3
  <2>5. Arranges(page, f[k - 1])
    BY <2>1, <2>4
  <2>6. f[k] = EntryRestored(f[k - 1], c, k)
    BY <1>2, <2>4
  <2>7. QED
    BY <2>2, <2>5, <2>6, AppendedArranges DEF EntryRestored
<1>4. QED
  BY <1>1, <1>3

LEMMA RestoredArranges ==
    ASSUME Arranges(page, columns), Len(Columns) \in Nat,
           \A c \in ColumnsOf(page) : Len(cookie[c]) \in Nat
    PROVE  Arranges(page, Restored)
<1>1. PICK f : IsPagePass(f, columns, Len(Columns)) /\ Restored = f[Len(Columns)]
  BY RestoredIs
<1>2. f[0] = columns /\ \A i \in 1..Len(Columns) : f[i] = ColumnRestored(f[i - 1], i)
  BY <1>1, PagePassStep
<1> DEFINE Bad == {k \in Nat : k <= Len(Columns) /\ ~Arranges(page, f[k])}
<1>3. ASSUME Bad # {} PROVE FALSE
  <2>1. PICK k \in Bad : \A j \in Bad : k <= j
    BY <1>3, Least
  <2>2. k \in Nat /\ k <= Len(Columns) /\ ~Arranges(page, f[k])
    OBVIOUS
  <2>3. k # 0
    BY <1>2, <2>2
  <2>4. k - 1 \in Nat /\ k - 1 <= Len(Columns) /\ ~(k <= k - 1) /\ k \in 1..Len(Columns)
    BY <2>2, <2>3
  <2>5. Arranges(page, f[k - 1])
    BY <2>1, <2>4
  <2>6. f[k] = ColumnRestored(f[k - 1], k)
    BY <1>2, <2>4
  <2>7. QED
    BY <2>2, <2>5, <2>6, ColumnKeepsArranged DEF ColumnRestored, HasColumn, ColumnsOf
<1>4. QED
  BY <1>1, <1>3
-----------------------------------------------------------------------------
\* The cookies of the page displayed name the portlets of K.
Names(K) ==
    \A c \in ColumnsOf(page) : /\ Len(cookie[c]) = Len(K[c])
                               /\ \A i \in 1..Len(K[c]) : cookie[c][i].id = K[c][i]

LEMMA WithIs ==
    ASSUME NEW D, NEW n \in [D -> Nat], NEW c \in D, NEW k \in Nat
    PROVE  /\ With(n, c, k) \in [D -> Nat] /\ With(n, c, k)[c] = k
           /\ \A d \in D : d # c => With(n, c, k)[d] = n[d]
           /\ \A j \in Nat : With(With(n, c, j), c, k) = With(n, c, k)
           /\ n[c] = k => With(n, c, k) = n
<1>1. ASSUME NEW j \in Nat PROVE With(With(n, c, j), c, k) = With(n, c, k)
  BY DEF With
<1>2. With(n, c, k) \in [D -> Nat] /\ With(n, c, k)[c] = k
      /\ \A d \in D : d # c => With(n, c, k)[d] = n[d]
  BY DEF With
<1>3. ASSUME n[c] = k PROVE With(n, c, k) = n
  BY <1>3 DEF With
<1>4. QED
  BY <1>1, <1>2, <1>3

\* A cookie of the saved arrangement, read to its end.
LEMMA ColumnRestoring ==
    ASSUME NEW K, Arranges(page, K), Names(K), NEW cols, Arranges(page, cols),
           NEW n \in [ColumnsOf(page) -> Nat], Restoring(page, cols, K, n),
           NEW c \in ColumnsOf(page), n[c] = 0
    PROVE  Restoring(page, RestoredColumn(cols, c), K, With(n, c, Len(K[c])))
<1>1. /\ Len(K[c]) \in Nat /\ Len(cookie[c]) = Len(K[c])
      /\ \A i \in 1..Len(K[c]) : cookie[c][i].id = K[c][i] /\ K[c][i] \in PortletsOf(page)
  BY OnceIs DEF Arranges, Names
<1>2. PICK f : /\ IsColumnPass(f, cols, c, Len(K[c]))
               /\ RestoredColumn(cols, c) = f[Len(K[c])]
  BY <1>1, RestoredColumnIs
<1>3. f[0] = cols /\ \A i \in 1..Len(K[c]) : f[i] = AppendedTo(f[i - 1], K[c][i], c)
  <2>1. f[0] = cols /\ \A i \in 1..Len(K[c]) : f[i] = EntryRestored(f[i - 1], c, i)
    BY <1>1, <1>2, ColumnPassStep
  <2>2. QED
    BY <1>1, <2>1 DEF EntryRestored
<1> DEFINE Good(k) == Arranges(page, f[k]) /\ Restoring(page, f[k], K, With(n, c, k))
           Bad == {k \in Nat : k <= Len(K[c]) /\ ~Good(k)}
<1>4. Good(0)
  <2>1. With(n, c, 0) = n
    BY WithIs
  <2>2. QED
    BY <1>3, <2>1
<1>5. ASSUME NEW k \in 1..Len(K[c]), Good(k - 1) PROVE Good(k)
  <2> DEFINE m == With(n, c, k - 1)
  <2>1. k - 1 \in Nat /\ k - 1 < Len(K[c]) /\ k \in Nat /\ (k - 1) + 1 = k
    BY <1>1
  <2>2. m \in [ColumnsOf(page) -> Nat] /\ m[c] = k - 1 /\ With(m, c, k) = With(n, c, k)
    BY <2>1, WithIs
  <2> HIDE DEF m
  <2>3. Restoring(page, f[k - 1], K, m) /\ Arranges(page, f[k - 1])
    BY <1>5 DEF m
  <2>4. Restoring(page, AppendedTo(f[k - 1], K[c][m[c] + 1], c), K, With(m, c, m[c] + 1))
    BY <2>1, <2>2, <2>3, RestoringStep
  <2>5. Restoring(page, f[k], K, With(n, c, k))
    BY <1>3, <2>1, <2>2, <2>4
  <2>6. Arranges(page, f[k])
    BY <1>1, <1>3, <2>3, AppendedArranges
  <2>7. QED
    BY <2>5, <2>6
<1> HIDE DEF Good
<1>6. ASSUME Bad # {} PROVE FALSE
  <2>1. PICK k \in Bad : \A j \in Bad : k <= j
    BY <1>6, Least
  <2>2. k \in Nat /\ k <= Len(K[c]) /\ ~Good(k)
    OBVIOUS
  <2>3. k # 0
    BY <1>4, <2>2
  <2>4. k - 1 \in Nat /\ k - 1 <= Len(K[c]) /\ ~(k <= k - 1) /\ k \in 1..Len(K[c])
    BY <1>1, <2>2, <2>3
  <2>5. Good(k - 1)
    BY <2>1, <2>4
  <2>6. QED
    BY <1>5, <2>2, <2>4, <2>5
<1>7. QED
  BY <1>1, <1>2, <1>6 DEF Good

\* The number of entries read when the first i columns have been restored.
ReadAfter(K, i) ==
    [d \in ColumnsOf(page) |-> IF \E j \in 1..i : Columns[j] = d THEN Len(K[d]) ELSE 0]

\* All the cookies of the saved arrangement.
LEMMA SavedIsRestored ==
    ASSUME page \in Pages, Arranges(page, columns), NEW K, Arranges(page, K), Names(K)
    PROVE  Restored = K
<1>1. /\ Len(Columns) \in Nat /\ ToSet(Columns) = {Columns[i] : i \in 1..Len(Columns)}
      /\ \A i, j \in 1..Len(Columns) : Columns[i] = Columns[j] => i = j
      /\ ColumnsOf(page) \subseteq ToSet(Columns)
  <2>1. Columns \in Seq(ToSet(Columns)) /\ IsInjective(Columns)
    BY LayoutAssumption
  <2>2. DOMAIN Columns = 1..Len(Columns) /\ Len(Columns) \in Nat
    BY <2>1
  <2>3. QED
    BY <2>1, <2>2, LayoutArranges DEF ToSet, IsInjective
<1>2. \A d \in ColumnsOf(page) : Len(K[d]) \in Nat /\ Len(cookie[d]) = Len(K[d])
  BY OnceIs DEF Arranges, Names
<1>3. PICK f : IsPagePass(f, columns, Len(Columns)) /\ Restored = f[Len(Columns)]
  BY <1>1, RestoredIs
<1>4. f[0] = columns /\ \A i \in 1..Len(Columns) : f[i] = ColumnRestored(f[i - 1], i)
  BY <1>1, <1>3, PagePassStep
<1>5. \A i \in Nat : ReadAfter(K, i) \in [ColumnsOf(page) -> Nat]
  BY <1>2 DEF ReadAfter
<1> DEFINE Good(k) == Arranges(page, f[k]) /\ Restoring(page, f[k], K, ReadAfter(K, k))
           Bad == {k \in Nat : k <= Len(Columns) /\ ~Good(k)}
<1>6. Good(0)
  <2>1. ASSUME NEW d \in ColumnsOf(page) PROVE ReadAfter(K, 0)[d] = 0
    BY DEF ReadAfter
  <2>2. Moved(page, K, ReadAfter(K, 0)) = {}
    BY <2>1 DEF Moved
  <2>3. ASSUME NEW d \in ColumnsOf(page) PROVE EndsIn(columns[d], K[d], 0, {})
    <3>1. Len(columns[d]) \in Nat
      BY OnceIs DEF Arranges
    <3>2. QED
      BY <3>1 DEF EndsIn
  <2>4. ASSUME NEW d \in ColumnsOf(page)
        PROVE  /\ ReadAfter(K, 0)[d] <= Len(K[d])
               /\ EndsIn(f[0][d], K[d], ReadAfter(K, 0)[d], Moved(page, K, ReadAfter(K, 0)))
    <3>1. 0 <= Len(K[d])
      BY <1>2
    <3>2. QED
      BY <1>4, <2>1, <2>2, <2>3, <3>1
  <2>5. Restoring(page, f[0], K, ReadAfter(K, 0))
    BY <2>4 DEF Restoring
  <2>6. QED
    BY <1>4, <2>5
<1>7. ASSUME NEW k \in 1..Len(Columns), Good(k - 1) PROVE Good(k)
  <2> DEFINE c == Columns[k]
             n == ReadAfter(K, k - 1)
  <2>1. k - 1 \in Nat /\ k \in Nat /\ f[k] = ColumnRestored(f[k - 1], k)
    BY <1>1, <1>4
  <2>2. CASE c \notin ColumnsOf(page)
    <3>1. f[k] = f[k - 1]
      BY <2>1, <2>2 DEF ColumnRestored, HasColumn, ColumnsOf
    <3>2. \A d \in ColumnsOf(page) :
            (\E j \in 1..k : Columns[j] = d) <=> (\E j \in 1..(k - 1) : Columns[j] = d)
      <4>1. ASSUME NEW d \in ColumnsOf(page), NEW j \in 1..k, Columns[j] = d
            PROVE  j \in 1..(k - 1)
        <5>1. j # k
          BY <2>2, <4>1
        <5>2. QED
          BY <5>1
      <4>2. \A j \in 1..(k - 1) : j \in 1..k
        BY <2>1
      <4>3. QED
        BY <4>1, <4>2
    <3>3. ReadAfter(K, k) = ReadAfter(K, k - 1)
      BY <3>2 DEF ReadAfter
    <3>4. QED
      BY <1>7, <3>1, <3>3
  <2>3. CASE c \in ColumnsOf(page)
    <3>1. f[k] = RestoredColumn(f[k - 1], c)
      BY <2>1, <2>3 DEF ColumnRestored, HasColumn, ColumnsOf
    <3>2. \A j \in 1..(k - 1) : j \in 1..Len(Columns) /\ j # k
      BY <1>1
    <3>3. n[c] = 0 /\ n \in [ColumnsOf(page) -> Nat]
      <4>1. ~ \E j \in 1..(k - 1) : Columns[j] = c
        BY <1>1, <3>2
      <4>2. n[c] = 0
        BY <2>3, <4>1 DEF ReadAfter
      <4>3. QED
        BY <1>5, <2>1, <4>2
    <3>4. With(n, c, Len(K[c])) = ReadAfter(K, k)
      <4> DEFINE m == With(n, c, Len(K[c]))
                 r == ReadAfter(K, k)
      <4>1. /\ m \in [ColumnsOf(page) -> Nat] /\ m[c] = Len(K[c])
            /\ \A d \in ColumnsOf(page) : d # c => m[d] = n[d]
        <5>1. Len(K[c]) \in Nat
          BY <1>2, <2>3
        <5> HIDE DEF c, n
        <5>2. QED
          BY <2>3, <3>3, <5>1, WithIs
      <4>2. r \in [ColumnsOf(page) -> Nat]
        BY <1>5, <2>1
      <4>3. ASSUME NEW d \in ColumnsOf(page) PROVE m[d] = r[d]
        <5>1. CASE d = c
          <6>1. k \in 1..k /\ Columns[k] = d
            BY <2>1, <5>1
          <6>2. r[d] = Len(K[d])
            BY <6>1 DEF ReadAfter
          <6>3. QED
            BY <4>1, <5>1, <6>2
        <5>2. CASE d # c
          <6>1. (\E j \in 1..k : Columns[j] = d) <=> (\E j \in 1..(k - 1) : Columns[j] = d)
            <7>1. ASSUME NEW j \in 1..k, Columns[j] = d PROVE j \in 1..(k - 1)
              <8>1. j # k
                BY <5>2, <7>1
              <8>2. QED
                BY <8>1
            <7>2. \A j \in 1..(k - 1) : j \in 1..k
              BY <2>1
            <7>3. QED
              BY <7>1, <7>2
          <6>2. r[d] = n[d]
            BY <6>1 DEF ReadAfter
          <6>3. QED
            BY <4>1, <5>2, <6>2
        <5>3. QED
          BY <5>1, <5>2
      <4> HIDE DEF m, r
      <4>4. m = r
        BY <4>1, <4>2, <4>3
      <4>5. QED
        BY <4>4 DEF m, r
    <3> HIDE DEF c, n
    <3>5. Arranges(page, f[k - 1]) /\ Restoring(page, f[k - 1], K, n)
      BY <1>7 DEF n
    <3>6. Restoring(page, f[k], K, ReadAfter(K, k))
      BY <2>3, <3>1, <3>3, <3>4, <3>5, ColumnRestoring
    <3>7. Arranges(page, f[k])
      BY <1>2, <2>3, <3>1, <3>5, ColumnKeepsArranged
    <3>8. QED
      BY <3>6, <3>7
  <2>4. QED
    BY <2>2, <2>3
<1> HIDE DEF Good
<1>8. ASSUME Bad # {} PROVE FALSE
  <2>1. PICK k \in Bad : \A j \in Bad : k <= j
    BY <1>8, Least
  <2>2. k \in Nat /\ k <= Len(Columns) /\ ~Good(k)
    OBVIOUS
  <2>3. k # 0
    BY <1>6, <2>2
  <2>4. k - 1 \in Nat /\ k - 1 <= Len(Columns) /\ ~(k <= k - 1) /\ k \in 1..Len(Columns)
    BY <1>1, <2>2, <2>3
  <2>5. Good(k - 1)
    BY <2>1, <2>4
  <2>6. QED
    BY <1>7, <2>2, <2>4, <2>5
<1>9. Good(Len(Columns))
  BY <1>1, <1>8
<1>10. ASSUME NEW d \in ColumnsOf(page) PROVE ReadAfter(K, Len(Columns))[d] = Len(K[d])
  <2>1. \E j \in 1..Len(Columns) : Columns[j] = d
    BY <1>1
  <2>2. QED
    BY <2>1 DEF ReadAfter
<1>11. Arranges(page, Restored) /\ Restoring(page, Restored, K, ReadAfter(K, Len(Columns)))
  BY <1>3, <1>9 DEF Good
<1>12. QED
  BY <1>10, <1>11, RestoredAll
-----------------------------------------------------------------------------
(***************************************************************************)
(* What is kept.                                                           *)
(***************************************************************************)
\* e has an entry for each portlet of s.
Records(e, s, hidden) ==
    /\ Len(e) = Len(s) /\ DOMAIN e = 1..Len(s)
    /\ \A i \in 1..Len(s) : e[i].id = s[i] /\ e[i].visible = (s[i] \notin hidden)

CookiesKnown == DOMAIN cookie = ToSet(Columns) /\ \A c \in ToSet(Columns) : Len(cookie[c]) \in Nat

KeptKnown ==
    kept.by # NoPage =>
        /\ kept.by \in Pages /\ Arranges(kept.by, kept.columns)
        /\ kept.hidden \subseteq PortletsOf(kept.by)
        /\ \A c \in ColumnsOf(kept.by) : Records(cookie[c], kept.columns[c], kept.hidden)

PageKnown ==
    /\ page \in Pages \cup {NoPage} /\ (page = NoPage => ~ready)
    /\ page # NoPage => Arranges(page, columns)
    /\ ~ready => visible = loaded

KeptInv == PageKnown /\ CookiesKnown /\ KeptKnown

LEMMA KeptInvInit == PortletsInit => KeptInv
<1> SUFFICES ASSUME PortletsInit PROVE KeptInv
  OBVIOUS
<1>1. PageKnown
  BY DEF PortletsInit, PageKnown
<1>2. CookiesKnown
  BY DEF PortletsInit, CookiesKnown, NotSaved
<1>3. KeptKnown
  BY DEF PortletsInit, KeptKnown, NothingKept
<1>4. QED
  BY <1>1, <1>2, <1>3 DEF KeptInv

\* saveOrder records the arrangement it is given (77-98).
LEMMA SaveRecords ==
    ASSUME page \in Pages, CookiesKnown, NEW cols, Arranges(page, cols), NEW vis,
           SaveOrder(cols, vis)
    PROVE  CookiesKnown' /\ KeptKnown'
<1> DEFINE entries(c) ==
        [i \in DOMAIN cols[c] |-> [id |-> cols[c][i], visible |-> cols[c][i] \in vis]]
           hidden == PortletsOf(page) \ vis
<1>1. /\ DOMAIN cookie' = ToSet(Columns)
      /\ \A c \in ToSet(Columns) :
            cookie'[c] = IF HasColumn(page, c) THEN entries(c) ELSE cookie[c]
  BY DEF SaveOrder, CookiesKnown
<1>2. kept'.by = page /\ kept'.columns = cols /\ kept'.hidden = hidden
  BY DEF SaveOrder
<1>3. ASSUME NEW c \in ColumnsOf(page)
      PROVE  Records(entries(c), cols[c], hidden) /\ Len(entries(c)) \in Nat
  <2>1. /\ DOMAIN cols[c] = 1..Len(cols[c]) /\ Len(cols[c]) \in Nat
        /\ \A i \in 1..Len(cols[c]) : cols[c][i] \in PortletsOf(page)
    BY OnceIs DEF Arranges
  <2>2. /\ DOMAIN entries(c) = 1..Len(cols[c]) /\ Len(entries(c)) = Len(cols[c])
        /\ \A i \in 1..Len(cols[c]) :
              entries(c)[i].id = cols[c][i] /\ entries(c)[i].visible = (cols[c][i] \in vis)
    BY <2>1
  <2>3. ASSUME NEW i \in 1..Len(cols[c]) PROVE (cols[c][i] \in vis) = (cols[c][i] \notin hidden)
    BY <2>1
  <2>4. QED
    BY <2>1, <2>2, <2>3 DEF Records
<1>4. ColumnsOf(page) \subseteq ToSet(Columns)
  BY LayoutArranges
<1> HIDE DEF entries, hidden
<1>5. CookiesKnown'
  <2>1. ASSUME NEW c \in ToSet(Columns) PROVE Len(cookie'[c]) \in Nat
    BY <1>1, <1>3 DEF CookiesKnown, HasColumn, ColumnsOf
  <2>2. QED
    BY <1>1, <2>1 DEF CookiesKnown
<1>6. \A c \in ColumnsOf(page) : cookie'[c] = entries(c)
  BY <1>1, <1>4 DEF HasColumn, ColumnsOf
<1>7. KeptKnown'
  <2>1. kept'.hidden \subseteq PortletsOf(page)
    BY <1>2 DEF hidden
  <2>2. QED
    BY <1>2, <1>3, <1>6, <2>1 DEF KeptKnown
<1>8. QED
  BY <1>5, <1>7

LEMMA DraggedArranges ==
    ASSUME NEW p, NEW cols, Arranges(p, cols), NEW q \in PortletsOf(p), NEW c \in ColumnsOf(p),
           NEW i \in 1..Len(TakenOut(cols, q)[c]) + 1
    PROVE  Arranges(p, [TakenOut(cols, q) EXCEPT ![c] = InsertAt(@, i, q)])
<1> DEFINE t == TakenOut(cols, q)[c]
           s == InsertAt(t, i, q)
<1>1. t \in Once(PortletsOf(p)) /\ q \notin ToSet(t)
  BY TakenOutIs
<1>2. [TakenOut(cols, q) EXCEPT ![c] = InsertAt(@, i, q)] = With(TakenOut(cols, q), c, s)
  BY DEF With
<1>3. s \in Once(PortletsOf(p)) /\ ToSet(s) = ToSet(t) \cup {q}
  <2>1. i \in 1..Len(t) + 1
    OBVIOUS
  <2> HIDE DEF t
  <2>2. QED
    BY <1>1, <2>1, Inserted
<1> HIDE DEF s
<1>4. Arranges(p, With(TakenOut(cols, q), c, s))
  BY <1>3, MovedArranges
<1>5. QED
  BY <1>2, <1>4, Zenon

\* What the ready handler restores for the page that was the last to save.
LEMMA ReadyRestores ==
    ASSUME KeptInv, Ready
    PROVE  /\ Arranges(page, columns')
           /\ kept.by = page => columns' = kept.columns /\ visible' = loaded \ kept.hidden
<1>1. /\ page \in Pages /\ Arranges(page, columns) /\ visible = loaded
      /\ columns' = Restored /\ visible' = visible \ Closed
  BY DEF KeptInv, PageKnown, Ready
<1>2. Len(Columns) \in Nat /\ ColumnsOf(page) \subseteq ToSet(Columns)
  <2>1. Columns \in Seq(ToSet(Columns))
    BY LayoutAssumption
  <2>2. QED
    BY <1>1, <2>1, LayoutArranges
<1>3. Arranges(page, columns')
  BY <1>1, <1>2, RestoredArranges DEF KeptInv, CookiesKnown
<1>4. ASSUME kept.by = page
      PROVE  columns' = kept.columns /\ visible' = loaded \ kept.hidden
  <2>1. /\ Arranges(page, kept.columns) /\ kept.hidden \subseteq PortletsOf(page)
        /\ \A c \in ColumnsOf(page) : Records(cookie[c], kept.columns[c], kept.hidden)
    BY <1>1, <1>4, LayoutAssumption DEF KeptInv, KeptKnown
  <2>2. Names(kept.columns)
    BY <2>1 DEF Names, Records
  <2>3. Restored = kept.columns
    BY <1>1, <2>1, <2>2, SavedIsRestored
  <2>4. ASSUME NEW q PROVE q \in Closed <=> q \in kept.hidden
    <3>1. ASSUME q \in Closed PROVE q \in kept.hidden
      <4> PICK c \in ColumnsOf(page) : \E e \in ToSet(cookie[c]) : ~e.visible /\ q = e.id
        BY <3>1 DEF Closed, ColumnsOf
      <4>1. PICK e \in ToSet(cookie[c]) : ~e.visible /\ q = e.id
        OBVIOUS
      <4>2. PICK i \in 1..Len(kept.columns[c]) : e = cookie[c][i]
        BY <2>1, <4>1 DEF Records, ToSet
      <4>3. QED
        BY <2>1, <4>1, <4>2 DEF Records
    <3>2. ASSUME q \in kept.hidden PROVE q \in Closed
      <4>1. PICK c \in ColumnsOf(page) : q \in ToSet(kept.columns[c])
        BY <2>1, <3>2 DEF Arranges
      <4>2. PICK i \in 1..Len(kept.columns[c]) : kept.columns[c][i] = q
        <5>1. kept.columns[c] \in Once(PortletsOf(page))
          BY <2>1 DEF Arranges
        <5>2. QED
          BY <4>1, <5>1, OnceIs, MemberIs
      <4>3. /\ cookie[c][i] \in ToSet(cookie[c])
            /\ cookie[c][i].id = q /\ ~cookie[c][i].visible
        BY <2>1, <3>2, <4>2 DEF Records, ToSet
      <4>4. QED
        BY <4>3 DEF Closed, ColumnsOf
    <3>3. QED
      BY <3>1, <3>2
  <2>5. QED
    BY <1>1, <2>3, <2>4
<1>5. QED
  BY <1>3, <1>4

LEMMA KeptInvStep ==
    ASSUME KeptInv, [PortletsNext]_portletVars PROVE KeptInv'
<1> USE DEF KeptInv
<1>1. ASSUME NEW p \in Pages, Displays(p) PROVE KeptInv'
  <2>1. page' = p /\ ready' = FALSE /\ columns' = Layout[p] /\ visible' = loaded'
    BY <1>1 DEF Displays
  <2>2. PageKnown'
    BY <2>1, LayoutAssumption, LayoutArranges DEF PageKnown
  <2>3. CookiesKnown' /\ KeptKnown'
    BY <1>1 DEF Displays, CookiesKnown, KeptKnown
  <2>4. QED
    BY <2>2, <2>3
<1>2. CASE Ready
  <2>1. PageKnown'
    BY <1>2, ReadyRestores DEF Ready, PageKnown
  <2>2. CookiesKnown' /\ KeptKnown'
    BY <1>2 DEF Ready, CookiesKnown, KeptKnown
  <2>3. QED
    BY <2>1, <2>2
<1>3. ASSUME NEW q, Loads(q) PROVE KeptInv'
  <2>1. PageKnown'
    BY <1>3 DEF Loads, PageKnown
  <2>2. CookiesKnown' /\ KeptKnown'
    BY <1>3 DEF Loads, CookiesKnown, KeptKnown
  <2>3. QED
    BY <2>1, <2>2
<1>4. ASSUME ready PROVE page \in Pages /\ Arranges(page, columns)
  BY <1>4 DEF PageKnown
<1>5. ASSUME NEW q, Toggles(q) PROVE KeptInv'
  <2>1. /\ ready /\ SaveOrder(columns, visible')
        /\ page' = page /\ ready' = ready /\ columns' = columns
    BY <1>5 DEF Toggles
  <2>2. PageKnown'
    BY <1>4, <2>1 DEF PageKnown
  <2>3. CookiesKnown' /\ KeptKnown'
    BY <1>4, <2>1, SaveRecords
  <2>4. QED
    BY <2>2, <2>3
<1>6. ASSUME NEW q, Resizes(q) PROVE KeptInv'
  <2>1. /\ ready /\ SaveOrder(columns, visible)
        /\ page' = page /\ ready' = ready /\ columns' = columns
    BY <1>6 DEF Resizes, shape
  <2>2. PageKnown'
    BY <1>4, <2>1 DEF PageKnown
  <2>3. CookiesKnown' /\ KeptKnown'
    BY <1>4, <2>1, SaveRecords
  <2>4. QED
    BY <2>2, <2>3
<1>7. ASSUME NEW q, NEW c, NEW i, Drags(q, c, i) PROVE KeptInv'
  <2>1. /\ ready /\ SaveOrder(columns', visible)
        /\ page' = page /\ ready' = ready
        /\ q \in PortletsOf(page) /\ c \in ColumnsOf(page)
        /\ i \in 1..Len(TakenOut(columns, q)[c]) + 1
        /\ columns' = [TakenOut(columns, q) EXCEPT ![c] = InsertAt(@, i, q)]
    BY <1>7 DEF Drags, HasColumn, ColumnsOf
  <2>2. Arranges(page, columns')
    BY <1>4, <2>1, DraggedArranges
  <2>3. PageKnown'
    BY <1>4, <2>1, <2>2 DEF PageKnown
  <2>4. CookiesKnown' /\ KeptKnown'
    BY <1>4, <2>1, <2>2, SaveRecords
  <2>5. QED
    BY <2>3, <2>4
<1>8. CASE UNCHANGED portletVars
  BY <1>8 DEF portletVars, shape, PageKnown, CookiesKnown, KeptKnown
<1>9. QED
  BY <1>1, <1>2, <1>3, <1>5, <1>6, <1>7, <1>8 DEF PortletsNext

(* A page that was the last to save finds its portlets where they were,    *)
(* and closed as they were (portlet.js:2-48).                              *)
THEOREM OwnIsRestored == PortletsSpec => RestoresOwn
<1>1. KeptInv /\ [PortletsNext]_portletVars =>
        [Ready /\ kept.by = page =>
            columns' = kept.columns /\ visible' = loaded \ kept.hidden]_portletVars
  BY ReadyRestores
<1>2. QED
  BY KeptInvInit, KeptInvStep, <1>1, PTL DEF PortletsSpec, RestoresOwn

(* No portlet of the page displayed is lost or shown twice, whatever the   *)
(* cookies hold (portlet.js:24-48).                                        *)
THEOREM NoPortletLost == PortletsSpec => [](page # NoPage => Arranges(page, columns))
<1>1. KeptInv => (page # NoPage => Arranges(page, columns))
  BY DEF KeptInv, PageKnown
<1>2. QED
  BY KeptInvInit, KeptInvStep, <1>1, PTL DEF PortletsSpec
=============================================================================
