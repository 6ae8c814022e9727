----------------------------- MODULE AjaxFilter -----------------------------
(***************************************************************************)
(* The lists of the web interface (web/includes/PageGenerator.php, class   *)
(* AjaxFilter): a page whose content is asked of the server again whenever *)
(* the user types in the search field, follows a link to another page of   *)
(* the list, or a timer fires.                                             *)
(*                                                                         *)
(* An ask is a filter and the first row of a page of the list.  The server *)
(* keeps the last one in the session (web/main.php) and starts the list    *)
(* from it when the user comes back.  Requests are in the order in which   *)
(* they were sent; they are served and answered in any order.              *)
(***************************************************************************)
EXTENDS Naturals, Sequences, SequencesExt

CONSTANTS
    Filters,     \* what can be in the search field
    NoFilter,    \* the empty field
    Starts,      \* the first rows of the pages of a list
    NoStart,     \* none is given: the server takes the first page
    NoAsk,
    MaxRequests, \* requests in flight            (bound)
    MaxEvents,   \* what the user does            (bound)
    MaxFailures  \* requests that fail            (bound)

ASSUME FilterAssumption ==
    /\ NoFilter \in Filters /\ NoStart \notin Starts
    /\ MaxRequests \in Nat \ {0} /\ MaxEvents \in Nat /\ MaxFailures \in Nat

Asks == [filter : Filters, start : Starts \cup {NoStart}]

ASSUME NoAskAssumption == NoAsk \notin Asks

\* A request is [ask, stage: "sent" or "served", live: its page is displayed,
\* late: one that was sent after it has ended].  timers has the two variables
\* of the page that name timers which have not fired: whether that of
\* updateSearch does, and the ask of that of updateSearchParam, or NoAsk.
VARIABLES
    open,     \* the page is displayed
    refresh,  \* the list refreshes itself (setRefresh)
    covered,  \* its content is in the div "container", the one that is masked
    field,    \* the search field
    baked,    \* the stored start, written into the page when it is displayed
    timers,
    orphan,   \* ghost: a timer is pending that no variable names any more
    requests,
    masked,   \* the mask is over the content, and over its links with it
    shown,    \* the ask whose answer is the content
    stale,    \* ghost: of the requests that have ended, the one that was
              \* sent last is not the one whose answer is shown
    wanted,   \* ghost: what the user asked for last
    session,  \* the filter and start stored for the page
    events, failures

browser == <<open, field, baked, wanted>>
vars == <<browser, refresh, covered, timers, orphan, requests, masked, shown, stale, session,
          events, failures>>
-----------------------------------------------------------------------------
NoTimers == [refreshtimer |-> FALSE, refreshparamtimer |-> NoAsk]

Init ==
    /\ open = FALSE /\ refresh \in BOOLEAN /\ covered \in BOOLEAN
    /\ field = NoFilter /\ baked = NoStart
    /\ timers = NoTimers /\ orphan = FALSE
    /\ requests = <<>> /\ masked = FALSE /\ shown = NoAsk
    /\ stale = FALSE /\ wanted = NoAsk
    /\ session = [filter |-> NoFilter, start |-> NoStart]
    /\ events = 0 /\ failures = 0

TheUserActs == events < MaxEvents /\ events' = events + 1

\* jQuery.ajax, and ajaxSend of the page: the mask covers what is there, of the
\* lists that fill the div "container" and of no other.
Sends(ask) ==
    /\ Len(requests) < MaxRequests
    /\ requests' = Append(requests, [ask |-> ask, stage |-> "sent", live |-> TRUE,
                                     late |-> FALSE])
    /\ masked' = covered

\* refreshtimer = setTimeout(...), and the timers t were pending before: the
\* one that had this name is out of reach.
StartsTimer(t) ==
    /\ timers' = [t EXCEPT !.refreshtimer = TRUE]
    /\ orphan' = (orphan \/ t.refreshtimer)

StartsParamTimer(t, ask) ==
    /\ timers' = [t EXCEPT !.refreshparamtimer = ask]
    /\ orphan' = (orphan \/ t.refreshparamtimer # NoAsk)

PushSearch_WithoutClearing == StartsTimer(timers)

\* pushSearch: clearTimers, and updateSearch in half a second.
PushSearch == StartsTimer(NoTimers)

UpdateSearchParam_WithoutClearing(ask) ==
    /\ Sends(ask)
    /\ IF refresh THEN StartsParamTimer(timers, ask) ELSE UNCHANGED <<timers, orphan>>

\* updateSearchParam: clearTimers, a request, and the same again later.
UpdateSearchParam(ask) ==
    /\ Sends(ask)
    /\ IF refresh THEN StartsParamTimer(NoTimers, ask)
       ELSE timers' = NoTimers /\ UNCHANGED orphan
-----------------------------------------------------------------------------
\* The page is displayed: the field has the stored filter, the URL of every
\* search the stored start, and a first search is pushed.
Opens ==
    /\ ~open /\ TheUserActs
    /\ open' = TRUE
    /\ field' = session.filter /\ baked' = session.start
    /\ wanted' = session
    /\ PushSearch
    /\ masked' = FALSE /\ shown' = NoAsk /\ stale' = FALSE
    /\ UNCHANGED <<refresh, covered, requests, session, failures>>

\* The user leaves: timers and answers go with the page, requests that have
\* been sent reach the server all the same.
Leaves ==
    /\ open
    /\ open' = FALSE /\ wanted' = NoAsk
    /\ timers' = NoTimers /\ masked' = FALSE /\ shown' = NoAsk /\ stale' = FALSE
    /\ LET sent == SelectSeq(requests, LAMBDA r : r.stage = "sent")
       IN  requests' = [i \in DOMAIN sent |-> [sent[i] EXCEPT !.live = FALSE]]
    /\ UNCHANGED <<refresh, covered, field, baked, orphan, session, events, failures>>

\* A key in the search field, or the cross beside it that empties it.
Types(f) ==
    /\ open /\ TheUserActs
    /\ field' = f /\ wanted' = [filter |-> f, start |-> baked]
    /\ PushSearch
    /\ UNCHANGED <<open, refresh, covered, baked, requests, masked, shown, stale, session,
                   failures>>

\* A link of the list to another of its pages; it has the filter of the list.
Clicks(s) ==
    /\ open /\ shown # NoAsk /\ ~masked /\ TheUserActs
    /\ wanted' = [filter |-> shown.filter, start |-> s]
    /\ UpdateSearchParam(wanted')
    /\ UNCHANGED <<open, refresh, covered, field, baked, shown, stale, session, failures>>

\* updateSearch: the field as it is now, with the start of the page.
SearchTimerFires ==
    /\ timers.refreshtimer
    /\ Sends([filter |-> field, start |-> baked])
    /\ LET fired == [timers EXCEPT !.refreshtimer = FALSE]
       IN  IF refresh THEN StartsTimer(fired) ELSE timers' = fired /\ UNCHANGED orphan
    /\ UNCHANGED <<browser, refresh, covered, shown, stale, session, events, failures>>

ParamTimerFires ==
    /\ timers.refreshparamtimer # NoAsk
    /\ UpdateSearchParam(timers.refreshparamtimer)
    /\ UNCHANGED <<browser, refresh, covered, shown, stale, session, events, failures>>
-----------------------------------------------------------------------------
\* main.php stores what the request gives; a start that is not given stays
\* what it was.  Nobody waits for the answer when the page has been left.
Serves(i) ==
    /\ i \in DOMAIN requests /\ requests[i].stage = "sent"
    /\ LET ask == requests[i].ask
       IN  session' = [filter |-> ask.filter,
                       start |-> IF ask.start = NoStart THEN session.start ELSE ask.start]
    /\ requests' = IF requests[i].live THEN [requests EXCEPT ![i].stage = "served"]
                   ELSE RemoveAt(requests, i)
    /\ UNCHANGED <<browser, refresh, covered, timers, orphan, masked, shown, stale, events, failures>>

\* Requests that were sent before the one that ends are late from now on.
Ends(i) ==
    requests' = RemoveAt([j \in DOMAIN requests |->
                              [requests[j] EXCEPT !.late = @ \/ j < i]], i)

\* The callback of a request replaces the content, and the mask with it.
Answers(i) ==
    /\ i \in DOMAIN requests /\ requests[i].live /\ requests[i].stage = "served"
    /\ shown' = requests[i].ask /\ stale' = requests[i].late
    /\ masked' = FALSE
    /\ Ends(i)
    /\ UNCHANGED <<browser, refresh, covered, timers, orphan, session, events, failures>>

\* There is no handler of errors: the content stays, and the mask until the
\* last request of the page has ended (ajaxStop).
Fails(i) ==
    /\ i \in DOMAIN requests /\ requests[i].live /\ failures < MaxFailures
    /\ failures' = failures + 1
    /\ stale' = (stale \/ ~requests[i].late)
    /\ Ends(i)
    /\ masked' = (masked /\ \E j \in DOMAIN requests' : requests'[j].live)
    /\ UNCHANGED <<browser, refresh, covered, timers, orphan, shown, session, events>>
-----------------------------------------------------------------------------
Next ==
    \/ Opens \/ Leaves
    \/ \E f \in Filters : Types(f)
    \/ \E s \in Starts : Clicks(s)
    \/ SearchTimerFires \/ ParamTimerFires
    \/ \E i \in 1..MaxRequests : Serves(i) \/ Answers(i) \/ Fails(i)

Spec == Init /\ [][Next]_vars

\* Timers fire, and the oldest request in flight is served and answered
\* unless it fails: every request is the oldest at some time.
Fairness ==
    /\ WF_vars(SearchTimerFires) /\ WF_vars(ParamTimerFires)
    /\ WF_vars(Serves(1)) /\ WF_vars(Answers(1))

FairSpec == Spec /\ Fairness
-----------------------------------------------------------------------------
(* A list has one timer at most, and it is one that clearTimers can clear: *)
(* whatever the user does and whichever timer fires, it never asks for two *)
(* lists in turn (PageGenerator.php:1294-1361).                            *)
OneTimer ==
    /\ ~orphan
    /\ ~(timers.refreshtimer /\ timers.refreshparamtimer # NoAsk)

(* Once the user stops, the list shows what they asked for last, whatever  *)
(* the order of the answers when the list refreshes itself; without that,  *)
(* unless the last request failed or was answered before an older one      *)
(* (PageGenerator.php:1313-1361).                                          *)
Settles == <>[](open /\ (refresh \/ ~stale) => shown = wanted)
=============================================================================
