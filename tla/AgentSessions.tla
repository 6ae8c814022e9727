---------------------------- MODULE AgentSessions ----------------------------
(***************************************************************************)
(* XML-RPC requests, the login state of HTTP sessions and the reload of    *)
(* the configuration (agent/mmc/agent.py, class MmcServer).                *)
(*                                                                         *)
(* The reactor thread receives requests, attaches the contexts of the      *)
(* plugins to a session and renders results; attaching asks the LDAP       *)
(* directory and blocks the reactor, so it is two steps with the reactor   *)
(* taken between them.  The function that was called runs in a thread of   *)
(* the pool when Multithreading (the default), in the reactor otherwise.   *)
(***************************************************************************)
EXTENDS Integers, FiniteSets

CONSTANTS
    Sessions,       \* HTTP sessions that may be opened             (bound)
    Users,          \* logins given to the authentication functions (bound)
    MaxRequests,    \* number of requests                           (bound)
    Multithreading, \* config.multithreading
    Timeouts,       \* TRUE: sessions may reach their timeout
    Faults          \* what may go wrong: a subset of AllFaults

\* An authentication function, a ContextMaker, or the reading of the files
\* raises; authentication functions are called without arguments ("bare");
\* attributes that are no functions are called ("noname").
AllFaults == {"auth", "context", "conf", "bare", "noname"}

ASSUME SessionsAssumption ==
    /\ MaxRequests \in Nat
    /\ Multithreading \in BOOLEAN /\ Timeouts \in BOOLEAN
    /\ Faults \subseteq AllFaults
    /\ "root" \notin Users /\ "nobody" \notin Users

Requests == 1..MaxRequests
Free == 0
Nobody == "nobody"               \* no userid, or contexts not (all) attached
People == Users \cup {"root"}
Whoever == People \cup {Nobody}

VARIABLES
    live,     \* is the session among those of the site: new, live, expired
    loggedin, \* s.loggedin
    userid,   \* s.userid
    ctx,      \* the user whose contexts s.contexts holds
    tracked,  \* MmcServer.sessions
    reactor,  \* the request the reactor thread is busy with, or Free
    req,      \* the requests
    scan,     \* the local state of reloadModulesConfiguration, per request
    together  \* ghost: the requests that met another one of their session

session == <<live, loggedin, userid, ctx>>
vars == <<session, tracked, reactor, req, scan, together>>

\* "auth": an authentication function; "open": another function that needs
\* no login (NOAUTHNEEDED); "closed": one that needs it; "reload"; "bare": an
\* authentication function without arguments; "noname": an attribute of a
\* plugin that is no function and has no __name__, and needs a login.
Kinds == {"auth", "open", "closed", "reload", "bare", "noname"}
Sent == Kinds \ ({"bare", "noname"} \ Faults)

\* A request that is "lost" is never answered.
Stages == {"off", "securing", "called", "expiring", "resetting", "answered",
           "attaching", "done", "lost"}
Results == {"none", "fault", "yes", "no", "error", "ok", "Done", "Failed"}
NoRequest(s) == [stage |-> "off", kind |-> "open", sess |-> s, who |-> Nobody,
                 as |-> Nobody, saw |-> Nobody, result |-> "none"]
NoScan == [left |-> {}, grown |-> FALSE, before |-> {}]

RequestRecords == [stage : Stages, kind : Kinds, sess : Sessions, who : Whoever,
                   as : Whoever, saw : Whoever, result : Results]
ScanRecords == [left : SUBSET Sessions, grown : BOOLEAN, before : SUBSET Sessions]

TypeOK ==
    /\ live \in [Sessions -> {"new", "live", "expired"}]
    /\ loggedin \in [Sessions -> BOOLEAN]
    /\ userid \in [Sessions -> Whoever]
    /\ ctx \in [Sessions -> Whoever]
    /\ tracked \subseteq Sessions
    /\ reactor \in Requests \cup {Free}
    /\ req \in [Requests -> RequestRecords]
    /\ scan \in [Requests -> ScanRecords]
    /\ together \subseteq Requests

Init ==
    /\ live = [s \in Sessions |-> "new"]
    /\ loggedin = [s \in Sessions |-> FALSE]
    /\ userid = [s \in Sessions |-> Nobody]
    /\ ctx = [s \in Sessions |-> Nobody]
    /\ tracked = {}
    /\ reactor = Free
    /\ \E s \in Sessions : req = [i \in Requests |-> NoRequest(s)]
    /\ scan = [i \in Requests |-> NoScan]
    /\ together = {}

At(i, stage) == req[i].stage = stage
Sess(i) == req[i].sess
InProgress(i) == req[i].stage \notin {"off", "done", "lost"}
NeedsAuth(kind) == kind \in {"closed", "noname"}

Moved(r, stage) == [r EXCEPT !.stage = stage]
Ended(r, stage, result) == [r EXCEPT !.stage = stage, !.result = result]

\* Requests are sent in the order of their numbers.
Earliest(i) == \A j \in Requests : j < i => req[j].stage # "off"
-----------------------------------------------------------------------------
\* render_POST: the reactor gives request i to the function, and is free
\* again at once when the function runs in a thread.  The RpcProxy keeps the
\* context the session holds at this moment.
Called(r, holder) == [r EXCEPT !.stage = "called", !.as = holder]
ReactorAfterCall(i) == reactor' = IF Multithreading THEN Free ELSE i

Arrives(i, s) ==
    /\ reactor = Free /\ At(i, "off") /\ Earliest(i)
    /\ live[s] # "expired"
    /\ live' = [live EXCEPT ![s] = "live"]

Companions(s) == {j \in Requests : Sess(j) = s /\ InProgress(j)}
Meets(i, s) ==
    together' = together \cup Companions(s)
                         \cup (IF Companions(s) # {} THEN {i} ELSE {})

Request(kind, s, who) == [NoRequest(s) EXCEPT !.kind = kind, !.who = who]

\* "Invalid login / password for HTTP basic authentication", whatever the
\* request, or Fault(8003, "Authentication needed"): the same effect.
Rejected(i, kind, s, who) ==
    /\ Arrives(i, s)
    /\ req' = [req EXCEPT ![i] = Ended(Request(kind, s, who), "done", "fault")]
    /\ UNCHANGED <<loggedin, userid, ctx, tracked, reactor, scan, together>>

NeedsContext_Always(kind, s) == ~NeedsAuth(kind)

\* The context of root is for calls of sessions where nobody is logged in.
NeedsContext(kind, s) == ~loggedin[s] /\ ~NeedsAuth(kind)

\* "Provide a security context when a method which doesn't require a user
\* authentication is called".
Secures(i, kind, s, who) ==
    /\ Arrives(i, s) /\ Meets(i, s)
    /\ NeedsContext(kind, s)
    /\ req' = [req EXCEPT ![i] = Moved(Request(kind, s, who), "securing")]
    /\ userid' = [userid EXCEPT ![s] = "root"]
    /\ ctx' = [ctx EXCEPT ![s] = Nobody]
    /\ reactor' = i
    /\ UNCHANGED <<loggedin, tracked, scan>>

Calls(i, kind, s, who) ==
    /\ Arrives(i, s) /\ Meets(i, s)
    /\ loggedin[s] /\ ~NeedsContext(kind, s)
    /\ req' = [req EXCEPT ![i] = Called(Request(kind, s, who), ctx[s])]
    /\ ReactorAfterCall(i)
    /\ UNCHANGED <<loggedin, userid, ctx, tracked, scan>>

\* The end of _associateContext.  A loop over the set that has grown raises
\* RuntimeError at its next turn.
Tracks(s) ==
    /\ tracked' = tracked \cup {s}
    /\ scan' = [i \in Requests |->
                   IF s \notin tracked /\ At(i, "expiring")
                   THEN [scan[i] EXCEPT !.grown = TRUE] ELSE scan[i]]

\* Every plugin gave its context.
Attaches(i) ==
    /\ reactor = i
    /\ ctx' = [ctx EXCEPT ![Sess(i)] = userid[Sess(i)]]
    /\ Tracks(Sess(i))

\* A ContextMaker raised, maybe after the one of the base plugin.
CannotAttach(i) ==
    /\ reactor = i /\ "context" \in Faults
    /\ loggedin' = [loggedin EXCEPT ![Sess(i)] = FALSE]
    /\ \E c \in {Nobody, userid[Sess(i)]} : ctx' = [ctx EXCEPT ![Sess(i)] = c]
    /\ UNCHANGED <<tracked, scan>>

Secured_CallsFirst(i) ==
    /\ At(i, "securing") /\ Attaches(i)
    /\ req' = [req EXCEPT ![i] = Called(@, ctx[Sess(i)])]
    /\ ReactorAfterCall(i)
    /\ UNCHANGED <<live, loggedin, userid>>

Secured(i) ==
    /\ At(i, "securing") /\ Attaches(i)
    /\ req' = [req EXCEPT ![i] = Called(@, userid[Sess(i)])]
    /\ ReactorAfterCall(i)
    /\ UNCHANGED <<live, loggedin, userid>>

\* The reactor writes the response and finishes the request.
Answer(i, result) ==
    /\ req' = [req EXCEPT ![i] = Ended(@, "done", result)]
    /\ reactor' = Free


\* Fault(8004, "MMC agent can't provide a security context").
NotSecured(i) ==
    /\ At(i, "securing") /\ CannotAttach(i)
    /\ Answer(i, "fault")
    /\ UNCHANGED <<live, userid>>
-----------------------------------------------------------------------------
\* _runInThread, or the call in the reactor.  The result is given back to the
\* reactor with callFromThread.
Runs(i) ==
    /\ IF Multithreading THEN TRUE ELSE reactor = i
    /\ UNCHANGED <<loggedin, userid, ctx, reactor>>

Returns(i, result) == req' = [req EXCEPT ![i] = Ended(@, "answered", result)]

\* RpcProxy.authenticate and tokenAuthenticate: yes or no, or a failed
\* Deferred that _ebRender makes a dict.
Authenticates(i) ==
    /\ At(i, "called") /\ req[i].kind = "auth" /\ Runs(i)
    /\ \E result \in {"yes", "no"}
          \cup (IF "auth" \in Faults THEN {"error"} ELSE {}) :
          Returns(i, result)
    /\ UNCHANGED <<live, tracked, scan>>

\* A call without arguments raises, and so does that of no function.
Raises(i) ==
    /\ At(i, "called") /\ Runs(i)
    /\ \/ req[i].kind = "bare"
       \/ req[i].kind = "noname" /\ ~Multithreading
    /\ Returns(i, "error")
    /\ UNCHANGED <<live, tracked, scan>>

\* With threads, what is no function raises before the try of _putResult: the
\* thread leaves it, and nothing is given back.
LosesThread(i) ==
    /\ At(i, "called") /\ Runs(i)
    /\ req[i].kind = "noname" /\ Multithreading
    /\ req' = [req EXCEPT ![i] = Moved(@, "lost")]
    /\ UNCHANGED <<live, tracked, scan>>

Attaching(s) ==
    \E i \in Requests : Sess(i) = s /\ req[i].stage \in {"securing", "attaching"}

\* The audit finds the context of the base plugin in the session of the
\* thread.  While contexts are attached it may be there already.  Without
\* threads no session is set, and the record names the user of the system.
Contexts(s) == {ctx[s]} \cup (IF Attaching(s) THEN {userid[s]} ELSE {})
Recorded(i) == IF Multithreading THEN Contexts(Sess(i)) ELSE {Nobody}

\* Any other function, and what it records in the audit.
Works(i) ==
    /\ At(i, "called") /\ req[i].kind \in {"open", "closed"} /\ Runs(i)
    /\ \E whose \in Recorded(i) :
          req' = [req EXCEPT ![i] = [Ended(@, "answered", "ok") EXCEPT !.saw = whose]]
    /\ UNCHANGED <<live, tracked, scan>>

LoggedInSessions == {s \in Sessions : live[s] = "live" /\ loggedin[s]}

\* reloadModulesConfiguration: the configuration files are read.
ReadsConf(i) ==
    /\ At(i, "called") /\ req[i].kind = "reload" /\ Runs(i)
    /\ req' = [req EXCEPT ![i] = Moved(@, "expiring")]
    /\ scan' = [scan EXCEPT ![i] = [left |-> tracked, grown |-> FALSE,
                                    before |-> LoggedInSessions]]
    /\ UNCHANGED <<live, tracked>>

CannotReadConf_Resets(i) ==
    /\ "conf" \in Faults
    /\ At(i, "called") /\ req[i].kind = "reload" /\ Runs(i)
    /\ Returns(i, "Failed") /\ tracked' = {}
    /\ UNCHANGED <<live, scan>>

CannotReadConf(i) ==
    /\ "conf" \in Faults
    /\ At(i, "called") /\ req[i].kind = "reload" /\ Runs(i)
    /\ Returns(i, "Failed")
    /\ UNCHANGED <<live, tracked, scan>>

\* session.expire() of a session the site no longer has raises KeyError.
Expirable(i) == {s \in scan[i].left : live[s] = "live"}

Visited_LeavingTheLoop(loop, s) == [loop EXCEPT !.left = {}]

Visited(loop, s) == [loop EXCEPT !.left = loop.left \ {s}]

Expires(i) ==
    /\ At(i, "expiring") /\ Runs(i) /\ ~scan[i].grown
    /\ \E s \in Expirable(i) :
          /\ live' = [live EXCEPT ![s] = "expired"]
          /\ scan' = [scan EXCEPT ![i] = Visited(@, s)]
    /\ UNCHANGED <<tracked, req>>

\* KeyError, or RuntimeError: the loop ends, self.sessions is left as it is.
CannotExpire(i) ==
    /\ At(i, "expiring") /\ Runs(i)
    /\ scan[i].grown \/ scan[i].left \ Expirable(i) # {}
    /\ Returns(i, "error")
    /\ UNCHANGED <<live, tracked, scan>>

LoopEnds(i) ==
    /\ At(i, "expiring") /\ Runs(i)
    /\ scan[i].left = {} /\ ~scan[i].grown
    /\ req' = [req EXCEPT ![i] = Moved(@, "resetting")]
    /\ UNCHANGED <<live, tracked, scan>>

\* self.sessions = set()
Resets(i) ==
    /\ At(i, "resetting") /\ Runs(i)
    /\ tracked' = {}
    /\ Returns(i, "Done")
    /\ UNCHANGED <<live, scan>>
-----------------------------------------------------------------------------
\* _cbRender, in the reactor.
Renders(i) == At(i, "answered") /\ reactor = IF Multithreading THEN Free ELSE i

LogsIn_WhateverTheResult(i) == req[i].kind \in {"auth", "bare"}

\* "if we are logging on and there was no error": the dict _ebRender makes of
\* an exception is not a Fault, and is true.
LogsIn(i) ==
    req[i].kind \in {"auth", "bare"} /\ req[i].result \in {"yes", "error"}

RendersLogin_AttachesOnce(i) ==
    /\ Renders(i) /\ LogsIn(i) /\ req[i].kind = "auth"
    /\ loggedin' = [loggedin EXCEPT ![Sess(i)] = TRUE]
    /\ userid' = [userid EXCEPT ![Sess(i)] = req[i].who]
    /\ IF loggedin[Sess(i)]
       THEN Answer(i, req[i].result) /\ ctx' = ctx
       ELSE /\ ctx' = [ctx EXCEPT ![Sess(i)] = Nobody]
            /\ req' = [req EXCEPT ![i] = Moved(@, "attaching")]
            /\ reactor' = i
    /\ UNCHANGED <<live, tracked, scan>>

RendersLogin(i) ==
    /\ Renders(i) /\ LogsIn(i) /\ req[i].kind = "auth"
    /\ loggedin' = [loggedin EXCEPT ![Sess(i)] = TRUE]
    /\ userid' = [userid EXCEPT ![Sess(i)] = req[i].who]
    /\ ctx' = [ctx EXCEPT ![Sess(i)] = Nobody]
    /\ req' = [req EXCEPT ![i] = Moved(@, "attaching")]
    /\ reactor' = i
    /\ UNCHANGED <<live, tracked, scan>>

\* s.loggedin is set, then args[0] raises IndexError outside of the try: the
\* session keeps its userid and its contexts, and nothing is rendered.
LosesLogin(i) ==
    /\ Renders(i) /\ LogsIn(i) /\ req[i].kind = "bare"
    /\ loggedin' = [loggedin EXCEPT ![Sess(i)] = TRUE]
    /\ req' = [req EXCEPT ![i] = Moved(@, "lost")]
    /\ reactor' = Free
    /\ UNCHANGED <<live, userid, ctx, tracked, scan>>

Attached(i) ==
    /\ At(i, "attaching") /\ Attaches(i)
    /\ Answer(i, req[i].result)
    /\ UNCHANGED <<live, loggedin, userid>>

\* Fault(8004), and the user is not logged in.
NotAttached(i) ==
    /\ At(i, "attaching") /\ CannotAttach(i)
    /\ Answer(i, "fault")
    /\ UNCHANGED <<live, userid>>

RendersResult(i) ==
    /\ Renders(i) /\ ~LogsIn(i)
    /\ Answer(i, req[i].result)
    /\ UNCHANGED <<session, tracked, scan>>

\* The session was not used for config.sessiontimeout seconds.
TimesOut(s) ==
    /\ Timeouts /\ reactor = Free
    /\ live[s] = "live"
    /\ live' = [live EXCEPT ![s] = "expired"]
    /\ UNCHANGED <<loggedin, userid, ctx, tracked, reactor, req, scan, together>>
-----------------------------------------------------------------------------
Sends(i) ==
    \E kind \in Sent, s \in Sessions, who \in Users :
        Rejected(i, kind, s, who) \/ Secures(i, kind, s, who) \/ Calls(i, kind, s, who)

WorkerStep(i) ==
    /\ \/ Authenticates(i) \/ Works(i) \/ Raises(i) \/ LosesThread(i)
       \/ ReadsConf(i) \/ CannotReadConf(i)
       \/ Expires(i) \/ CannotExpire(i) \/ LoopEnds(i) \/ Resets(i)
    /\ UNCHANGED together

ReactorStep(i) ==
    /\ \/ Secured(i) \/ NotSecured(i)
       \/ RendersLogin(i) \/ LosesLogin(i) \/ Attached(i) \/ NotAttached(i)
       \/ RendersResult(i)
    /\ UNCHANGED together

Next ==
    \/ \E i \in Requests : Sends(i) \/ WorkerStep(i) \/ ReactorStep(i)
    \/ \E s \in Sessions : TimesOut(s)

Spec == Init /\ [][Next]_vars

\* The reactor and the threads of the pool run; the functions return.
Fairness == \A i \in Requests : WF_vars(WorkerStep(i)) /\ WF_vars(ReactorStep(i))
FairSpec == Spec /\ Fairness
-----------------------------------------------------------------------------
\* Logged in by a call without arguments, as whoever the session was for.
LoggedInBare(s) == \E i \in Requests : /\ At(i, "lost") /\ Sess(i) = s
                                        /\ req[i].kind = "bare"

(* A session where somebody is logged in holds the contexts of that user   *)
(* and of nobody else, whatever calls are made around the login: calls     *)
(* that provide the context of root, other logins, logins that end with    *)
(* Fault(8004) (agent.py:195-209, 277-288).  A session that a call without *)
(* arguments has logged in may lack contexts, and has nobody else's.       *)
LoggedInHasItsContexts ==
    \A s \in Sessions : loggedin[s] /\ ~Attaching(s) =>
        \/ ctx[s] = userid[s]
        \/ ctx[s] = Nobody /\ LoggedInBare(s)

(* Nobody is logged in but by an authentication function that returned     *)
(* true for that user ("if we are logging on and there was no error",      *)
(* agent.py:276).                                                          *)
LoggedInWasAuthenticated ==
    \A s \in Sessions : loggedin[s] =>
        \E i \in Requests : /\ req[i].kind = "auth" /\ Sess(i) = s
                            /\ req[i].who = userid[s] /\ req[i].result = "yes"

(* MmcServer.sessions keeps "traces of all running sessions"               *)
(* (agent.py:81): a reload that comes later finds everyone who is          *)
(* logged in.                                                              *)
TracksLoggedIn ==
    \A s \in LoggedInSessions : ~Attaching(s) => s \in tracked

(* A reload that could read the configuration expires "all logged          *)
(* sessions" (agent.py:374): when it returns, no session that was logged   *)
(* in when it began is alive.                                              *)
ReloadExpiresLoggedIn ==
    \A i \in Requests :
        req[i].kind = "reload" /\ req[i].result \in {"Done", "error"}
        => \A s \in scan[i].before : live[s] = "expired"

(* With threads, what a call records in the audit is recorded for the     *)
(* user it was made for ("current context object, should contain the       *)
(* current user id", core/audit/writers.py:229), unless another request of *)
(* the session was in progress meanwhile, by which the session may have    *)
(* changed hands (agent.py:248, 280, 335).                                 *)
AuditNamesCaller ==
    \A i \in Requests \ together : req[i].result = "ok" => req[i].saw = req[i].as

\* The requests that the code leaves without an answer.
Unanswered == {"bare"} \cup (IF Multithreading THEN {"noname"} ELSE {})

=============================================================================
