------------------------- MODULE AgentSessionsProofs -------------------------
(***************************************************************************)
(* Proof that a logged in session holds the contexts of its user, for any  *)
(* numbers of sessions, users and requests, with or without threads,       *)
(* timeouts and faults.                                                    *)
(*                                                                         *)
(* The argument: contexts are emptied and attached with the reactor taken  *)
(* from the first step to the last (OneAttaches), so no other request can  *)
(* render a login or provide the context of root in between; every other   *)
(* step leaves the login, the user and the contexts of sessions alone.     *)
(*                                                                         *)
(* And proofs of what holds when no authentication function raises, when   *)
(* functions run in the reactor, and when no session times out besides:    *)
(* who is logged in was authenticated; the audit names the caller and the  *)
(* set of sessions misses nobody, as one request is in progress at a time  *)
(* (HasReactor); a reload expires everyone.                                *)
(***************************************************************************)
EXTENDS AgentSessions, TLAPS

OneAttaches ==
    \A i \in Requests : req[i].stage \in {"securing", "attaching"} => reactor = i

OwnOrNone == \A s \in Sessions : ~Attaching(s) => ctx[s] \in {userid[s], Nobody}

IInv == TypeOK /\ OneAttaches /\ OwnOrNone /\ LoggedInHasItsContexts

LEMMA InitInvariant == Init => IInv
<1> SUFFICES ASSUME Init PROVE IInv
  OBVIOUS
<1>1. PICK s \in Sessions : req = [i \in Requests |-> NoRequest(s)]
  BY DEF Init
<1>2. TypeOK
  BY <1>1 DEF Init, TypeOK, NoRequest, NoScan, RequestRecords, ScanRecords,
              Stages, Kinds, Results, Whoever
<1>3. OneAttaches
  BY <1>1 DEF OneAttaches, NoRequest
<1>4. OwnOrNone /\ LoggedInHasItsContexts
  BY DEF Init, OwnOrNone, LoggedInHasItsContexts
<1>5. QED
  BY <1>2, <1>3, <1>4 DEF IInv
-----------------------------------------------------------------------------
(* What the updates of a request's record leave alone.                     *)
LEMMA MovedRecord ==
    ASSUME NEW r \in RequestRecords, NEW stage \in Stages
    PROVE  /\ Moved(r, stage) \in RequestRecords
           /\ Moved(r, stage).stage = stage /\ Moved(r, stage).sess = r.sess
BY DEF RequestRecords, Moved

LEMMA EndedRecord ==
    ASSUME NEW r \in RequestRecords, NEW stage \in Stages, NEW result \in Results
    PROVE  /\ Ended(r, stage, result) \in RequestRecords
           /\ Ended(r, stage, result).stage = stage
           /\ Ended(r, stage, result).sess = r.sess
BY DEF RequestRecords, Ended

LEMMA CalledRecord ==
    ASSUME NEW r \in RequestRecords, NEW holder \in Whoever
    PROVE  /\ Called(r, holder) \in RequestRecords
           /\ Called(r, holder).stage = "called" /\ Called(r, holder).sess = r.sess
BY DEF RequestRecords, Called, Stages

LEMMA SawRecord ==
    ASSUME NEW r \in RequestRecords, NEW holder \in Whoever
    PROVE  /\ [r EXCEPT !.saw = holder] \in RequestRecords
           /\ [r EXCEPT !.saw = holder].stage = r.stage
BY DEF RequestRecords

LEMMA RequestTypes ==
    ASSUME NEW kind \in Kinds, NEW s \in Sessions, NEW who \in Users
    PROVE  /\ Request(kind, s, who) \in RequestRecords
           /\ Request(kind, s, who).sess = s
BY DEF Request, NoRequest, RequestRecords, Stages, Results, Whoever, People

-----------------------------------------------------------------------------
(* The steps of worker threads, and of the reactor outside of              *)
(* _associateContext: no request enters or leaves it, and no session       *)
(* changes its login, its user or its contexts.                            *)
Aloof ==
    /\ UNCHANGED <<loggedin, userid, ctx>>
    /\ live' \in [Sessions -> {"new", "live", "expired"}]
    /\ tracked' \subseteq Sessions
    /\ scan' \in [Requests -> ScanRecords]
    /\ reactor' \in Requests \cup {Free}
    /\ together' \subseteq Requests

LEMMA AloofKeeps ==
    ASSUME IInv, NEW i \in Requests, NEW r \in RequestRecords,
           req' = [req EXCEPT ![i] = r], Aloof,
           req[i].stage \notin {"securing", "attaching", "lost"},
           r.stage \notin {"securing", "attaching"},
           reactor' # reactor => reactor \in {Free, i}
    PROVE  IInv'
<1>1. TypeOK'
  BY DEF IInv, TypeOK, Aloof
<1>2. \A j \in Requests : /\ j # i => req'[j] = req[j]
                          /\ req'[i] = r
  BY DEF IInv, TypeOK
<1>3. OneAttaches'
  BY <1>2 DEF IInv, OneAttaches, Requests, Free
<1>4. \A s \in Sessions : /\ Attaching(s) => Attaching(s)'
                          /\ LoggedInBare(s) => LoggedInBare(s)'
  BY <1>2 DEF Attaching, LoggedInBare, At, Sess
<1>5. OwnOrNone' /\ LoggedInHasItsContexts'
  BY <1>4 DEF IInv, OwnOrNone, LoggedInHasItsContexts, Aloof
<1>6. QED
  BY <1>1, <1>3, <1>5 DEF IInv
-----------------------------------------------------------------------------
OthersUnchanged(s) ==
    \A x \in Sessions \ {s} :
        /\ loggedin'[x] = loggedin[x] /\ userid'[x] = userid[x] /\ ctx'[x] = ctx[x]

(* The first step of _associateContext takes the reactor.                  *)
LEMMA BeginKeeps ==
    ASSUME IInv, TypeOK', NEW i \in Requests, NEW r \in RequestRecords,
           req' = [req EXCEPT ![i] = r], r.stage \in {"securing", "attaching"},
           req[i].stage \notin {"securing", "attaching", "lost"},
           reactor \in {Free, i}, reactor' = i, OthersUnchanged(r.sess)
    PROVE  IInv'
<1>1. \A j \in Requests : /\ j # i => req'[j] = req[j]
                          /\ req'[i] = r
  BY DEF IInv, TypeOK
<1>2. \A j \in Requests : req[j].stage \notin {"securing", "attaching"}
  BY DEF IInv, OneAttaches, Requests, Free
<1>3. OneAttaches'
  BY <1>1, <1>2 DEF OneAttaches
<1>4. \A s \in Sessions : ~Attaching(s)
  BY <1>2 DEF Attaching
<1>5. /\ Attaching(r.sess)'
      /\ \A s \in Sessions : LoggedInBare(s) => LoggedInBare(s)'
  BY <1>1 DEF Attaching, LoggedInBare, At, Sess
<1>6. OwnOrNone' /\ LoggedInHasItsContexts'
  BY <1>4, <1>5 DEF IInv, OwnOrNone, LoggedInHasItsContexts, OthersUnchanged
<1>7. QED
  BY <1>3, <1>6 DEF IInv

(* The last step gives it back: the session of the request has all the     *)
(* contexts of its user, or nobody is logged in.                           *)
LEMMA EndKeeps ==
    ASSUME IInv, TypeOK', NEW i \in Requests, NEW r \in RequestRecords,
           req' = [req EXCEPT ![i] = r], r.stage \notin {"securing", "attaching"},
           req[i].stage \in {"securing", "attaching"},
           reactor = i, r.sess = Sess(i), OthersUnchanged(Sess(i)),
           ctx'[Sess(i)] \in {userid'[Sess(i)], Nobody},
           loggedin'[Sess(i)] => ctx'[Sess(i)] = userid'[Sess(i)]
    PROVE  IInv'
<1>1. \A j \in Requests : /\ j # i => req'[j] = req[j]
                          /\ req'[i] = r
  BY DEF IInv, TypeOK
<1>2. \A j \in Requests : j # i => req[j].stage \notin {"securing", "attaching"}
  BY DEF IInv, OneAttaches
<1>3. OneAttaches'
  BY <1>1, <1>2 DEF OneAttaches
<1>4. /\ \A s \in Sessions \ {Sess(i)} : ~Attaching(s)
      /\ \A s \in Sessions : LoggedInBare(s) => LoggedInBare(s)'
  BY <1>1, <1>2 DEF Attaching, LoggedInBare, At, Sess
<1>5. OwnOrNone' /\ LoggedInHasItsContexts'
  BY <1>4 DEF IInv, OwnOrNone, LoggedInHasItsContexts, OthersUnchanged
<1>6. QED
  BY <1>3, <1>5 DEF IInv
-----------------------------------------------------------------------------
LEMMA SendKeeps ==
    ASSUME IInv, NEW i \in Requests, NEW kind \in Kinds, NEW s \in Sessions,
           NEW who \in Users,
           \/ Rejected(i, kind, s, who)
           \/ Secures(i, kind, s, who)
           \/ Calls(i, kind, s, who)
    PROVE  IInv'
<1> DEFINE r == Request(kind, s, who)
<1>1. r \in RequestRecords /\ r.sess = s
  BY RequestTypes
<1> HIDE DEF r
<1>2. /\ live' \in [Sessions -> {"new", "live", "expired"}]
      /\ reactor = Free /\ req[i].stage = "off"
      /\ together' \subseteq Requests
  BY DEF Rejected, Secures, Calls, Arrives, Meets, Companions, At, IInv, TypeOK
<1>3. {"done", "securing", "called"} \subseteq Stages /\ "fault" \in Results
  BY DEF Stages, Results
<1>4. CASE Rejected(i, kind, s, who)
  <2>1. /\ Ended(r, "done", "fault") \in RequestRecords
        /\ Ended(r, "done", "fault").stage = "done"
    BY <1>1, <1>3, EndedRecord
  <2>2. Aloof
    BY <1>2, <1>4 DEF Aloof, Rejected, IInv, TypeOK
  <2>3. QED
    BY <1>2, <1>4, <2>1, <2>2, AloofKeeps DEF Rejected, r
<1>5. CASE Secures(i, kind, s, who)
  <2>1. /\ Moved(r, "securing") \in RequestRecords
        /\ Moved(r, "securing").stage = "securing"
        /\ Moved(r, "securing").sess = s
    BY <1>1, <1>3, MovedRecord
  <2>2. req' = [req EXCEPT ![i] = Moved(r, "securing")]
    BY <1>5 DEF Secures, r
  <2>3. TypeOK'
    BY <1>2, <1>5, <2>1, <2>2 DEF Secures, IInv, TypeOK, Whoever, People
  <2>4. OthersUnchanged(s) /\ reactor' = i
    BY <1>5 DEF Secures, OthersUnchanged, IInv, TypeOK
  <2>5. QED
    BY <1>2, <2>1, <2>2, <2>3, <2>4, BeginKeeps
<1>6. CASE Calls(i, kind, s, who)
  <2>1. ctx[s] \in Whoever
    BY DEF IInv, TypeOK
  <2>2. /\ Called(r, ctx[s]) \in RequestRecords
        /\ Called(r, ctx[s]).stage = "called"
    BY <1>1, <2>1, CalledRecord
  <2>3. Aloof
    BY <1>2, <1>6 DEF Aloof, Calls, ReactorAfterCall, IInv, TypeOK
  <2>4. QED
    BY <1>2, <1>6, <2>2, <2>3, AloofKeeps DEF Calls, r
<1>7. QED
  BY <1>4, <1>5, <1>6

LEMMA WorkerKeeps ==
    ASSUME IInv, NEW i \in Requests, WorkerStep(i)
    PROVE  IInv'
<1>1. req[i] \in RequestRecords
  BY DEF IInv, TypeOK
<1>2. /\ {"answered", "expiring", "resetting", "lost"} \subseteq Stages
      /\ {"yes", "no", "error", "ok", "Done", "Failed"} \subseteq Results
      /\ Nobody \in Whoever
  BY DEF Stages, Results, Whoever
<1>3. PICK r \in RequestRecords : /\ r.stage \notin {"securing", "attaching"}
                                  /\ req' = [req EXCEPT ![i] = r]
  <2>1. \A result \in Results :
          Returns(i, result) =>
            \E r \in RequestRecords : /\ r.stage \notin {"securing", "attaching"}
                                      /\ req' = [req EXCEPT ![i] = r]
    BY <1>1, <1>2, EndedRecord DEF Returns
  <2>2. CASE Authenticates(i)
    BY <2>2, <2>1, <1>2 DEF Authenticates
  <2>3. CASE Works(i)
    <3> DEFINE e == Ended(req[i], "answered", "ok")
    <3>1. e \in RequestRecords /\ e.stage = "answered"
      <4>1. "answered" \in Stages /\ "ok" \in Results
        BY <1>2
      <4>2. QED
        BY <1>1, <4>1, EndedRecord
    <3>2. PICK whose \in Recorded(i) : req' = [req EXCEPT ![i] = [e EXCEPT !.saw = whose]]
      BY <2>3 DEF Works, e
    <3>3. whose \in Whoever
      BY <1>1, <1>2, <3>2 DEF Recorded, Contexts, IInv, TypeOK, Sess, RequestRecords
    <3> HIDE DEF e
    <3>4. /\ [e EXCEPT !.saw = whose] \in RequestRecords
          /\ [e EXCEPT !.saw = whose].stage = "answered"
      BY <3>1, <3>3, SawRecord
    <3>5. QED
      BY <3>2, <3>4
  <2>4. CASE ReadsConf(i) \/ Expires(i) \/ LoopEnds(i)
    <3>1. \A stage \in {"expiring", "resetting"} :
            /\ Moved(req[i], stage) \in RequestRecords
            /\ Moved(req[i], stage).stage = stage
      BY <1>1, <1>2, MovedRecord
    <3>2. CASE Expires(i)
      BY <3>2, <1>1 DEF Expires, At, IInv, TypeOK
    <3>3. QED
      BY <2>4, <3>1, <3>2 DEF ReadsConf, LoopEnds
  <2>5. CASE CannotReadConf(i) \/ CannotExpire(i) \/ Resets(i)
    BY <2>5, <2>1, <1>2 DEF CannotReadConf, CannotExpire, Resets
  <2>6. CASE Raises(i) \/ LosesThread(i)
    <3>1. /\ Moved(req[i], "lost") \in RequestRecords
          /\ Moved(req[i], "lost").stage = "lost"
      BY <1>1, <1>2, MovedRecord
    <3>2. QED
      BY <2>6, <2>1, <3>1, <1>2 DEF Raises, LosesThread
  <2>7. QED
    BY <2>2, <2>3, <2>4, <2>5, <2>6 DEF WorkerStep
<1>4. /\ UNCHANGED <<loggedin, userid, ctx, reactor, together>>
      /\ req[i].stage \notin {"securing", "attaching", "lost"}
  BY DEF WorkerStep, Authenticates, Works, Raises, LosesThread, ReadsConf, CannotReadConf, Expires,
         CannotExpire, LoopEnds, Resets, Runs, At
<1>5. /\ live' \in [Sessions -> {"new", "live", "expired"}]
      /\ tracked' \subseteq Sessions
      /\ scan' \in [Requests -> ScanRecords]
  <2>1. CASE Expires(i)
    <3>1. PICK s \in Expirable(i) :
             /\ live' = [live EXCEPT ![s] = "expired"]
             /\ scan' = [scan EXCEPT ![i] = Visited(scan[i], s)]
             /\ tracked' = tracked
      BY <2>1 DEF Expires
    <3>2. scan[i] \in ScanRecords
      BY DEF IInv, TypeOK
    <3>3. Visited(scan[i], s) \in ScanRecords
      BY <3>2 DEF ScanRecords, Visited
    <3>4. QED
      BY <3>1, <3>3 DEF IInv, TypeOK
  <2>2. CASE ReadsConf(i)
    <3>1. [left |-> tracked, grown |-> FALSE, before |-> LoggedInSessions]
             \in ScanRecords
      BY DEF ScanRecords, LoggedInSessions, IInv, TypeOK
    <3>2. QED
      BY <2>2, <3>1 DEF ReadsConf, IInv, TypeOK
  <2>3. CASE ~Expires(i) /\ ~ReadsConf(i)
    BY <2>3 DEF WorkerStep, Authenticates, Works, Raises, LosesThread, CannotReadConf, CannotExpire,
                LoopEnds, Resets, IInv, TypeOK
  <2>4. QED
    BY <2>1, <2>2, <2>3
<1>6. Aloof
  BY <1>4, <1>5 DEF Aloof, IInv, TypeOK
<1>7. QED
  BY <1>3, <1>4, <1>6, AloofKeeps

(* The end of _associateContext, in either kind of request.                *)
LEMMA AttachTypes ==
    ASSUME IInv, NEW i \in Requests, Attaches(i) \/ CannotAttach(i)
    PROVE  /\ ctx' \in [Sessions -> Whoever]
           /\ tracked' \subseteq Sessions
           /\ scan' \in [Requests -> ScanRecords]
           /\ reactor = i
           /\ \A x \in Sessions \ {Sess(i)} : ctx'[x] = ctx[x]
<1>1. Sess(i) \in Sessions
  BY DEF IInv, TypeOK, RequestRecords, Sess
<1>2. CASE Attaches(i)
  <2>1. \A j \in Requests : scan[j] \in ScanRecords
                            /\ [scan[j] EXCEPT !.grown = TRUE] \in ScanRecords
    BY DEF IInv, TypeOK, ScanRecords
  <2>2. scan' \in [Requests -> ScanRecords]
    BY <1>2, <2>1 DEF Attaches, Tracks
  <2>3. QED
    BY <1>1, <1>2, <2>2 DEF Attaches, Tracks, IInv, TypeOK
<1>3. CASE CannotAttach(i)
  BY <1>1, <1>3 DEF CannotAttach, IInv, TypeOK, Whoever
<1>4. QED
  BY <1>2, <1>3

(* A login that is lost sets loggedin, for whoever the session was for.    *)
LEMMA LoseKeeps ==
    ASSUME IInv, NEW i \in Requests, LosesLogin(i), UNCHANGED together
    PROVE  IInv'
<1> DEFINE r == Moved(req[i], "lost")
<1>1. req[i] \in RequestRecords /\ Sess(i) \in Sessions /\ "lost" \in Stages
  BY DEF IInv, TypeOK, RequestRecords, Sess, Stages
<1>2. r \in RequestRecords /\ r.stage = "lost" /\ r.sess = Sess(i)
  BY <1>1, MovedRecord DEF Sess
<1>3. r.kind = "bare"
  BY <1>1 DEF RequestRecords, Moved, LosesLogin
<1> HIDE DEF r
<1>4. /\ req' = [req EXCEPT ![i] = r]
      /\ loggedin' = [loggedin EXCEPT ![Sess(i)] = TRUE]
      /\ req[i].stage = "answered" /\ reactor \in {Free, i} /\ reactor' = Free
      /\ UNCHANGED <<live, userid, ctx, tracked, scan>>
  BY DEF LosesLogin, Renders, At, r
<1>5. \A j \in Requests : /\ j # i => req'[j] = req[j]
                          /\ req'[i] = r
  BY <1>4 DEF IInv, TypeOK
<1>6. TypeOK'
  BY <1>1, <1>2, <1>4 DEF IInv, TypeOK
<1>7. \A j \in Requests : req[j].stage \notin {"securing", "attaching"}
  BY <1>4 DEF IInv, OneAttaches, Requests, Free
<1>8. OneAttaches'
  BY <1>2, <1>5, <1>7 DEF OneAttaches
<1>9. \A s \in Sessions : /\ ~Attaching(s)
                          /\ LoggedInBare(s) => LoggedInBare(s)'
  BY <1>4, <1>5, <1>7 DEF Attaching, LoggedInBare, At, Sess
<1>10. \A s \in Sessions : s = Sess(i) => LoggedInBare(s)'
  <2>1. req'[i].stage = "lost" /\ req'[i].sess = Sess(i) /\ req'[i].kind = "bare"
    BY <1>2, <1>3, <1>5
  <2>2. QED
    BY <2>1 DEF LoggedInBare, At, Sess
<1>11. OwnOrNone'
  BY <1>4, <1>9 DEF IInv, OwnOrNone
<1>12. LoggedInHasItsContexts'
  <2> SUFFICES ASSUME NEW s \in Sessions, loggedin'[s]
               PROVE  \/ ctx'[s] = userid'[s]
                      \/ ctx'[s] = Nobody /\ LoggedInBare(s)'
    BY DEF LoggedInHasItsContexts
  <2>1. CASE s = Sess(i)
    BY <1>1, <1>4, <1>9, <1>10, <2>1 DEF IInv, OwnOrNone
  <2>2. CASE s # Sess(i)
    <3>1. loggedin[s]
      BY <1>1, <1>4, <2>2 DEF IInv, TypeOK
    <3>2. QED
      BY <1>4, <1>9, <3>1 DEF IInv, LoggedInHasItsContexts
  <2>3. QED
    BY <2>1, <2>2
<1>13. QED
  BY <1>6, <1>8, <1>11, <1>12 DEF IInv

LEMMA ReactorKeeps ==
    ASSUME IInv, NEW i \in Requests, ReactorStep(i)
    PROVE  IInv'
<1>1. req[i] \in RequestRecords /\ Sess(i) \in Sessions /\ together' = together
  BY DEF IInv, TypeOK, RequestRecords, Sess, ReactorStep
<1>2. {"called", "attaching", "done"} \subseteq Stages /\ "fault" \in Results
  BY DEF Stages, Results
<1>3. \A result \in Results :
        /\ Ended(req[i], "done", result) \in RequestRecords
        /\ Ended(req[i], "done", result).stage = "done"
        /\ Ended(req[i], "done", result).sess = Sess(i)
  BY <1>1, <1>2, EndedRecord DEF Sess
<1>4. req[i].result \in Results /\ req[i].who \in Whoever
  BY <1>1 DEF RequestRecords
<1>5. CASE Secured(i)
  <2>1. userid[Sess(i)] \in Whoever
    BY <1>1 DEF IInv, TypeOK
  <2> DEFINE r == Called(req[i], userid[Sess(i)])
  <2>2. r \in RequestRecords /\ r.stage = "called" /\ r.sess = Sess(i)
    BY <1>1, <2>1, CalledRecord DEF Sess
  <2>3. req' = [req EXCEPT ![i] = r] /\ req[i].stage = "securing"
    BY <1>5 DEF Secured, At
  <2> HIDE DEF r
  <2>4. /\ ctx' \in [Sessions -> Whoever] /\ tracked' \subseteq Sessions
        /\ scan' \in [Requests -> ScanRecords] /\ reactor = i
        /\ \A x \in Sessions \ {Sess(i)} : ctx'[x] = ctx[x]
    BY <1>5, AttachTypes DEF Secured
  <2>5. TypeOK'
    BY <1>1, <1>5, <2>2, <2>3, <2>4 DEF Secured, ReactorAfterCall, Free, IInv, TypeOK
  <2>6. OthersUnchanged(Sess(i)) /\ ctx'[Sess(i)] = userid'[Sess(i)]
    BY <1>1, <1>5, <2>4 DEF OthersUnchanged, Secured, Attaches, IInv, TypeOK
  <2>7. QED
    BY <2>2, <2>3, <2>4, <2>5, <2>6, EndKeeps
<1>6. ASSUME CannotAttach(i), Answer(i, "fault"), UNCHANGED <<live, userid>>,
             req[i].stage \in {"securing", "attaching"}
      PROVE  IInv'
  <2>1. /\ ctx' \in [Sessions -> Whoever] /\ tracked' \subseteq Sessions
        /\ scan' \in [Requests -> ScanRecords] /\ reactor = i
        /\ \A x \in Sessions \ {Sess(i)} : ctx'[x] = ctx[x]
    BY <1>6, AttachTypes
  <2>2. /\ loggedin' = [loggedin EXCEPT ![Sess(i)] = FALSE]
        /\ req' = [req EXCEPT ![i] = Ended(req[i], "done", "fault")]
        /\ reactor' = Free
    BY <1>6 DEF CannotAttach, Answer
  <2>3. TypeOK'
    BY <1>1, <1>2, <1>3, <1>6, <2>1, <2>2 DEF IInv, TypeOK
  <2>4. /\ OthersUnchanged(Sess(i)) /\ ~loggedin'[Sess(i)]
        /\ ctx'[Sess(i)] \in {userid'[Sess(i)], Nobody}
    BY <1>1, <1>6, <2>1, <2>2 DEF CannotAttach, OthersUnchanged, IInv, TypeOK
  <2>5. QED
    BY <1>2, <1>3, <1>6, <2>1, <2>2, <2>3, <2>4, EndKeeps
<1>7. CASE RendersLogin(i)
  <2>1. /\ Moved(req[i], "attaching") \in RequestRecords
        /\ Moved(req[i], "attaching").stage = "attaching"
        /\ Moved(req[i], "attaching").sess = Sess(i)
    BY <1>1, <1>2, MovedRecord DEF Sess
  <2>2. /\ req' = [req EXCEPT ![i] = Moved(req[i], "attaching")]
        /\ reactor \in {Free, i} /\ reactor' = i
        /\ req[i].stage = "answered"
    BY <1>7 DEF RendersLogin, Renders, At
  <2>3. TypeOK'
    BY <1>1, <1>4, <1>7, <2>1, <2>2 DEF RendersLogin, IInv, TypeOK, Whoever
  <2>4. OthersUnchanged(Sess(i))
    BY <1>7 DEF RendersLogin, OthersUnchanged, IInv, TypeOK
  <2>5. QED
    BY <2>1, <2>2, <2>3, <2>4, BeginKeeps
<1>8. CASE Attached(i)
  <2>1. /\ ctx' \in [Sessions -> Whoever] /\ tracked' \subseteq Sessions
        /\ scan' \in [Requests -> ScanRecords] /\ reactor = i
        /\ \A x \in Sessions \ {Sess(i)} : ctx'[x] = ctx[x]
    BY <1>8, AttachTypes DEF Attached
  <2>2. /\ req' = [req EXCEPT ![i] = Ended(req[i], "done", req[i].result)]
        /\ reactor' = Free /\ req[i].stage = "attaching"
    BY <1>8 DEF Attached, Answer, At
  <2>3. TypeOK'
    BY <1>1, <1>3, <1>4, <1>8, <2>1, <2>2 DEF Attached, IInv, TypeOK
  <2>4. OthersUnchanged(Sess(i)) /\ ctx'[Sess(i)] = userid'[Sess(i)]
    BY <1>1, <1>8, <2>1 DEF OthersUnchanged, Attached, Attaches, IInv, TypeOK
  <2>5. QED
    BY <1>3, <1>4, <2>1, <2>2, <2>3, <2>4, EndKeeps
<1>9. CASE RendersResult(i)
  <2>1. /\ req' = [req EXCEPT ![i] = Ended(req[i], "done", req[i].result)]
        /\ reactor' = Free /\ reactor \in {Free, i}
        /\ req[i].stage = "answered"
    BY <1>9 DEF RendersResult, Renders, Answer, At
  <2>2. Aloof
    BY <1>1, <1>9, <2>1 DEF RendersResult, session, Aloof, IInv, TypeOK
  <2>3. QED
    BY <1>3, <1>4, <2>1, <2>2, AloofKeeps
<1>10. CASE LosesLogin(i)
  BY <1>10, LoseKeeps DEF ReactorStep
<1>11. QED
  BY <1>5, <1>6, <1>7, <1>8, <1>9, <1>10 DEF ReactorStep, NotSecured, NotAttached, At

(* The site forgets a session: its login state stays with the object.      *)
LEMMA TimeOutKeeps ==
    ASSUME IInv, NEW s \in Sessions, TimesOut(s)
    PROVE  IInv'
<1>1. TypeOK'
  BY DEF TimesOut, IInv, TypeOK
<1>2. OneAttaches' /\ OwnOrNone' /\ LoggedInHasItsContexts'
  BY DEF TimesOut, IInv, OneAttaches, OwnOrNone, LoggedInHasItsContexts, LoggedInBare,
         Attaching, At, Sess
<1>3. QED
  BY <1>1, <1>2 DEF IInv
-----------------------------------------------------------------------------
LEMMA Invariance == Spec => []IInv
<1>1. IInv /\ [Next]_vars => IInv'
  <2> SUFFICES ASSUME IInv, [Next]_vars PROVE IInv'
    OBVIOUS
  <2>1. ASSUME NEW i \in Requests, Sends(i) PROVE IInv'
    BY <2>1, SendKeeps DEF Sends, Sent
  <2>2. ASSUME NEW i \in Requests, WorkerStep(i) PROVE IInv'
    BY <2>2, WorkerKeeps
  <2>3. ASSUME NEW i \in Requests, ReactorStep(i) PROVE IInv'
    BY <2>3, ReactorKeeps
  <2>4. ASSUME NEW s \in Sessions, TimesOut(s) PROVE IInv'
    BY <2>4, TimeOutKeeps
  <2>5. CASE UNCHANGED vars
    BY <2>5 DEF vars, session, IInv, TypeOK, OneAttaches, OwnOrNone,
                LoggedInHasItsContexts, LoggedInBare, Attaching, At, Sess
  <2>6. QED
    BY <2>1, <2>2, <2>3, <2>4, <2>5 DEF Next
<1>2. QED
  BY InitInvariant, <1>1, PTL DEF Spec

(* No step gives a variable a value of another type: every request, scan   *)
(* and session stays a record the code could have built (agent.py:143-378).*)
THEOREM TypeCorrect == Spec => []TypeOK
BY Invariance, PTL DEF IInv

(* Whoever is logged in has the contexts of that user: no interleaving of  *)
(* logins, calls, faults, reloads and timeouts leaves a session with the   *)
(* contexts of somebody else (agent.py:195-209, 277-288, 335-350).         *)
THEOREM OwnContexts == Spec => []LoggedInHasItsContexts
BY Invariance, PTL DEF IInv
-----------------------------------------------------------------------------
(* How far a request can be with its result, its kind and its session.     *)
Phases ==
    \A i \in Requests :
        /\ req[i].stage \in {"off", "securing", "called", "expiring", "resetting"}
           => req[i].result = "none"
        /\ req[i].stage \in {"expiring", "resetting"} => req[i].kind = "reload"
        /\ req[i].stage # "off" => live[Sess(i)] # "new"

EmptyWhenNew == \A s \in Sessions : live[s] = "new" => ~loggedin[s]

(* The ghost has both of two requests that are in progress in one session. *)
(* A call that met nobody finds the contexts it was called with.           *)
Met ==
    \A i, j \in Requests :
        i # j /\ InProgress(i) /\ InProgress(j) /\ Sess(i) = Sess(j) => i \in together
CallerIsHolder ==
    \A i \in Requests \ together : At(i, "called") => req[i].as = ctx[Sess(i)]

(* Without threads: a request in progress has the reactor, so one is in    *)
(* progress at a time.                                                     *)
HasReactor == \A i \in Requests : InProgress(i) => reactor = i

(* Without threads: a call that is going to log its session in without     *)
(* attaching anything finds it among the sessions of the server.           *)
BareIsTracked ==
    \A i \in Requests :
        req[i].kind = "bare" /\ req[i].stage \in {"called", "answered"}
        => Sess(i) \in tracked

(* Without threads: the loop of a reload still has before it whoever is    *)
(* logged in.                                                              *)
LoopFinds ==
    \A i \in Requests :
        /\ At(i, "expiring") => /\ ~scan[i].grown
                                /\ LoggedInSessions \subseteq scan[i].left
        /\ At(i, "resetting") => LoggedInSessions = {}

(* Without threads or timeouts: nothing that is tracked, or that a request *)
(* in progress may track, has expired but in the loop of a reload.         *)
Expiring(i) == req[i].stage \in {"expiring", "resetting"}

LoopExpires ==
    \A i \in Requests :
        /\ At(i, "expiring") =>
             /\ \A s \in scan[i].before : s \in scan[i].left \/ live[s] = "expired"
             /\ \A s \in scan[i].left : live[s] = "live"
        /\ At(i, "resetting") => \A s \in scan[i].before : live[s] = "expired"

TrackedAreLive ==
    (\A i \in Requests : ~Expiring(i)) => \A s \in tracked : live[s] = "live"

ServedAreLive ==
    \A i \in Requests :
        \/ req[i].stage \in {"securing", "called", "attaching"}
        \/ At(i, "answered") /\ req[i].kind = "auth"
        => live[Sess(i)] = "live"

(* Without exceptions in them: authentication functions say yes or no.     *)
NoAuthError ==
    \A i \in Requests : /\ req[i].kind # "bare"
                        /\ req[i].kind = "auth" => req[i].result # "error"

HolderInv == Met /\ CallerIsHolder /\ AuditNamesCaller
SerialInv == HasReactor /\ LoopFinds /\ BareIsTracked /\ TracksLoggedIn
ReloadInv ==
    /\ LoopExpires /\ TrackedAreLive /\ ServedAreLive /\ ReloadExpiresLoggedIn
-----------------------------------------------------------------------------
(* The lemmas below have a step for each action of a request: three that   *)
(* receive it, ten of its function, seven that render its result.         *)
LEMMA PhasesKept ==
    ASSUME TypeOK, Phases, EmptyWhenNew,
           NEW i \in Requests, Sends(i) \/ WorkerStep(i) \/ ReactorStep(i)
    PROVE  Phases' /\ EmptyWhenNew'
<1> USE DEF Phases, EmptyWhenNew, TypeOK, RequestRecords, Sess, At, Moved,
            Ended, Runs
<1>1. ASSUME NEW kind \in Kinds, NEW s \in Sessions, NEW who \in Users,
             Rejected(i, kind, s, who)
      PROVE  Phases' /\ EmptyWhenNew'
  BY <1>1 DEF Rejected, Arrives, Request, NoRequest
<1>2. ASSUME NEW kind \in Kinds, NEW s \in Sessions, NEW who \in Users,
             Secures(i, kind, s, who)
      PROVE  Phases' /\ EmptyWhenNew'
  BY <1>2 DEF Secures, Arrives, Meets, Companions, NeedsContext, Request, NoRequest
<1>3. ASSUME NEW kind \in Kinds, NEW s \in Sessions, NEW who \in Users,
             Calls(i, kind, s, who)
      PROVE  Phases' /\ EmptyWhenNew'
  BY <1>3 DEF Calls, Arrives, Meets, Companions, NeedsContext, Request, NoRequest, Called, ReactorAfterCall
<1>4. CASE Authenticates(i) /\ UNCHANGED together
  BY <1>4 DEF Authenticates, Returns
<1>5. CASE Works(i) /\ UNCHANGED together
  BY <1>5 DEF Works
<1>6. CASE Raises(i) /\ UNCHANGED together
  BY <1>6 DEF Raises, Returns
<1>7. CASE ReadsConf(i) /\ UNCHANGED together
  BY <1>7 DEF ReadsConf
<1>8. CASE CannotReadConf(i) /\ UNCHANGED together
  BY <1>8 DEF CannotReadConf, Returns
<1>9. CASE Expires(i) /\ UNCHANGED together
  BY <1>9 DEF Expires, Expirable
<1>10. CASE CannotExpire(i) /\ UNCHANGED together
  BY <1>10 DEF CannotExpire, Returns, Expirable
<1>11. CASE LoopEnds(i) /\ UNCHANGED together
  BY <1>11 DEF LoopEnds
<1>12. CASE Resets(i) /\ UNCHANGED together
  BY <1>12 DEF Resets, Returns
<1>13. CASE Secured(i) /\ UNCHANGED together
  BY <1>13 DEF Secured, Called, Attaches, ReactorAfterCall
<1>14. CASE NotSecured(i) /\ UNCHANGED together
  BY <1>14 DEF NotSecured, CannotAttach, Answer
<1>15. CASE RendersLogin(i) /\ UNCHANGED together
  BY <1>15 DEF RendersLogin, Renders, LogsIn
<1>16. CASE LosesLogin(i) /\ UNCHANGED together
  BY <1>16 DEF LosesLogin, Renders, LogsIn
<1>17. CASE Attached(i) /\ UNCHANGED together
  BY <1>17 DEF Attached, Attaches, Answer
<1>18. CASE NotAttached(i) /\ UNCHANGED together
  BY <1>18 DEF NotAttached, CannotAttach, Answer
<1>19. CASE RendersResult(i) /\ UNCHANGED together
  BY <1>19 DEF RendersResult, Renders, LogsIn, Answer, session
<1>20. CASE LosesThread(i) /\ UNCHANGED together
  BY <1>20 DEF LosesThread
<1>21. QED
  BY <1>1, <1>2, <1>3, <1>4, <1>5, <1>6, <1>7, <1>8, <1>9, <1>10, <1>11,
     <1>12, <1>13, <1>14, <1>15, <1>16, <1>17, <1>18, <1>19, <1>20
     DEF Sends, Sent, WorkerStep, ReactorStep

(* What changes the contexts of a session is a request of that session:    *)
(* two of them in progress have met, and to one that met nobody the        *)
(* contexts are what they were when it was called.                         *)
LEMMA HolderKept ==
    ASSUME TypeOK, Multithreading, Phases, Met, CallerIsHolder,
           AuditNamesCaller,
           NEW i \in Requests, Sends(i) \/ WorkerStep(i) \/ ReactorStep(i)
    PROVE  Met' /\ CallerIsHolder' /\ AuditNamesCaller'
<1> USE DEF Phases, Met, CallerIsHolder, AuditNamesCaller, InProgress, TypeOK,
            RequestRecords, Sess, At, Moved, Ended, Runs
<1>1. ASSUME NEW kind \in Kinds, NEW s \in Sessions, NEW who \in Users,
             Rejected(i, kind, s, who)
      PROVE  Met' /\ CallerIsHolder' /\ AuditNamesCaller'
  BY <1>1 DEF Rejected, Arrives, Request, NoRequest
<1>2. ASSUME NEW kind \in Kinds, NEW s \in Sessions, NEW who \in Users,
             Secures(i, kind, s, who)
      PROVE  Met' /\ CallerIsHolder' /\ AuditNamesCaller'
  BY <1>2 DEF Secures, Arrives, Meets, Companions, NeedsContext, Request, NoRequest
<1>3. ASSUME NEW kind \in Kinds, NEW s \in Sessions, NEW who \in Users,
             Calls(i, kind, s, who)
      PROVE  Met' /\ CallerIsHolder' /\ AuditNamesCaller'
  BY <1>3 DEF Calls, Arrives, Meets, Companions, NeedsContext, Request, NoRequest, Called, ReactorAfterCall
<1>4. CASE Authenticates(i) /\ UNCHANGED together
  BY <1>4 DEF Authenticates, Returns
<1>5. CASE Works(i) /\ UNCHANGED together
  BY <1>5 DEF Works, Recorded, Contexts, Attaching
<1>6. CASE Raises(i) /\ UNCHANGED together
  BY <1>6 DEF Raises, Returns
<1>7. CASE ReadsConf(i) /\ UNCHANGED together
  BY <1>7 DEF ReadsConf
<1>8. CASE CannotReadConf(i) /\ UNCHANGED together
  BY <1>8 DEF CannotReadConf, Returns
<1>9. CASE Expires(i) /\ UNCHANGED together
  BY <1>9 DEF Expires, Expirable
<1>10. CASE CannotExpire(i) /\ UNCHANGED together
  BY <1>10 DEF CannotExpire, Returns, Expirable
<1>11. CASE LoopEnds(i) /\ UNCHANGED together
  BY <1>11 DEF LoopEnds
<1>12. CASE Resets(i) /\ UNCHANGED together
  BY <1>12 DEF Resets, Returns
<1>13. CASE Secured(i) /\ UNCHANGED together
  <2>1. \A j \in Requests \ together : At(j, "called") => Sess(j) # Sess(i)
    BY <1>13 DEF Secured
  <2>2. Met'
    BY <1>13 DEF Secured, Called, Attaches, ReactorAfterCall
  <2>3. CallerIsHolder'
    BY <1>13, <2>1 DEF Secured, Called, Attaches, ReactorAfterCall
  <2>4. AuditNamesCaller'
    BY <1>13 DEF Secured, Called, Attaches, ReactorAfterCall
  <2>5. QED
    BY <2>2, <2>3, <2>4
<1>14. CASE NotSecured(i) /\ UNCHANGED together
  <2>1. \A j \in Requests \ together : At(j, "called") => Sess(j) # Sess(i)
    BY <1>14 DEF NotSecured
  <2>2. Met'
    BY <1>14 DEF NotSecured, CannotAttach, Answer
  <2>3. CallerIsHolder'
    BY <1>14, <2>1 DEF NotSecured, CannotAttach, Answer
  <2>4. AuditNamesCaller'
    BY <1>14 DEF NotSecured, CannotAttach, Answer
  <2>5. QED
    BY <2>2, <2>3, <2>4
<1>15. CASE RendersLogin(i) /\ UNCHANGED together
  <2>1. \A j \in Requests \ together : At(j, "called") => Sess(j) # Sess(i)
    BY <1>15 DEF RendersLogin, Renders
  <2>2. Met'
    BY <1>15 DEF RendersLogin, Renders
  <2>3. CallerIsHolder'
    BY <1>15, <2>1 DEF RendersLogin, Renders
  <2>4. AuditNamesCaller'
    BY <1>15 DEF RendersLogin
  <2>5. QED
    BY <2>2, <2>3, <2>4
<1>16. CASE LosesLogin(i) /\ UNCHANGED together
  BY <1>16 DEF LosesLogin, Renders, LogsIn
<1>17. CASE Attached(i) /\ UNCHANGED together
  <2>1. \A j \in Requests \ together : At(j, "called") => Sess(j) # Sess(i)
    BY <1>17 DEF Attached
  <2>2. Met'
    BY <1>17 DEF Attached, Attaches, Answer
  <2>3. CallerIsHolder'
    BY <1>17, <2>1 DEF Attached, Attaches, Answer
  <2>4. AuditNamesCaller'
    BY <1>17 DEF Attached, Attaches, Answer
  <2>5. QED
    BY <2>2, <2>3, <2>4
<1>18. CASE NotAttached(i) /\ UNCHANGED together
  <2>1. \A j \in Requests \ together : At(j, "called") => Sess(j) # Sess(i)
    BY <1>18 DEF NotAttached
  <2>2. Met'
    BY <1>18 DEF NotAttached, CannotAttach, Answer
  <2>3. CallerIsHolder'
    BY <1>18, <2>1 DEF NotAttached, CannotAttach, Answer
  <2>4. AuditNamesCaller'
    BY <1>18 DEF NotAttached, CannotAttach, Answer
  <2>5. QED
    BY <2>2, <2>3, <2>4
<1>19. CASE RendersResult(i) /\ UNCHANGED together
  BY <1>19 DEF RendersResult, Renders, LogsIn, Answer, session
<1>20. CASE LosesThread(i) /\ UNCHANGED together
  BY <1>20 DEF LosesThread
<1>21. QED
  BY <1>1, <1>2, <1>3, <1>4, <1>5, <1>6, <1>7, <1>8, <1>9, <1>10, <1>11,
     <1>12, <1>13, <1>14, <1>15, <1>16, <1>17, <1>18, <1>19, <1>20
     DEF Sends, Sent, WorkerStep, ReactorStep

(* Sessions are added to the set by whoever has the reactor: not while a   *)
(* loop runs over it.                                                      *)
LEMMA LoopKept ==
    ASSUME TypeOK, ~Multithreading, Phases, EmptyWhenNew, HasReactor,
           LoopFinds, BareIsTracked, TracksLoggedIn,
           NEW i \in Requests, Sends(i) \/ WorkerStep(i) \/ ReactorStep(i)
    PROVE  HasReactor' /\ LoopFinds' /\ BareIsTracked' /\ TracksLoggedIn'
<1> USE DEF EmptyWhenNew, HasReactor, LoopFinds, BareIsTracked, TracksLoggedIn,
            InProgress, LoggedInSessions, Attaching, TypeOK, RequestRecords,
            Sess, At, Moved, Ended, ScanRecords, Runs, Free, Requests
<1>1. ASSUME NEW kind \in Kinds, NEW s \in Sessions, NEW who \in Users,
             Rejected(i, kind, s, who)
      PROVE  HasReactor' /\ LoopFinds' /\ BareIsTracked' /\ TracksLoggedIn'
  <2>1. \A j \in Requests : ~InProgress(j)
    BY <1>1 DEF Rejected, Arrives
  <2>2. HasReactor'
    BY <1>1, <2>1 DEF Rejected, Arrives, Request, NoRequest
  <2>3. LoopFinds' /\ TracksLoggedIn'
    BY <1>1, <2>1 DEF Rejected, Arrives, Request, NoRequest
  <2>4. BareIsTracked'
    BY <1>1, <2>1 DEF Rejected, Arrives, Request, NoRequest
  <2>5. QED
    BY <2>2, <2>3, <2>4
<1>2. ASSUME NEW kind \in Kinds, NEW s \in Sessions, NEW who \in Users,
             Secures(i, kind, s, who)
      PROVE  HasReactor' /\ LoopFinds' /\ BareIsTracked' /\ TracksLoggedIn'
  <2>1. \A j \in Requests : ~InProgress(j)
    BY <1>2 DEF Secures, Arrives
  <2>2. HasReactor'
    BY <1>2, <2>1 DEF Secures, Arrives, NeedsContext, Request, NoRequest
  <2>3. LoopFinds' /\ TracksLoggedIn'
    BY <1>2, <2>1 DEF Secures, Arrives, NeedsContext, Request, NoRequest
  <2>4. BareIsTracked'
    BY <1>2, <2>1 DEF Secures, Arrives, NeedsContext, Request, NoRequest
  <2>5. QED
    BY <2>2, <2>3, <2>4
<1>3. ASSUME NEW kind \in Kinds, NEW s \in Sessions, NEW who \in Users,
             Calls(i, kind, s, who)
      PROVE  HasReactor' /\ LoopFinds' /\ BareIsTracked' /\ TracksLoggedIn'
  <2>1. \A j \in Requests : ~InProgress(j)
    BY <1>3 DEF Calls, Arrives
  <2>2. HasReactor'
    BY <1>3, <2>1 DEF Calls, Arrives, NeedsContext, Request, NoRequest, Called, ReactorAfterCall
  <2>3. LoopFinds' /\ TracksLoggedIn'
    BY <1>3, <2>1 DEF Calls, Arrives, NeedsContext, Request, NoRequest, Called, ReactorAfterCall
  <2>4. BareIsTracked'
    BY <1>3, <2>1 DEF Calls, Arrives, NeedsContext, Request, NoRequest, Called, ReactorAfterCall
  <2>5. QED
    BY <2>2, <2>3, <2>4
<1>4. CASE Authenticates(i) /\ UNCHANGED together
  BY <1>4 DEF Authenticates, Returns
<1>5. CASE Works(i) /\ UNCHANGED together
  BY <1>5 DEF Works
<1>6. CASE Raises(i) /\ UNCHANGED together
  BY <1>6 DEF Raises, Returns
<1>7. CASE ReadsConf(i) /\ UNCHANGED together
  BY <1>7 DEF ReadsConf
<1>8. CASE CannotReadConf(i) /\ UNCHANGED together
  BY <1>8 DEF CannotReadConf, Returns
<1>9. CASE Expires(i) /\ UNCHANGED together
  BY <1>9 DEF Expires, Expirable, Visited
<1>10. CASE CannotExpire(i) /\ UNCHANGED together
  BY <1>10 DEF Phases, CannotExpire, Returns, Expirable
<1>11. CASE LoopEnds(i) /\ UNCHANGED together
  BY <1>11 DEF LoopEnds
<1>12. CASE Resets(i) /\ UNCHANGED together
  BY <1>12 DEF Phases, Resets, Returns
<1>13. CASE Secured(i) /\ UNCHANGED together
  BY <1>13 DEF Secured, Called, Attaches, ReactorAfterCall, Tracks
<1>14. CASE NotSecured(i) /\ UNCHANGED together
  BY <1>14 DEF NotSecured, CannotAttach, Answer
<1>15. CASE RendersLogin(i) /\ UNCHANGED together
  BY <1>15 DEF RendersLogin, Renders, LogsIn
<1>16. CASE LosesLogin(i) /\ UNCHANGED together
  BY <1>16 DEF LosesLogin, Renders, LogsIn
<1>17. CASE Attached(i) /\ UNCHANGED together
  BY <1>17 DEF Attached, Attaches, Answer, Tracks
<1>18. CASE NotAttached(i) /\ UNCHANGED together
  BY <1>18 DEF NotAttached, CannotAttach, Answer
<1>19. CASE RendersResult(i) /\ UNCHANGED together
  BY <1>19 DEF RendersResult, Renders, LogsIn, Answer, session
<1>20. CASE LosesThread(i) /\ UNCHANGED together
  BY <1>20 DEF LosesThread
<1>21. QED
  BY <1>1, <1>2, <1>3, <1>4, <1>5, <1>6, <1>7, <1>8, <1>9, <1>10, <1>11,
     <1>12, <1>13, <1>14, <1>15, <1>16, <1>17, <1>18, <1>19, <1>20
     DEF Sends, Sent, WorkerStep, ReactorStep

(* A login is that of the request that renders it; whatever is answered    *)
(* before it, an authentication that said yes stays on record.             *)
LEMMA AuthenticatedKept ==
    ASSUME TypeOK, "auth" \notin Faults, "bare" \notin Faults, Phases,
           NoAuthError, LoggedInWasAuthenticated,
           NEW i \in Requests, Sends(i) \/ WorkerStep(i) \/ ReactorStep(i)
    PROVE  NoAuthError' /\ LoggedInWasAuthenticated'
<1> USE DEF Phases, NoAuthError, LoggedInWasAuthenticated, TypeOK,
            RequestRecords, Sess, At, Moved, Ended, Runs
<1>1. ASSUME NEW kind \in Sent, NEW s \in Sessions, NEW who \in Users,
             Rejected(i, kind, s, who)
      PROVE  NoAuthError' /\ LoggedInWasAuthenticated'
  BY <1>1 DEF Rejected, Sent, Arrives, Request, NoRequest
<1>2. ASSUME NEW kind \in Sent, NEW s \in Sessions, NEW who \in Users,
             Secures(i, kind, s, who)
      PROVE  NoAuthError' /\ LoggedInWasAuthenticated'
  BY <1>2 DEF Secures, Sent, Arrives, Meets, Companions, NeedsContext, Request, NoRequest
<1>3. ASSUME NEW kind \in Sent, NEW s \in Sessions, NEW who \in Users,
             Calls(i, kind, s, who)
      PROVE  NoAuthError' /\ LoggedInWasAuthenticated'
  BY <1>3 DEF Calls, Sent, Arrives, Meets, Companions, NeedsContext, Request, NoRequest, Called, ReactorAfterCall
<1>4. CASE Authenticates(i) /\ UNCHANGED together
  BY <1>4 DEF Authenticates, Returns
<1>5. CASE Works(i) /\ UNCHANGED together
  BY <1>5 DEF Works
<1>6. CASE Raises(i) /\ UNCHANGED together
  BY <1>6 DEF Raises, Returns
<1>7. CASE ReadsConf(i) /\ UNCHANGED together
  BY <1>7 DEF ReadsConf
<1>8. CASE CannotReadConf(i) /\ UNCHANGED together
  BY <1>8 DEF CannotReadConf, Returns
<1>9. CASE Expires(i) /\ UNCHANGED together
  BY <1>9 DEF Expires, Expirable
<1>10. CASE CannotExpire(i) /\ UNCHANGED together
  BY <1>10 DEF CannotExpire, Returns, Expirable
<1>11. CASE LoopEnds(i) /\ UNCHANGED together
  BY <1>11 DEF LoopEnds
<1>12. CASE Resets(i) /\ UNCHANGED together
  BY <1>12 DEF Resets, Returns
<1>13. CASE Secured(i) /\ UNCHANGED together
  BY <1>13 DEF Secured, Called, Attaches, ReactorAfterCall
<1>14. CASE NotSecured(i) /\ UNCHANGED together
  BY <1>14 DEF NotSecured, CannotAttach, Answer
<1>15. CASE RendersLogin(i) /\ UNCHANGED together
  BY <1>15 DEF RendersLogin, Renders, LogsIn
<1>16. CASE LosesLogin(i) /\ UNCHANGED together
  BY <1>16 DEF LosesLogin, Renders, LogsIn
<1>17. CASE Attached(i) /\ UNCHANGED together
  BY <1>17 DEF Attached, Attaches, Answer
<1>18. CASE NotAttached(i) /\ UNCHANGED together
  BY <1>18 DEF NotAttached, CannotAttach, Answer
<1>19. CASE RendersResult(i) /\ UNCHANGED together
  BY <1>19 DEF RendersResult, Renders, LogsIn, Answer, session
<1>20. CASE LosesThread(i) /\ UNCHANGED together
  BY <1>20 DEF LosesThread
<1>21. QED
  BY <1>1, <1>2, <1>3, <1>4, <1>5, <1>6, <1>7, <1>8, <1>9, <1>10, <1>11,
     <1>12, <1>13, <1>14, <1>15, <1>16, <1>17, <1>18, <1>19, <1>20
     DEF Sends, WorkerStep, ReactorStep

(* A loop takes the sessions that are tracked, all of them alive, and      *)
(* expires them; what is served meanwhile is nothing else.                 *)
LEMMA ReloadKept ==
    ASSUME TypeOK, ~Multithreading, Phases, HasReactor, LoopFinds,
           TracksLoggedIn, LoopExpires, TrackedAreLive, ServedAreLive,
           ReloadExpiresLoggedIn,
           NEW i \in Requests, Sends(i) \/ WorkerStep(i) \/ ReactorStep(i)
    PROVE  LoopExpires' /\ TrackedAreLive' /\ ServedAreLive'
           /\ ReloadExpiresLoggedIn'
<1> USE DEF Phases, HasReactor, LoopFinds, TracksLoggedIn, LoopExpires,
            TrackedAreLive, ServedAreLive, ReloadExpiresLoggedIn, Expiring,
            InProgress, LoggedInSessions, Attaching, TypeOK, RequestRecords,
            Sess, At, Moved, Ended, ScanRecords, Runs, Free, Requests
<1>1. ASSUME NEW kind \in Kinds, NEW s \in Sessions, NEW who \in Users,
             Rejected(i, kind, s, who)
      PROVE  LoopExpires' /\ TrackedAreLive' /\ ServedAreLive'
           /\ ReloadExpiresLoggedIn'
  BY <1>1 DEF Rejected, Arrives, Request, NoRequest
<1>2. ASSUME NEW kind \in Kinds, NEW s \in Sessions, NEW who \in Users,
             Secures(i, kind, s, who)
      PROVE  LoopExpires' /\ TrackedAreLive' /\ ServedAreLive'
           /\ ReloadExpiresLoggedIn'
  BY <1>2 DEF Secures, Arrives, Meets, Companions, NeedsContext, Request, NoRequest
<1>3. ASSUME NEW kind \in Kinds, NEW s \in Sessions, NEW who \in Users,
             Calls(i, kind, s, who)
      PROVE  LoopExpires' /\ TrackedAreLive' /\ ServedAreLive'
           /\ ReloadExpiresLoggedIn'
  BY <1>3 DEF Calls, Arrives, Meets, Companions, NeedsContext, Request, NoRequest, Called, ReactorAfterCall
<1>4. CASE Authenticates(i) /\ UNCHANGED together
  BY <1>4 DEF Authenticates, Returns
<1>5. CASE Works(i) /\ UNCHANGED together
  BY <1>5 DEF Works
<1>6. CASE Raises(i) /\ UNCHANGED together
  BY <1>6 DEF Raises, Returns
<1>7. CASE ReadsConf(i) /\ UNCHANGED together
  BY <1>7 DEF ReadsConf
<1>8. CASE CannotReadConf(i) /\ UNCHANGED together
  BY <1>8 DEF CannotReadConf, Returns
<1>9. CASE Expires(i) /\ UNCHANGED together
  BY <1>9 DEF Expires, Expirable, Visited
<1>10. CASE CannotExpire(i) /\ UNCHANGED together
  BY <1>10 DEF CannotExpire, Returns, Expirable
<1>11. CASE LoopEnds(i) /\ UNCHANGED together
  BY <1>11 DEF LoopEnds
<1>12. CASE Resets(i) /\ UNCHANGED together
  BY <1>12 DEF Resets, Returns
<1>13. CASE Secured(i) /\ UNCHANGED together
  BY <1>13 DEF Secured, Called, Attaches, ReactorAfterCall, Tracks
<1>14. CASE NotSecured(i) /\ UNCHANGED together
  BY <1>14 DEF NotSecured, CannotAttach, Answer
<1>15. CASE RendersLogin(i) /\ UNCHANGED together
  BY <1>15 DEF RendersLogin, Renders, LogsIn
<1>16. CASE LosesLogin(i) /\ UNCHANGED together
  BY <1>16 DEF LosesLogin, Renders, LogsIn
<1>17. CASE Attached(i) /\ UNCHANGED together
  BY <1>17 DEF Attached, Attaches, Answer, Tracks
<1>18. CASE NotAttached(i) /\ UNCHANGED together
  BY <1>18 DEF NotAttached, CannotAttach, Answer
<1>19. CASE RendersResult(i) /\ UNCHANGED together
  BY <1>19 DEF RendersResult, Renders, LogsIn, Answer, session
<1>20. CASE LosesThread(i) /\ UNCHANGED together
  BY <1>20 DEF LosesThread
<1>21. QED
  BY <1>1, <1>2, <1>3, <1>4, <1>5, <1>6, <1>7, <1>8, <1>9, <1>10, <1>11,
     <1>12, <1>13, <1>14, <1>15, <1>16, <1>17, <1>18, <1>19, <1>20
     DEF Sends, Sent, WorkerStep, ReactorStep

-----------------------------------------------------------------------------
LEMMA InitPhases ==
    ASSUME Init
    PROVE  /\ Phases /\ EmptyWhenNew /\ NoAuthError /\ LoggedInWasAuthenticated
           /\ HolderInv /\ SerialInv /\ ReloadInv
<1>1. PICK s \in Sessions : req = [i \in Requests |-> NoRequest(s)]
  BY DEF Init
<1>2. \A i \in Requests : /\ req[i].stage = "off" /\ req[i].kind = "open"
                          /\ req[i].result = "none"
  BY <1>1 DEF NoRequest
<1>3. Phases /\ EmptyWhenNew /\ NoAuthError /\ LoggedInWasAuthenticated
  BY <1>2 DEF Init, Phases, EmptyWhenNew, NoAuthError, LoggedInWasAuthenticated
<1>4. HolderInv /\ SerialInv
  <2>1. HolderInv
    BY <1>2 DEF HolderInv, Met, CallerIsHolder, AuditNamesCaller, At, InProgress
  <2>2. SerialInv
    <3>1. HasReactor /\ LoopFinds /\ BareIsTracked
      BY <1>2 DEF InProgress, At, HasReactor, LoopFinds, BareIsTracked
    <3>2. TracksLoggedIn
      BY DEF Init, TracksLoggedIn, LoggedInSessions
    <3>3. QED
      BY <3>1, <3>2 DEF SerialInv
  <2>3. QED
    BY <2>1, <2>2
<1>5. ReloadInv
  BY <1>2 DEF Init, ReloadInv, LoopExpires, TrackedAreLive, ServedAreLive, At,
              ReloadExpiresLoggedIn
<1>6. QED
  BY <1>3, <1>4, <1>5

LEMMA NextPhases ==
    IInv /\ Phases /\ EmptyWhenNew /\ [Next]_vars => Phases' /\ EmptyWhenNew'
<1> SUFFICES ASSUME IInv, Phases, EmptyWhenNew, [Next]_vars
             PROVE  Phases' /\ EmptyWhenNew'
  OBVIOUS
<1>1. ASSUME NEW i \in Requests, Sends(i) \/ WorkerStep(i) \/ ReactorStep(i)
      PROVE  Phases' /\ EmptyWhenNew'
  BY <1>1, PhasesKept DEF IInv
<1>2. ASSUME NEW s \in Sessions, TimesOut(s)
      PROVE  Phases' /\ EmptyWhenNew'
  BY <1>2 DEF TimesOut, Phases, EmptyWhenNew, Sess, IInv, TypeOK
<1>3. CASE UNCHANGED vars
  BY <1>3 DEF vars, session, Phases, EmptyWhenNew, Sess
<1>4. QED
  BY <1>1, <1>2, <1>3 DEF Next

LEMMA NextHolder ==
    ASSUME Multithreading
    PROVE  IInv /\ Phases /\ HolderInv /\ [Next]_vars => HolderInv'
<1> SUFFICES ASSUME IInv, Phases, HolderInv, [Next]_vars
             PROVE  HolderInv'
  OBVIOUS
<1>1. ASSUME NEW i \in Requests, Sends(i) \/ WorkerStep(i) \/ ReactorStep(i)
      PROVE  HolderInv'
  BY <1>1, HolderKept DEF IInv, HolderInv
<1>2. CASE UNCHANGED vars \/ \E s \in Sessions : TimesOut(s)
  BY <1>2 DEF vars, session, TimesOut, HolderInv, Met, CallerIsHolder, InProgress, At,
              Sess, AuditNamesCaller
<1>3. QED
  BY <1>1, <1>2 DEF Next

LEMMA NextSerial ==
    ASSUME ~Multithreading
    PROVE  IInv /\ Phases /\ EmptyWhenNew /\ SerialInv /\ [Next]_vars => SerialInv'
<1> SUFFICES ASSUME IInv, Phases, EmptyWhenNew, SerialInv, [Next]_vars
             PROVE  SerialInv'
  OBVIOUS
<1>1. ASSUME NEW i \in Requests, Sends(i) \/ WorkerStep(i) \/ ReactorStep(i)
      PROVE  SerialInv'
  BY <1>1, LoopKept DEF IInv, SerialInv
<1>2. ASSUME NEW s \in Sessions, TimesOut(s)
      PROVE  SerialInv'
  BY <1>2 DEF TimesOut, SerialInv, HasReactor, LoopFinds, BareIsTracked, TracksLoggedIn,
              InProgress, At, Sess, LoggedInSessions, Attaching, IInv, TypeOK, Requests,
              Free
<1>3. CASE UNCHANGED vars
  BY <1>3 DEF vars, session, SerialInv, HasReactor, InProgress, BareIsTracked, At, Sess,
              LoopFinds, TracksLoggedIn, LoggedInSessions, Attaching
<1>4. QED
  BY <1>1, <1>2, <1>3 DEF Next

LEMMA NextReload ==
    ASSUME ~Multithreading, ~Timeouts
    PROVE  IInv /\ Phases /\ SerialInv /\ ReloadInv /\ [Next]_vars => ReloadInv'
<1> SUFFICES ASSUME IInv, Phases, SerialInv, ReloadInv, [Next]_vars
             PROVE  ReloadInv'
  OBVIOUS
<1>1. ASSUME NEW i \in Requests, Sends(i) \/ WorkerStep(i) \/ ReactorStep(i)
      PROVE  ReloadInv'
  BY <1>1, ReloadKept DEF IInv, SerialInv, ReloadInv
<1>2. ~\E s \in Sessions : TimesOut(s)
  BY DEF TimesOut
<1>3. CASE UNCHANGED vars
  BY <1>3 DEF vars, session, ReloadInv, LoopExpires, TrackedAreLive, ServedAreLive,
              ReloadExpiresLoggedIn, Expiring, At, Sess
<1>4. QED
  BY <1>1, <1>2, <1>3 DEF Next

LEMMA NextAuthenticated ==
    ASSUME "auth" \notin Faults, "bare" \notin Faults
    PROVE  IInv /\ Phases /\ NoAuthError /\ LoggedInWasAuthenticated /\ [Next]_vars
           => NoAuthError' /\ LoggedInWasAuthenticated'
<1> SUFFICES ASSUME IInv, Phases, NoAuthError, LoggedInWasAuthenticated, [Next]_vars
             PROVE  NoAuthError' /\ LoggedInWasAuthenticated'
  OBVIOUS
<1>1. ASSUME NEW i \in Requests, Sends(i) \/ WorkerStep(i) \/ ReactorStep(i)
      PROVE  NoAuthError' /\ LoggedInWasAuthenticated'
  BY <1>1, AuthenticatedKept DEF IInv
<1>2. CASE UNCHANGED vars \/ \E s \in Sessions : TimesOut(s)
  BY <1>2 DEF vars, session, TimesOut, NoAuthError, LoggedInWasAuthenticated, Sess
<1>3. QED
  BY <1>1, <1>2 DEF Next

LEMMA PhasesInvariance == Spec => [](IInv /\ Phases /\ EmptyWhenNew)
<1>1. Init => Phases /\ EmptyWhenNew
  BY InitPhases
<1>2. QED
  BY <1>1, Invariance, NextPhases, PTL DEF Spec
-----------------------------------------------------------------------------
(* Nobody is logged in but by an authentication function that returned     *)
(* true for that user, with or without threads and timeouts, whatever else *)
(* fails, as long as no authentication function raises and none is called  *)
(* without arguments (agent.py:276).                                       *)
THEOREM OnlyAuthenticated ==
    ASSUME "auth" \notin Faults, "bare" \notin Faults
    PROVE  Spec => []LoggedInWasAuthenticated
<1>1. Init => NoAuthError /\ LoggedInWasAuthenticated
  BY InitPhases
<1>2. QED
  BY <1>1, PhasesInvariance, NextAuthenticated, PTL DEF Spec

LEMMA SerialInvariance == ASSUME ~Multithreading  PROVE  Spec => []SerialInv
<1>1. Init => SerialInv
  BY InitPhases
<1>2. QED
  BY <1>1, PhasesInvariance, NextSerial, PTL DEF Spec

LEMMA HolderInvariance == ASSUME Multithreading  PROVE  Spec => []HolderInv
<1>1. Init => HolderInv
  BY InitPhases
<1>2. QED
  BY <1>1, PhasesInvariance, NextHolder, PTL DEF Spec

(* With threads, what a call records in the audit is recorded for the user *)
(* it was made for, if no other request of its session was in progress     *)
(* meanwhile: faults, timeouts, reloads and the requests of other sessions *)
(* do not matter (core/audit/writers.py:229, 255; agent.py:248).           *)
THEOREM AuditIsTrue == ASSUME Multithreading  PROVE  Spec => []AuditNamesCaller
<1>1. HolderInv => AuditNamesCaller
  BY DEF HolderInv
<1>2. QED
  BY <1>1, HolderInvariance, PTL

(* Without threads, the set of sessions of the server has everyone who is  *)
(* logged in: no reload, not even one that fails in the middle, loses a    *)
(* session (agent.py:81, 350, 375-377).                                    *)
THEOREM NobodyIsLost == ASSUME ~Multithreading  PROVE  Spec => []TracksLoggedIn
<1>1. SerialInv => TracksLoggedIn
  BY DEF SerialInv
<1>2. QED
  BY <1>1, SerialInvariance, PTL

(* Without threads, and as long as no session times out, a reload expires  *)
(* all logged sessions (agent.py:374-377).                                 *)
THEOREM ReloadIsComplete ==
    ASSUME ~Multithreading, ~Timeouts  PROVE  Spec => []ReloadExpiresLoggedIn
<1>1. Init => ReloadInv
  BY InitPhases
<1>2. ReloadInv => ReloadExpiresLoggedIn
  BY DEF ReloadInv
<1>3. QED
  BY <1>1, <1>2, PhasesInvariance, SerialInvariance, NextReload, PTL DEF Spec
=============================================================================
