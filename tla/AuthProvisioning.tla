-------------------------- MODULE AuthProvisioning --------------------------
(***************************************************************************)
(* The chains of authenticators and provisioners that a login goes through *)
(* (agent/mmc/plugins/base/auth.py, provisioning.py, and activate_2() and  *)
(* RpcProxy.authenticate() of plugins/base/__init__.py).                   *)
(*                                                                         *)
(* At start the plugin selects the components that are configured, in the  *)
(* order of the configuration, and keeps those that validate.  A login     *)
(* asks the authenticators until one accepts, then runs the provisioners.  *)
(* A provisioner may answer with a Deferred that fires later: then the     *)
(* callbacks that are queued for the following ones wait.                  *)
(***************************************************************************)
EXTENDS Naturals, Sequences, SequencesExt

CONSTANTS
    Authenticators, Provisioners,  \* those that are registered
    AuthMethod, ProvMethod,        \* the names that are configured, in order
    Mandatory,                     \* those that are configured as mandatory
    MaxLogins                      \* number of logins               (bound)

ASSUME ChainsAssumption ==
    /\ Authenticators \cap Provisioners = {}
    /\ AuthMethod \in Seq(STRING) /\ ProvMethod \in Seq(STRING)
    /\ Mandatory \subseteq Authenticators \cup Provisioners
    /\ MaxLogins \in Nat

VARIABLES
    conf,    \* the rest of the configuration: whom each one serves
    start,   \* activate_2
    auths,   \* AuthenticationManager().components
    provs,   \* ProvisioningManager().components
    login,   \* the login in progress
    logins   \* number of logins

chainVars == <<conf, start, auths, provs, login, logins>>

\* The members of a sequence that are in a set, in their order.
Selected(names, kept) ==
    LET upTo[i \in 0..Len(names)] ==
            IF i = 0 THEN <<>>
            ELSE IF names[i] \in kept THEN Append(upTo[i - 1], names[i])
            ELSE upTo[i - 1]
    IN  upTo[Len(names)]

\* select(): unknown names are ignored.
ChosenAuths == Selected(AuthMethod, Authenticators)
ChosenProvs == Selected(ProvMethod, Provisioners)

\* skipping: the authenticators whose authonly list lacks the user;
\* excluding: those whose exclude list has it;
\* deferring: the provisioners that answer with a Deferred.
Configurations ==
    [skipping : SUBSET Authenticators,
     excluding : SUBSET (Authenticators \cup Provisioners),
     deferring : SUBSET Provisioners]

Verdicts == {"accepts", "rejects", "raises"}
Asked == [by : Authenticators, verdict : Verdicts]

\* asked and ran: who was asked, who ran; d: the chain of callbacks of
\* doProvisioning; instance: its variable of that name, queued: the callbacks
\* that will use it.
NoLogin == [pc |-> "none", i |-> 1, asked |-> <<>>, ran |-> <<>>, d |-> "none",
            instance |-> "none", queued |-> 0, result |-> "none"]

StartStates == [phase : {"auth", "prov", "serving", "failed"},
           left : Seq(Authenticators \cup Provisioners), valid : BOOLEAN]

LoginStates ==
    [pc : {"none", "asking", "provisioning", "waiting", "done"}, i : Nat \ {0},
     asked : Seq(Asked), ran : Seq(Provisioners),
     d : {"none", "fired", "pending", "failed"},
     instance : Provisioners \cup {"none"}, queued : Nat,
     result : {"none", "true", "false", "error"}]

ChainsTypeOK ==
    /\ conf \in Configurations
    /\ start \in StartStates
    /\ auths \in Seq(Authenticators) /\ provs \in Seq(Provisioners)
    /\ login \in LoginStates
    /\ logins \in 0..MaxLogins

ChainsInit ==
    /\ conf \in Configurations
    /\ start = [phase |-> "auth", left |-> ChosenAuths, valid |-> TRUE]
    /\ auths = <<>> /\ provs = <<>>
    /\ login = NoLogin
    /\ logins = 0
-----------------------------------------------------------------------------
\* How the validation of a component ends: its constructor raises, validate()
\* raises, answers false or true.
Validations == {"unmade", "raises", "invalid", "valid"}

\* An authenticator that could not be made counts as mandatory, and so does a
\* provisioner whose validate() raises, which reads the option after it.
IsFatal(c, v) ==
    \/ v = "unmade"
    \/ v = "raises" /\ c \in Provisioners
    \/ v \in {"raises", "invalid"} /\ c \in Mandatory

Validates_LastDecides(v) ==
    /\ start.left # <<>>
    /\ LET c == Head(start.left) IN
          /\ start' = [start EXCEPT !.left = Tail(@), !.valid = ~IsFatal(c, v)]
          /\ auths' = IF c \in Authenticators /\ v = "valid" THEN Append(auths, c) ELSE auths
          /\ provs' = IF c \in Provisioners /\ v = "valid" THEN Append(provs, c) ELSE provs
    /\ UNCHANGED <<conf, login, logins>>

Validates(v) ==
    /\ start.left # <<>>
    /\ LET c == Head(start.left) IN
          /\ start' = [start EXCEPT !.left = Tail(@), !.valid = @ /\ ~IsFatal(c, v)]
          /\ auths' = IF c \in Authenticators /\ v = "valid" THEN Append(auths, c) ELSE auths
          /\ provs' = IF c \in Provisioners /\ v = "valid" THEN Append(provs, c) ELSE provs
    /\ UNCHANGED <<conf, login, logins>>

\* activate_2: one manager after the other, as long as they validate.
NextManager ==
    /\ start.left = <<>> /\ start.phase \in {"auth", "prov"}
    /\ start' = CASE ~start.valid -> [start EXCEPT !.phase = "failed"]
                  [] start.valid /\ start.phase = "auth" ->
                        [start EXCEPT !.phase = "prov",
                                      !.left = ChosenProvs]
                  [] OTHER -> [start EXCEPT !.phase = "serving"]
    /\ UNCHANGED <<conf, auths, provs, login, logins>>
-----------------------------------------------------------------------------
Becomes(l) == login' = l /\ UNCHANGED <<conf, start, auths, provs, logins>>
Answers(result) == [login EXCEPT !.pc = "done", !.result = result]

Begin ==
    /\ start.phase = "serving" /\ login.pc \in {"none", "done"} /\ logins < MaxLogins
    /\ login' = [NoLogin EXCEPT !.pc = "asking"]
    /\ logins' = logins + 1
    /\ UNCHANGED <<conf, start, auths, provs>>

AsksNext == login.pc = "asking" /\ login.i <= Len(auths)
Serves(a) == a \notin conf.skipping

Skips_Staying ==
    /\ AsksNext /\ ~Serves(auths[login.i])
    /\ Becomes(login)

\* authonly.  The exclude list of an authenticator skips nobody: that the user is
\* in it is only logged.
Skips ==
    /\ AsksNext /\ ~Serves(auths[login.i])
    /\ Becomes([login EXCEPT !.i = @ + 1])

Asks_GoingOn(verdict) ==
    LET asked == [login EXCEPT
                     !.asked = Append(@, [by |-> auths[login.i], verdict |-> verdict])]
    IN  /\ AsksNext /\ Serves(auths[login.i])
        /\ Becomes(IF login.i = Len(auths) /\ verdict = "accepts"
                   THEN [asked EXCEPT !.pc = "provisioning", !.i = 1]
                   ELSE [asked EXCEPT !.i = @ + 1])

Asks(verdict) ==
    LET asked == [login EXCEPT
                     !.asked = Append(@, [by |-> auths[login.i], verdict |-> verdict])]
    IN  /\ AsksNext /\ Serves(auths[login.i])
        /\ Becomes(CASE verdict = "accepts" -> [asked EXCEPT !.pc = "provisioning", !.i = 1]
                     [] verdict = "rejects" -> [asked EXCEPT !.i = @ + 1]
                     [] OTHER -> [asked EXCEPT !.pc = "done", !.result = "error"])

\* No authenticator is left: the token is that of the last one that was asked.
NobodyAccepts ==
    /\ login.pc = "asking" /\ login.i > Len(auths)
    /\ Becomes(Answers("false"))
-----------------------------------------------------------------------------
\* doProvisioning goes through its list without a pause.
ProvisionsNext == login.pc = "provisioning" /\ login.i <= Len(provs)

\* How a provisioner ends: it is done, it raises, or its Deferred is pending.
Endings(p) == {"fired", "failed"} \cup (IF p \in conf.deferring THEN {"pending"} ELSE {})

\* The constructor of a provisioner raises.
CannotProvision == ProvisionsNext /\ Becomes(Answers("error"))

\* The loop variable is set before the exclude list is read.
Excludes ==
    /\ ProvisionsNext /\ provs[login.i] \in conf.excluding
    /\ Becomes([login EXCEPT !.instance = provs[login.i], !.i = @ + 1])

Provisions_Everybody(ending) ==
    LET p == provs[login.i] IN
    /\ ProvisionsNext /\ ending \in Endings(p) /\ login.d \in {"none", "fired"}
    /\ Becomes([login EXCEPT !.instance = p, !.i = @ + 1,
                             !.ran = Append(@, p), !.d = ending])

\* maybeDeferred, or addCallback to a chain that has fired.
Provisions(ending) ==
    LET p == provs[login.i] IN
    /\ ProvisionsNext /\ p \notin conf.excluding
    /\ ending \in Endings(p) /\ login.d \in {"none", "fired"}
    /\ Becomes([login EXCEPT !.instance = p, !.i = @ + 1,
                             !.ran = Append(@, p), !.d = ending])

\* addCallback to a chain that waits, or that has failed and skips it.
Queues ==
    LET p == provs[login.i] IN
    /\ ProvisionsNext /\ p \notin conf.excluding /\ login.d \in {"pending", "failed"}
    /\ Becomes([login EXCEPT !.instance = p, !.i = @ + 1,
                             !.queued = IF login.d = "pending" THEN @ + 1 ELSE @])

Waits ==
    /\ login.pc = "provisioning" /\ login.i > Len(provs) /\ login.d = "pending"
    /\ Becomes([login EXCEPT !.pc = "waiting"])

\* The Deferred of a provisioner fires.
Fires ==
    /\ login.pc = "waiting" /\ login.d = "pending"
    /\ \E d \in {"fired", "failed"} : Becomes([login EXCEPT !.d = d])

\* A queued callback runs the provisioner that instance names by now.
RunsQueued(ending) ==
    LET p == login.instance IN
    /\ login.pc = "waiting" /\ login.d = "fired" /\ login.queued > 0
    /\ ending \in Endings(p)
    /\ Becomes([login EXCEPT !.queued = @ - 1, !.ran = Append(@, p), !.d = ending])

\* ProvisioningError, or the answer, unless its audit fails (_cbAuthenticate).
Finishes ==
    /\ \/ login.pc = "provisioning" /\ login.i > Len(provs)
       \/ login.pc = "waiting" /\ (login.queued = 0 \/ login.d = "failed")
    /\ \/ login.d \in {"none", "fired"} /\ Becomes(Answers("true"))
       \/ login.d # "pending" /\ Becomes(Answers("error"))
-----------------------------------------------------------------------------
Start == NextManager \/ \E v \in Validations : Validates(v)
Authenticate == Skips \/ NobodyAccepts \/ \E verdict \in Verdicts : Asks(verdict)
DoProvisioning ==
    \/ CannotProvision \/ Excludes \/ Queues \/ Waits \/ Fires \/ Finishes
    \/ \E d \in {"fired", "failed", "pending"} : Provisions(d) \/ RunsQueued(d)

ChainsNext == Start \/ Begin \/ Authenticate \/ DoProvisioning

ChainsSpec == ChainsInit /\ [][ChainsNext]_chainVars

\* A login goes on by itself; the Deferred of a provisioner fires some day.
ChainsFairSpec == ChainsSpec /\ WF_chainVars(Authenticate \/ DoProvisioning)
-----------------------------------------------------------------------------
\* The authenticators that serve the user, the provisioners that do not exclude
\* the user, and what makes the order of the latter certain.
Serving == Authenticators \ conf.skipping
Including == Provisioners \ conf.excluding
OnlyTheLastDefers == \A i \in DOMAIN provs : provs[i] \in conf.deferring => i = Len(provs)

(* The agent serves only if every mandatory component it was told to use   *)
(* validated (auth.py:51-74, provisioning.py:61-84, activate_2): none is   *)
(* silently missing from the chains.                                       *)
ServesWithMandatory ==
    start.phase = "serving"
    => Mandatory \cap (ToSet(ChosenAuths) \cup ToSet(ChosenProvs))
       \subseteq ToSet(auths) \cup ToSet(provs)

(* "Loops on the authenticator chains until one successfully authenticates *)
(* the user" (auth.py:86-88): those who serve the user are asked in order, *)
(* the first who accepts ends it and only that one logs the user in, one   *)
(* who raises ends it too, and the answer is no when everybody said no.    *)
(* Who serves the user is decided by the authonly lists alone: those whose *)
(* exclude list has the user are asked like the others.                    *)
ChainDecides ==
    LET asked == login.asked
        chain == Selected(auths, Serving)
        last  == Last(asked).verdict
    IN  /\ Len(asked) <= Len(chain)
        /\ \A k \in DOMAIN asked : asked[k].by = chain[k]
        /\ \A k \in DOMAIN asked : k < Len(asked) => asked[k].verdict = "rejects"
        /\ login.pc \in {"provisioning", "waiting"} \/ login.result = "true"
           => asked # <<>> /\ last = "accepts"
        /\ login.result = "false" => /\ Len(asked) = Len(chain)
                                     /\ asked # <<>> => last = "rejects"

(* "Login list that won't be authenticated with this authenticator"        *)
(* (conf/plugins/base.ini.in:113), "so we skip it" (auth.py:104).          *)
ExcludedAreNotAsked ==
    \A k \in DOMAIN login.asked : login.asked[k].by \notin conf.excluding

(* Who is logged in was provisioned by every provisioner that does not     *)
(* exclude the user, in order, once; but when one before the last answers  *)
(* with a Deferred only their number is right (provisioning.py:99-117).    *)
SuccessIsProvisioned ==
    LET meant == Selected(provs, Including)
    IN  login.result = "true"
        => /\ Len(login.ran) = Len(meant)
           /\ OnlyTheLastDefers => login.ran = meant

(* Every login is answered, whoever skips, raises or defers                *)
(* (plugins/base/__init__.py:2489-2499).                                   *)
LoginIsAnswered == login.pc = "asking" ~> login.pc = "done"
=============================================================================
