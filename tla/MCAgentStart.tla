---------------------------- MODULE MCAgentStart ----------------------------
(***************************************************************************)
(* Model checking of what an agent goes through from its start to a login: *)
(* AgentDaemon, with commands given one after the other, SchemaUpgrade,    *)
(* which a plugin goes through while it is loaded, and AuthProvisioning.   *)
(* Three attempts: a daemon, the one that comes after or beside it, and a  *)
(* start that follows an attempt that failed beside a daemon.  Three       *)
(* scripts: the one that makes the version table, the last one, which      *)
(* cannot be executed twice, and one between them; three starts leave      *)
(* commands behind beside that of a third.  Two authenticators, so that    *)
(* one follows the one that decides, and three provisioners, so that one   *)
(* runs between an asynchronous one and the last, among names of which one *)
(* is unknown; two logins, the second of which finds what the first one    *)
(* left.  The daemon knows only whether loading succeeds, so the three are *)
(* searched one beside the other.                                          *)
(***************************************************************************)
EXTENDS AgentDaemon, SchemaUpgrade, AuthProvisioning

VARIABLE part

Survivable == {"fork", "code", "audit", "reuse"}   \* reported, or harmless
ScriptOnly == {"start", "stop", "force-stop"}

ThreeScripts == << <<"again", "table", "number">>, <<"again", "number">>,
                   <<"again", "once", "number">> >>

Chosen == <<"baseldap", "kerberos", "externalldap">>
Chain == <<"inventory", "externalldap provisioner", "groups">>
Documented == {"externalldap"}     \* the authenticators with an exclude option
Everybody == [skipping |-> {}, excluding |-> {}, deferring |-> {}]

MCInit ==
    /\ part \in {"daemon", "schema", "logins"}
    /\ Init /\ UpgradeInit /\ ChainsInit
    /\ part # "schema" => ~exists /\ ~warns
    /\ part # "logins" => conf = Everybody
    /\ conf.excluding \cap Authenticators \subseteq Documented

MCNext ==
    /\ \/ part = "daemon" /\ Next /\ UNCHANGED <<upgradeVars, chainVars>>
       \/ part = "schema" /\ UpgradeNext /\ UNCHANGED <<vars, chainVars>>
       \/ part = "logins" /\ ChainsNext /\ UNCHANGED <<vars, upgradeVars>>
    /\ UNCHANGED part

MCSpec ==
    /\ MCInit /\ [][MCNext]_<<vars, upgradeVars, chainVars, part>>
    /\ Fairness /\ WF_chainVars(Authenticate \/ DoProvisioning)
=============================================================================
