--------------------------- MODULE DirectoryUsers ---------------------------
(***************************************************************************)
(* Users and groups in the LDAP directory (agent/mmc/plugins/base/         *)
(* __init__.py, class LdapUserGroupControl).                               *)
(*                                                                         *)
(* The directory applies one operation at a time and knows no transaction: *)
(* a method of the plugin is a sequence of searches and of changes, each a *)
(* step here, and a failure in the middle is left to the method to repair. *)
(* Methods run in the threads of the agent, Workers of them at a time.     *)
(*                                                                         *)
(* New users belong to a group of their own when defaultUserGroup is empty *)
(* (lines 871-874 and 949-950), but then activate() cannot create that     *)
(* group (lines 141-149) and the plugin does not start: a primary group is *)
(* always named, by the caller or by defaultUserGroup.                     *)
(***************************************************************************)
EXTENDS Integers, FiniteSetsExt

CONSTANTS
    Uids,      \* logins                                   (bound)
    Groups,    \* names of groups                          (bound)
    NoDN,      \* '', for the DN of a user who is not there
    Workers,   \* methods that run at the same time        (bound)
    MaxCalls,  \* number of calls                          (bound)
    Faults     \* what may fail: a subset of AllFaults

\* "ldap": the server answers with an error; "policy": it refuses the
\* password; "home": an OSError in the home directory; "copy": shutil.Error,
\* which is no OSError.
AllFaults == {"ldap", "policy", "home", "copy"}

ASSUME DirectoryAssumption ==
    /\ Uids # {} /\ Groups # {} /\ NoDN \notin Uids
    /\ MaxCalls \in Nat
    /\ Faults \subseteq AllFaults

VARIABLES
    bis,     \* the schema of the server is RFC2307bis
    user,    \* the uidNumber and the gidNumber of each user
    strong,  \* the users whose password is set
    group,   \* the gidNumber of each group
    members, \* its memberUid
    unique,  \* its uniqueMember, with RFC2307bis: DNs, '' at first
    proc,    \* the method each worker runs, or its answer
    calls    \* number of calls

directory == <<bis, user, strong, group, members, unique>>
vars == <<directory, proc, calls>>

\* uidNumber and gidNumber are above uidStart and gidStart; 0 is no entry.
\* MaxCalls calls need no more of them.
Numbers == 1..(MaxCalls + 1)
NoNumber == 0
NoUser == [num |-> NoNumber, gid |-> NoNumber]
Ops == {"addUser", "delUser", "addGroup", "delGroup", "addUserToGroup",
        "delUserFromGroup", "delUserFromAllGroups", "changeUserPrimaryGroup"}

IsUser(u) == user[u].num # NoNumber
IsGroup(g) == group[g] # NoNumber

\* searchUserDN
DN(u) == IF IsUser(u) THEN u ELSE NoDN

\* What getUserPrimaryGroup may find.
PrimaryGroups(u) == {g \in Groups : IsUser(u) /\ group[g] = user[u].gid}

Idle == [op |-> "none", pc |-> "idle", uid |-> CHOOSE u \in Uids : TRUE,
         group |-> CHOOSE g \in Groups : TRUE, num |-> NoNumber,
         gid |-> NoNumber, dn |-> NoDN, leaves |-> {}, result |-> "none"]

Methods == [op : Ops \cup {"none"},
            pc : {"idle", "number", "gid", "entry", "password", "joindn", "join",
                  "home", "undo", "maxgid", "addgroup", "check", "delete",
                  "rmhome", "rmentry", "search", "primary", "leavedn", "leave", "setgid"},
            uid : Uids, group : Groups,
            num : Numbers \cup {NoNumber}, gid : Numbers \cup {NoNumber},
            dn : Uids \cup {NoDN}, leaves : SUBSET Groups,
            result : {"none", "ok", "weak", "used", "raised"}]

TypeOK ==
    /\ bis \in BOOLEAN
    /\ user \in [Uids -> [num : Numbers, gid : Numbers] \cup {NoUser}]
    /\ strong \subseteq {u \in Uids : IsUser(u)}
    /\ group \in [Groups -> Numbers \cup {NoNumber}]
    /\ members \in [Groups -> SUBSET Uids]
    /\ unique \in [Groups -> SUBSET (Uids \cup {NoDN})]
    /\ proc \in [Workers -> Methods]
    /\ calls \in 0..MaxCalls

\* The uniqueMember of a group that addGroup makes.
FirstUnique == IF bis THEN {NoDN} ELSE {}

\* activate() has created the default group.
Init ==
    /\ bis \in BOOLEAN
    /\ user = [u \in Uids |-> NoUser]
    /\ strong = {}
    /\ \E default \in Groups :
           /\ group = [g \in Groups |-> IF g = default THEN 1 ELSE NoNumber]
           /\ unique = [g \in Groups |-> IF g = default THEN FirstUnique ELSE {}]
    /\ members = [g \in Groups |-> {}]
    /\ proc = [w \in Workers |-> Idle]
    /\ calls = 0
-----------------------------------------------------------------------------
At(w, pc) == proc[w].pc = pc
Becomes(w, r) == proc' = [proc EXCEPT ![w] = r] /\ UNCHANGED calls
Goes(w, pc) == Becomes(w, [proc[w] EXCEPT !.pc = pc])
Returns(w, result) == Becomes(w, [proc[w] EXCEPT !.pc = "idle", !.result = result])

Called(op, pc, u, g) == [Idle EXCEPT !.op = op, !.pc = pc, !.uid = u, !.group = g]

Begins(w, op, pc, u, g) ==
    /\ At(w, "idle") /\ calls < MaxCalls
    /\ calls' = calls + 1
    /\ proc' = [proc EXCEPT ![w] = Called(op, pc, u, g)]
    /\ UNCHANGED directory

\* A method starts with its first search.
Call(w) ==
    \E u \in Uids, g \in Groups :
        \/ Begins(w, "addUser", "number", u, g)
        \/ Begins(w, "delUser", "rmhome", u, Idle.group)
        \/ Begins(w, "addGroup", "maxgid", Idle.uid, g)
        \/ Begins(w, "delGroup", "check", Idle.uid, g)
        \/ Begins(w, "addUserToGroup", "joindn", u, g)
        \/ Begins(w, "delUserFromGroup", "search", u, g)
        \/ Begins(w, "delUserFromAllGroups", "search", u, Idle.group)
        \/ Begins(w, "changeUserPrimaryGroup", "gid", u, g)
-----------------------------------------------------------------------------
FreeUID_CountingUsers == Quantify(Uids, IsUser) + 1

\* freeUID: the first number no account has.
FreeUIDs == {n \in Numbers : \A u \in Uids : user[u].num # n}
FreeUID == Min(FreeUIDs)

\* maxGID() + 1
NextGID == Max({group[g] : g \in Groups}) + 1

\* getHomeDir refuses a home directory that exists or is not authorized.
ChoosesNumber(w) ==
    /\ At(w, "number") /\ FreeUIDs # {}
    /\ \/ Becomes(w, [proc[w] EXCEPT !.pc = "gid", !.num = FreeUID])
       \/ Returns(w, "raised")
    /\ UNCHANGED directory

\* The gidNumber of the primary group, for addUser and changeUserPrimaryGroup.
ReadsGID(w) ==
    LET g == proc[w].group IN
    /\ At(w, "gid") /\ IsGroup(g)
    /\ Becomes(w, [proc[w] EXCEPT
           !.pc = IF proc[w].op = "addUser" THEN "entry" ELSE "primary",
           !.gid = group[g]])
    /\ UNCHANGED directory

AddsEntry(w) ==
    LET u == proc[w].uid IN
    /\ At(w, "entry") /\ ~IsUser(u)
    /\ user' = [user EXCEPT ![u] = [num |-> proc[w].num, gid |-> proc[w].gid]]
    /\ Goes(w, "password")
    /\ UNCHANGED <<bis, strong, group, members, unique>>

\* A password that is refused does not stop the creation of the user.
SetsPassword(w) ==
    LET u == proc[w].uid IN
    /\ At(w, "password") /\ IsUser(u)
    /\ \/ /\ strong' = strong \cup {u}
          /\ Becomes(w, [proc[w] EXCEPT !.pc = "joindn", !.result = "ok"])
       \/ /\ "policy" \in Faults /\ UNCHANGED strong
          /\ Becomes(w, [proc[w] EXCEPT !.pc = "joindn", !.result = "weak"])
    /\ UNCHANGED <<bis, user, group, members, unique>>

\* addUserToGroup and delUserFromGroup begin with the DN of the user.
FindsDN(w, from, to) ==
    /\ At(w, from)
    /\ Becomes(w, [proc[w] EXCEPT !.pc = to, !.dn = DN(proc[w].uid)])
    /\ UNCHANGED directory

\* What follows addUserToGroup in the method that calls it.
Joined(w) ==
    CASE proc[w].op = "addUser" -> Goes(w, "home")
      [] proc[w].op = "changeUserPrimaryGroup" -> Goes(w, "setgid")
      [] OTHER -> Returns(w, "ok")

Joins_NotAsPrimary(w) ==
    /\ At(w, "join") /\ IsGroup(proc[w].group)
    /\ members' = IF proc[w].op = "addUser" THEN members
                  ELSE [members EXCEPT ![proc[w].group] = @ \cup {proc[w].uid}]
    /\ Joined(w)
    /\ UNCHANGED <<bis, user, strong, group, unique>>

\* TYPE_OR_VALUE_EXISTS, of either attribute.
Already(p, g) == p.uid \in members[g] \/ (bis /\ p.dn \in unique[g])

\* addUserToGroup does not ask whether there is such a user.  The directory adds
\* to both attributes or to none, and the method is content with either.
Joins(w) ==
    LET p == proc[w]
        g == p.group
    IN  /\ At(w, "join") /\ IsGroup(g)
        /\ \/ Already(p, g) /\ UNCHANGED <<members, unique>>
           \/ /\ ~Already(p, g)
              /\ members' = [members EXCEPT ![g] = @ \cup {p.uid}]
              /\ unique' = [unique EXCEPT ![g] = IF bis THEN @ \cup {p.dn} ELSE @]
        /\ Joined(w)
        /\ UNCHANGED <<bis, user, strong, group>>

\* The home directory: an OSError undoes the entry of the user.
MakesHome(w) ==
    /\ At(w, "home")
    /\ \/ Returns(w, proc[w].result)
       \/ "home" \in Faults /\ Goes(w, "undo")
       \/ "copy" \in Faults /\ Returns(w, "raised")
    /\ UNCHANGED directory
-----------------------------------------------------------------------------
\* delUser: the home directory first, when it is to be removed.
RemovesHome(w) ==
    /\ At(w, "rmhome")
    /\ \/ Goes(w, "rmentry")
       \/ ~IsUser(proc[w].uid) /\ Returns(w, "raised")
       \/ "home" \in Faults /\ Returns(w, "raised")
    /\ UNCHANGED directory

\* delRecursiveEntry, which hides its errors; addUser raises its OSError after.
RemovesEntry(w) ==
    LET u == proc[w].uid IN
    /\ At(w, "rmentry") \/ At(w, "undo")
    /\ user' = [user EXCEPT ![u] = NoUser]
    /\ strong' = strong \ {u}
    /\ Returns(w, IF At(w, "undo") THEN "raised" ELSE "ok")
    /\ UNCHANGED <<bis, group, members, unique>>
-----------------------------------------------------------------------------
ReadsMaxGID(w) ==
    /\ At(w, "maxgid") /\ NextGID \in Numbers
    /\ Becomes(w, [proc[w] EXCEPT !.pc = "addgroup", !.gid = NextGID])
    /\ UNCHANGED directory

AddsGroup(w) ==
    LET g == proc[w].group IN
    /\ At(w, "addgroup") /\ ~IsGroup(g)
    /\ group' = [group EXCEPT ![g] = proc[w].gid]
    /\ unique' = [unique EXCEPT ![g] = FirstUnique]
    /\ Returns(w, "ok")
    /\ UNCHANGED <<bis, user, strong, members>>

ChecksGroup_MembersOnly(w) ==
    /\ At(w, "check") /\ IsGroup(proc[w].group)
    /\ IF members[proc[w].group] # {} THEN Returns(w, "used") ELSE Goes(w, "delete")
    /\ UNCHANGED directory

\* delGroup: is it the primary group of somebody?
ChecksGroup(w) ==
    LET g == proc[w].group IN
    /\ At(w, "check") /\ IsGroup(g)
    /\ IF \E u \in Uids : user[u].gid = group[g] THEN Returns(w, "used")
       ELSE Goes(w, "delete")
    /\ UNCHANGED directory

DeletesGroup(w) ==
    LET g == proc[w].group IN
    /\ At(w, "delete") /\ IsGroup(g)
    /\ group' = [group EXCEPT ![g] = NoNumber]
    /\ members' = [members EXCEPT ![g] = {}]
    /\ unique' = [unique EXCEPT ![g] = {}]
    /\ Returns(w, "ok")
    /\ UNCHANGED <<bis, user, strong>>
-----------------------------------------------------------------------------
\* delUserFromGroup leaves one group, delUserFromAllGroups those it finds.
SearchesGroups(w) ==
    LET p == proc[w] IN
    /\ At(w, "search")
    /\ Becomes(w, [p EXCEPT !.pc = "leavedn",
                            !.leaves = IF p.op = "delUserFromGroup" THEN {p.group}
                                       ELSE {g \in Groups : p.uid \in members[g]}])
    /\ UNCHANGED directory

\* changeUserPrimaryGroup: getUserPrimaryGroup.
FindsPrimary(w) ==
    /\ At(w, "primary")
    /\ \E g \in PrimaryGroups(proc[w].uid) :
           Becomes(w, [proc[w] EXCEPT !.pc = "leavedn", !.leaves = {g}])
    /\ UNCHANGED directory

\* What follows delUserFromGroup in the method that calls it.
Left(w) == IF proc[w].op = "changeUserPrimaryGroup" THEN Goes(w, "joindn")
                                                    ELSE Returns(w, "ok")

LeftAll(w) ==
    /\ At(w, "leavedn") /\ proc[w].leaves = {}
    /\ Left(w)
    /\ UNCHANGED directory

\* Neither attribute answers with NO_SUCH_ATTRIBUTE.
Removable(p, g) == p.uid \in members[g] /\ (bis => p.dn \in unique[g])

\* A groupOfUniqueNames has at least one uniqueMember (OBJECT_CLASS_VIOLATION).
LastUnique(p, g) == bis /\ Removable(p, g) /\ unique[g] = {p.dn}

Leaves_OneGroup(w) ==
    LET p == proc[w] IN
    /\ At(w, "leave")
    /\ members' = [members EXCEPT ![CHOOSE g \in p.leaves : TRUE] = @ \ {p.uid}]
    /\ Left(w)
    /\ UNCHANGED <<bis, user, strong, group, unique>>

\* delUserFromGroup, for one group after the other.  The directory removes both
\* attributes or none, and the method takes NO_SUCH_ATTRIBUTE for "no member".
Leaves(w) ==
    LET p == proc[w] IN
    /\ At(w, "leave")
    /\ \E g \in p.leaves :
          /\ IsGroup(g) /\ ~LastUnique(p, g)
          /\ \/ ~Removable(p, g) /\ UNCHANGED <<members, unique>>
             \/ /\ Removable(p, g)
                /\ members' = [members EXCEPT ![g] = @ \ {p.uid}]
                /\ unique' = [unique EXCEPT ![g] = IF bis THEN @ \ {p.dn} ELSE @]
          /\ Becomes(w, [p EXCEPT !.pc = "leavedn", !.leaves = @ \ {g}])
    /\ UNCHANGED <<bis, user, strong, group>>

\* changeUserAttributes(uid, "gidNumber", gidNumber)
SetsPrimary(w) ==
    LET u == proc[w].uid IN
    /\ At(w, "setgid") /\ IsUser(u)
    /\ user' = [user EXCEPT ![u].gid = proc[w].gid]
    /\ Returns(w, "ok")
    /\ UNCHANGED <<bis, strong, group, members, unique>>
-----------------------------------------------------------------------------
\* What the directory refuses: ALREADY_EXISTS, NO_SUCH_OBJECT, and the last
\* uniqueMember.
Refused(w) ==
    LET p == proc[w] IN
    \/ p.pc = "entry" /\ IsUser(p.uid)
    \/ p.pc = "addgroup" /\ IsGroup(p.group)
    \/ p.pc \in {"password", "setgid"} /\ ~IsUser(p.uid)
    \/ p.pc \in {"gid", "join", "check", "delete"} /\ ~IsGroup(p.group)
    \/ p.pc = "primary" /\ PrimaryGroups(p.uid) = {}
    \/ p.pc = "leave" /\ \E g \in p.leaves : ~IsGroup(g) \/ LastUnique(p, g)

\* An error ends every method where it is, but delRecursiveEntry: the handler
\* of addUser (945-952) has nothing to undo when there is a default group.
Raises(w) ==
    /\ \/ Refused(w)
       \/ "ldap" \in Faults /\ ~At(w, "idle") /\ ~At(w, "home")
    /\ Returns(w, IF At(w, "rmentry") THEN "ok" ELSE "raised")
    /\ UNCHANGED directory

AddUser(w) == ChoosesNumber(w) \/ ReadsGID(w) \/ AddsEntry(w) \/ SetsPassword(w)
              \/ FindsDN(w, "joindn", "join") \/ Joins(w) \/ MakesHome(w)
DelUser(w) == RemovesHome(w) \/ RemovesEntry(w)
AddGroup(w) == ReadsMaxGID(w) \/ AddsGroup(w)
DelGroup(w) == ChecksGroup(w) \/ DeletesGroup(w)
ChangeGroups(w) ==
    \/ SearchesGroups(w) \/ FindsPrimary(w) \/ LeftAll(w) \/ Leaves(w) \/ SetsPrimary(w)
    \/ proc[w].leaves # {} /\ FindsDN(w, "leavedn", "leave")

Next ==
    \E w \in Workers :
        \/ Call(w)
        \/ AddUser(w) \/ DelUser(w) \/ AddGroup(w) \/ DelGroup(w) \/ ChangeGroups(w)
        \/ Raises(w)

Spec == Init /\ [][Next]_vars
-----------------------------------------------------------------------------
(* The primary group of a user exists: no entry of a user names a group    *)
(* that was deleted before, or while, the entry was made or changed        *)
(* (__init__.py:875, 1124-1134 and the search of delGroup, 1438-1441).     *)
PrimaryGroupExists ==
    \A u \in Uids : IsUser(u) => PrimaryGroups(u) # {}

(* Each user has a uidNumber and each group a gidNumber of its own: the    *)
(* "first free UID available" (__init__.py:1852) is still free when the    *)
(* entry is written, some requests to the directory later.                 *)
UniqueNumbers ==
    /\ \A u, v \in Uids : IsUser(u) /\ user[u].num = user[v].num => u = v
    /\ \A g, h \in Groups : IsGroup(g) /\ group[g] = group[h] => g = h

\* The method that returned last on w, and its answer.
Did(w, op, results) == At(w, "idle") /\ proc[w].op = op /\ proc[w].result \in results

\* A member by one attribute at least, and by every attribute of the schema.
IsListed(u, g) == u \in members[g] \/ (bis /\ u \in unique[g])
IsMember(u, g) == u \in members[g] /\ (bis => DN(u) \in unique[g])

(* When addUser or changeUserPrimaryGroup returns without an error, the    *)
(* user is there, with the primary group that was asked for, and listed by *)
(* it (__init__.py:942-944, 1124-1134); with a password, unless addUser    *)
(* returned 5 (974-978).  Listed is memberUid, but with RFC2307bis it may  *)
(* be uniqueMember alone: an error that is ignored (1212-1215) leaves a    *)
(* user whom a former one of that name left there without memberUid.       *)
SuccessMeansPrimary ==
    \A w \in Workers :
        LET u == proc[w].uid
            g == proc[w].group
        IN  Did(w, "addUser", {"ok", "weak"}) \/ Did(w, "changeUserPrimaryGroup", {"ok"})
            => /\ IsUser(u) /\ IsGroup(g)
               /\ user[u].gid = group[g] /\ IsListed(u, g)
               /\ Did(w, "addUser", {"ok"}) => u \in strong

(* A user who was removed from all groups is a member of none of them      *)
(* (__init__.py:1101-1113): by memberUid, and with RFC2307bis at least not *)
(* by both attributes: memberUid stays where the DN that is found, '' for  *)
(* a user who was deleted, is no uniqueMember (1096, 1537).                *)
RemovedFromAll ==
    \A w \in Workers : Did(w, "delUserFromAllGroups", {"ok"})
                      => \A g \in Groups : ~IsMember(proc[w].uid, g)
=============================================================================
