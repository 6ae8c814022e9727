------------------------ MODULE DirectoryUsersProofs ------------------------
(***************************************************************************)
(* Proof that methods which run one at a time keep the primary group of    *)
(* every user, and that success means what it says, for any users, groups, *)
(* numbers of calls and faults.                                            *)
(*                                                                         *)
(* The argument: between its requests a method knows something about the   *)
(* directory (Knows), and nobody else changes it meanwhile; so a number it *)
(* read is still that of the group, a group it found unused still is, and  *)
(* what it has done so far is still done when it returns.  And a number it *)
(* has chosen is still free when it writes it (KnowsFree), the least and   *)
(* the greatest of a bounded set of numbers being what they are called.    *)
(***************************************************************************)
EXTENDS DirectoryUsers, WellFoundedInduction, TLAPS

\* Methods that run one at a time.
OneWorker == \A v, w \in Workers : v = w

Changing == {"addUser", "changeUserPrimaryGroup"}

\* The method that takes each step.
MethodFits(p) ==
    /\ p.pc \in {"number", "entry", "password", "home", "undo"} => p.op = "addUser"
    /\ p.pc \in {"primary", "setgid"} => p.op = "changeUserPrimaryGroup"
    /\ p.pc = "gid" => p.op \in Changing
    /\ p.pc \in {"joindn", "join"} => p.op \in Changing \cup {"addUserToGroup"}
    /\ p.pc = "search" => p.op \in {"delUserFromGroup", "delUserFromAllGroups"}
    /\ p.pc \in {"leavedn", "leave"}
       => p.op \in {"delUserFromGroup", "delUserFromAllGroups", "changeUserPrimaryGroup"}
    /\ p.pc \in {"rmhome", "rmentry"} => p.op = "delUser"
    /\ p.pc \in {"maxgid", "addgroup"} => p.op = "addGroup"
    /\ p.pc \in {"check", "delete"} => p.op = "delGroup"

\* The number it chose, and the number of the group it looked up.
KnowsNumbers(p) ==
    /\ p.op = "addUser" /\ p.pc \in {"gid", "entry"} => p.num \in Numbers
    /\ p.op \in Changing
       /\ p.pc \in {"entry", "password", "joindn", "join", "home", "primary", "leavedn",
                   "leave", "setgid"}
       => p.gid \in Numbers /\ group[p.group] = p.gid

\* What addUser has done, and whom changeUserPrimaryGroup has found.
KnowsUser(p) ==
    /\ p.op = "addUser" /\ p.pc \in {"password", "joindn", "join", "home"}
       => /\ IsUser(p.uid) /\ user[p.uid].gid = p.gid
          /\ p.pc # "password" => /\ p.result \in {"ok", "weak"}
                                  /\ p.result = "ok" => p.uid \in strong
    /\ p.op = "changeUserPrimaryGroup"
       /\ p.pc \in {"leavedn", "leave", "joindn", "join", "setgid"}
       => IsUser(p.uid)

\* The DN that was found, and what was written with it.
KnowsDN(p) == p.pc \in {"join", "leave"} => p.dn = DN(p.uid)
KnowsListed(p) == p.pc \in {"home", "setgid"} => IsListed(p.uid, p.group)
KnowsMember(p) == KnowsDN(p) /\ KnowsListed(p)

KnowsUnused(p) ==
    p.pc = "delete" => /\ IsGroup(p.group)
                       /\ \A u \in Uids : user[u].gid # group[p.group]

KnowsGroups(p) ==
    p.op = "delUserFromAllGroups" /\ p.pc \in {"leavedn", "leave"}
    => \A g \in Groups : IsMember(p.uid, g) => g \in p.leaves

\* What the properties say of a method that returned.
Succeeded(p) ==
    p.pc = "idle" /\ (\/ p.op = "addUser" /\ p.result \in {"ok", "weak"}
                      \/ p.op = "changeUserPrimaryGroup" /\ p.result = "ok")
    => /\ IsUser(p.uid) /\ IsGroup(p.group)
       /\ user[p.uid].gid = group[p.group] /\ IsListed(p.uid, p.group)
       /\ p.op = "addUser" /\ p.result = "ok" => p.uid \in strong

Removed(p) ==
    p.pc = "idle" /\ p.op = "delUserFromAllGroups" /\ p.result = "ok"
    => \A g \in Groups : ~IsMember(p.uid, g)

Knows(p) ==
    /\ MethodFits(p) /\ KnowsNumbers(p) /\ KnowsUser(p) /\ KnowsMember(p)
    /\ KnowsUnused(p) /\ KnowsGroups(p) /\ Succeeded(p) /\ Removed(p)

IInv == TypeOK /\ PrimaryGroupExists /\ \A w \in Workers : Knows(proc[w])

LEMMA IdleIsMethod == Idle \in Methods /\ Idle.pc = "idle" /\ Idle.op = "none"
BY DirectoryAssumption DEF Idle, Methods

LEMMA NoNumberIsNone == NoNumber \notin Numbers
BY DEF NoNumber, Numbers

LEMMA InitInvariant == Init => IInv
<1> SUFFICES ASSUME Init PROVE IInv
  OBVIOUS
<1>1. TypeOK
  <2>1. 1 \in Numbers
    BY DirectoryAssumption DEF Numbers
  <2>2. group \in [Groups -> Numbers \cup {NoNumber}]
    BY <2>1 DEF Init
  <2>3. unique \in [Groups -> SUBSET (Uids \cup {NoDN})]
    BY DEF Init, FirstUnique
  <2>4. QED
    BY <2>2, <2>3, IdleIsMethod, DirectoryAssumption DEF Init, TypeOK
<1>2. PrimaryGroupExists
  BY DEF Init, PrimaryGroupExists, IsUser, NoUser
<1>3. ASSUME NEW w \in Workers PROVE Knows(proc[w])
  <2>1. proc[w].pc = "idle" /\ proc[w].op = "none"
    BY IdleIsMethod DEF Init
  <2>2. QED
    BY <2>1 DEF Knows, MethodFits, KnowsNumbers, KnowsUser, KnowsMember, KnowsDN, KnowsListed,
                KnowsUnused, KnowsGroups, Succeeded, Removed
<1>4. QED
  BY <1>1, <1>2, <1>3 DEF IInv
-----------------------------------------------------------------------------
(* What the steps of a method make of its record.                          *)
Moved(p, pc) == [p EXCEPT !.pc = pc]
Ended(p, result) == [p EXCEPT !.pc = "idle", !.result = result]
Numbered(p, num) == [p EXCEPT !.pc = "gid", !.num = num]
Grouped(p, pc, gid) == [p EXCEPT !.pc = pc, !.gid = gid]
Tried(p, result) == [p EXCEPT !.pc = "joindn", !.result = result]
Leaving(p, leaves) == [p EXCEPT !.pc = "leavedn", !.leaves = leaves]
Found(p, pc, dn) == [p EXCEPT !.pc = pc, !.dn = dn]

LEMMA MovedRecord ==
    ASSUME NEW p \in Methods, NEW pc,
           pc \in {"number", "gid", "entry", "password", "joindn", "join", "home", "undo",
                   "maxgid", "addgroup", "check", "delete", "rmhome", "rmentry",
                   "search", "primary", "leavedn", "leave", "setgid"}
    PROVE  LET q == Moved(p, pc) IN
           /\ q \in Methods
           /\ q.pc = pc /\ q.op = p.op /\ q.uid = p.uid /\ q.group = p.group
           /\ q.num = p.num /\ q.gid = p.gid /\ q.result = p.result
           /\ q.leaves = p.leaves
BY DEF Methods, Moved

LEMMA EndedRecord ==
    ASSUME NEW p \in Methods, NEW result \in {"ok", "weak", "used", "raised"}
    PROVE  LET q == Ended(p, result) IN
           /\ q \in Methods
           /\ q.pc = "idle" /\ q.op = p.op /\ q.uid = p.uid /\ q.group = p.group
           /\ q.num = p.num /\ q.gid = p.gid /\ q.result = result
BY DEF Methods, Ended

LEMMA NumberedRecord ==
    ASSUME NEW p \in Methods, NEW num \in Numbers
    PROVE  LET q == Numbered(p, num) IN
           /\ q \in Methods
           /\ q.pc = "gid" /\ q.op = p.op /\ q.num = num
BY DEF Methods, Numbered

LEMMA GroupedRecord ==
    ASSUME NEW p \in Methods, NEW gid \in Numbers,
           NEW pc \in {"entry", "primary", "addgroup"}
    PROVE  LET q == Grouped(p, pc, gid) IN
           /\ q \in Methods
           /\ q.pc = pc /\ q.op = p.op /\ q.uid = p.uid /\ q.group = p.group
           /\ q.num = p.num /\ q.gid = gid
BY DEF Methods, Grouped

LEMMA TriedRecord ==
    ASSUME NEW p \in Methods, NEW result \in {"ok", "weak"}
    PROVE  LET q == Tried(p, result) IN
           /\ q \in Methods
           /\ q.pc = "joindn" /\ q.op = p.op /\ q.uid = p.uid /\ q.group = p.group
           /\ q.gid = p.gid /\ q.result = result
BY DEF Methods, Tried

LEMMA LeavingRecord ==
    ASSUME NEW p \in Methods, NEW leaves \in SUBSET Groups
    PROVE  LET q == Leaving(p, leaves) IN
           /\ q \in Methods
           /\ q.pc = "leavedn" /\ q.op = p.op /\ q.uid = p.uid /\ q.group = p.group
           /\ q.gid = p.gid /\ q.leaves = leaves
BY DEF Methods, Leaving

LEMMA FoundRecord ==
    ASSUME NEW p \in Methods, NEW pc \in {"join", "leave"}, NEW dn \in Uids \cup {NoDN}
    PROVE  LET q == Found(p, pc, dn) IN
           /\ q \in Methods
           /\ q.pc = pc /\ q.op = p.op /\ q.uid = p.uid /\ q.group = p.group
           /\ q.gid = p.gid /\ q.dn = dn /\ q.leaves = p.leaves /\ q.result = p.result
BY DEF Methods, Found

LEMMA CalledRecord ==
    ASSUME NEW op \in Ops, NEW pc \in {"number", "gid", "joindn", "maxgid", "check",
                                       "rmhome", "search"},
           NEW u \in Uids, NEW g \in Groups
    PROVE  LET q == Called(op, pc, u, g) IN
           /\ q \in Methods
           /\ q.pc = pc /\ q.op = op
BY IdleIsMethod DEF Methods, Called

\* What a step does to the record of the method that takes it.
LEMMA Became ==
    ASSUME TypeOK, NEW w \in Workers, NEW q \in Methods, Becomes(w, q)
    PROVE  /\ proc' \in [Workers -> Methods]
           /\ proc'[w] = q /\ calls' = calls
BY DEF Becomes, TypeOK

LEMMA Reduced ==
    ASSUME OneWorker, NEW w \in Workers, TypeOK', PrimaryGroupExists', Knows(proc[w])'
    PROVE  IInv'
<1>1. ASSUME NEW v \in Workers PROVE Knows(proc[v])'
  BY OneWorker, v = w DEF OneWorker
<1>2. QED
  BY <1>1 DEF IInv
-----------------------------------------------------------------------------
\* A step that leaves the directory alone.
LEMMA ReadingStep ==
    ASSUME OneWorker, IInv, UNCHANGED directory, NEW w \in Workers, NEW q \in Methods,
           Becomes(w, q), Knows(q)
    PROVE  IInv'
<1>1. proc' \in [Workers -> Methods] /\ proc'[w] = q /\ calls' = calls
  BY Became DEF IInv
<1>2. TypeOK'
  BY <1>1 DEF IInv, TypeOK, directory, IsUser
<1>3. PrimaryGroupExists'
  BY DEF IInv, directory, PrimaryGroupExists, PrimaryGroups, IsUser
<1>4. Knows(proc[w])'
  <2>1. /\ MethodFits(proc[w])' /\ KnowsMember(proc[w])' /\ KnowsGroups(proc[w])'
    BY <1>1 DEF directory, Knows, MethodFits, KnowsMember, KnowsDN, KnowsListed, KnowsGroups,
                 IsListed, IsMember, IsUser, DN
  <2>2. KnowsNumbers(proc[w])' /\ KnowsUser(proc[w])' /\ KnowsUnused(proc[w])'
    BY <1>1 DEF directory, Knows, KnowsNumbers, KnowsUser, KnowsUnused, IsUser, IsGroup
  <2>3. Succeeded(proc[w])' /\ Removed(proc[w])'
    BY <1>1 DEF directory, Knows, Succeeded, Removed, IsUser, IsGroup, IsListed, IsMember, DN
  <2>4. QED
    BY <2>1, <2>2, <2>3 DEF Knows
<1>5. QED
  BY <1>2, <1>3, <1>4, Reduced

LEMMA KnowsFailed ==
    ASSUME NEW p \in Methods, p.pc = "idle", p.result = "raised"
    PROVE  Knows(p)
BY DEF Knows, MethodFits, KnowsNumbers, KnowsUser, KnowsMember, KnowsDN, KnowsListed, KnowsUnused,
       KnowsGroups, Succeeded, Removed

\* A method that raises, whatever it has done.
LEMMA RaisingStep ==
    ASSUME OneWorker, IInv, UNCHANGED directory, NEW w \in Workers, Returns(w, "raised")
    PROVE  IInv'
<1> DEFINE q == Ended(proc[w], "raised")
<1>1. proc[w] \in Methods
  BY DEF IInv, TypeOK
<1>2. q \in Methods /\ q.pc = "idle" /\ q.result = "raised"
  BY <1>1, EndedRecord
<1>3. Becomes(w, q)
  BY DEF Returns, Ended
<1> HIDE DEF q
<1>4. QED
  BY <1>2, <1>3, KnowsFailed, ReadingStep

LEMMA CallStep ==
    ASSUME OneWorker, IInv, NEW w \in Workers, Call(w)
    PROVE  IInv'
<1>1. PICK u \in Uids, g \in Groups, op \in Ops,
           pc \in {"number", "gid", "joindn", "maxgid", "check", "rmhome", "search"} :
        /\ Begins(w, op, pc, u, g)
        /\ \/ op = "addUser" /\ pc = "number"
           \/ op = "delUser" /\ pc = "rmhome"
           \/ op = "addGroup" /\ pc = "maxgid"
           \/ op = "delGroup" /\ pc = "check"
           \/ op = "addUserToGroup" /\ pc = "joindn"
           \/ op \in {"delUserFromGroup", "delUserFromAllGroups"} /\ pc = "search"
           \/ op = "changeUserPrimaryGroup" /\ pc = "gid"
  <2>1. Idle.uid \in Uids /\ Idle.group \in Groups
    BY IdleIsMethod DEF Methods
  <2>2. QED
    BY <2>1 DEF Call, Ops
<1> DEFINE q == Called(op, pc, u, g)
<1>2. q \in Methods /\ q.pc = pc /\ q.op = op
  BY CalledRecord
<1>3. calls < MaxCalls /\ calls' = calls + 1 /\ proc' = [proc EXCEPT ![w] = q]
      /\ UNCHANGED directory
  BY <1>1 DEF Begins
<1> HIDE DEF q
<1>4. proc' \in [Workers -> Methods] /\ proc'[w] = q
  BY <1>2, <1>3 DEF IInv, TypeOK
<1>5. TypeOK'
  <2>1. calls' \in 0..MaxCalls
    BY <1>3, DirectoryAssumption DEF IInv, TypeOK
  <2>2. QED
    BY <1>3, <1>4, <2>1 DEF IInv, TypeOK, directory, IsUser
<1>6. PrimaryGroupExists'
  BY <1>3 DEF IInv, directory, PrimaryGroupExists, PrimaryGroups, IsUser
<1>7. Knows(proc[w])'
  BY <1>1, <1>2, <1>4 DEF Knows, MethodFits, KnowsNumbers, KnowsUser, KnowsMember, KnowsDN, KnowsListed,
                          KnowsUnused, KnowsGroups, Succeeded, Removed, Changing
<1>8. QED
  BY <1>5, <1>6, <1>7, Reduced
-----------------------------------------------------------------------------
(* The numbers that freeUID and addGroup choose.                           *)
LEMMA LeastOf == ASSUME NEW S \in SUBSET Nat, S # {}
                 PROVE  \E x \in S : \A y \in S : x <= y
<1>1. PICK x \in S : \A y \in S : <<y, x>> \notin OpToRel(<, Nat)
  BY NatLessThanWellFounded, WFMin
<1>2. \A y \in S : ~(y < x)
  BY <1>1 DEF OpToRel
<1>3. QED
  BY <1>2

LEMMA GreatestOf == ASSUME NEW K \in Nat, NEW S \in SUBSET (0..K), S # {}
                    PROVE  \E x \in S : \A y \in S : x >= y
<1> DEFINE T == {K - y : y \in S}
<1>1. T \in SUBSET Nat /\ T # {}
  <2>1. T \in SUBSET Nat
    OBVIOUS
  <2>2. T # {}
    OBVIOUS
  <2>3. QED
    BY <2>1, <2>2
<1>2. PICK z \in T : \A t \in T : z <= t
  BY <1>1, LeastOf
<1>3. PICK x \in S : z = K - x
  OBVIOUS
<1>4. ASSUME NEW y \in S PROVE x >= y
  <2>1. K - x <= K - y
    BY <1>2, <1>3
  <2>2. x \in 0..K /\ y \in 0..K
    OBVIOUS
  <2>3. QED
    BY <2>1, <2>2
<1>5. QED
  BY <1>4

LEMMA FreeUIDIsFree ==
    ASSUME FreeUIDs # {}
    PROVE  FreeUID \in Numbers /\ \A u \in Uids : user[u].num # FreeUID
<1>1. FreeUIDs \in SUBSET Nat
  BY DEF FreeUIDs, Numbers
<1>2. FreeUID \in FreeUIDs
  BY <1>1, LeastOf DEF FreeUID, Min
<1>3. QED
  BY <1>2 DEF FreeUIDs

LEMMA NextGIDIsFree ==
    ASSUME TypeOK
    PROVE  \A g \in Groups : group[g] # NextGID
<1> DEFINE S == {group[g] : g \in Groups}
<1>1. S \in SUBSET (0..(MaxCalls + 1)) /\ S # {}
  BY DirectoryAssumption DEF TypeOK, Numbers, NoNumber
<1> HIDE DEF S
<1>2. MaxCalls + 1 \in Nat
  BY DirectoryAssumption
<1>3. \E x \in S : \A y \in S : x >= y
  BY <1>1, <1>2, GreatestOf
<1>4. Max(S) \in S /\ \A y \in S : Max(S) >= y
  BY <1>3 DEF Max
<1>5. S \subseteq Int
  BY <1>1, <1>2
<1>6. ASSUME NEW y \in S PROVE y # Max(S) + 1
  <2> DEFINE m == Max(S)
  <2>1. m \in Int /\ y \in Int /\ m >= y
    BY <1>4, <1>5
  <2> HIDE DEF m
  <2>2. y # m + 1
    BY <2>1
  <2>3. QED
    BY <2>2 DEF m
<1>7. NextGID = Max(S) + 1
  BY DEF NextGID, S
<1>8. QED
  BY <1>6, <1>7 DEF S

LEMMA ChoosesNumberStep ==
    ASSUME OneWorker, IInv, NEW w \in Workers, ChoosesNumber(w)
    PROVE  IInv'
<1>1. proc[w] \in Methods /\ Knows(proc[w])
  BY DEF IInv, TypeOK
<1>2. CASE Returns(w, "raised")
  BY <1>2, RaisingStep DEF ChoosesNumber
<1>3. CASE Becomes(w, Numbered(proc[w], FreeUID))
  <2> DEFINE q == Numbered(proc[w], FreeUID)
  <2>1. q \in Methods /\ q.pc = "gid" /\ q.op = proc[w].op /\ q.num \in Numbers
    BY <1>1, NumberedRecord, FreeUIDIsFree DEF ChoosesNumber
  <2>2. proc[w].pc = "number"
    BY DEF ChoosesNumber, At
  <2> HIDE DEF q
  <2>3. Knows(q)
    BY <1>1, <2>1, <2>2 DEF Knows, MethodFits, KnowsNumbers, KnowsUser, KnowsMember, KnowsDN, KnowsListed,
                            KnowsUnused, KnowsGroups, Succeeded, Removed, Changing
  <2>4. QED
    BY <1>3, <2>1, <2>3, ReadingStep DEF ChoosesNumber, q
<1>4. QED
  BY <1>2, <1>3 DEF ChoosesNumber, Numbered

LEMMA ReadsGIDStep ==
    ASSUME OneWorker, IInv, NEW w \in Workers, ReadsGID(w)
    PROVE  IInv'
<1> DEFINE pc == IF proc[w].op = "addUser" THEN "entry" ELSE "primary"
           gid == group[proc[w].group]
           q == Grouped(proc[w], pc, gid)
<1>1. proc[w] \in Methods /\ Knows(proc[w]) /\ proc[w].pc = "gid"
  BY DEF IInv, TypeOK, ReadsGID, At
<1>2. gid \in Numbers
  BY <1>1 DEF IInv, TypeOK, ReadsGID, IsGroup, Methods
<1>3. Becomes(w, q) /\ UNCHANGED directory
  BY DEF ReadsGID, Grouped
<1>4. /\ q \in Methods
      /\ q.pc = pc /\ q.op = proc[w].op /\ q.uid = proc[w].uid
      /\ q.group = proc[w].group /\ q.num = proc[w].num /\ q.gid = gid
  <2>1. pc \in {"entry", "primary", "addgroup"}
    OBVIOUS
  <2> HIDE DEF pc, gid
  <2>2. PICK p \in Methods, c \in {"entry", "primary", "addgroup"}, n \in Numbers :
            p = proc[w] /\ c = pc /\ n = gid
    BY <1>1, <1>2, <2>1
  <2>3. LET r == Grouped(p, c, n) IN
        /\ r \in Methods
        /\ r.pc = c /\ r.op = p.op /\ r.uid = p.uid
        /\ r.group = p.group /\ r.num = p.num /\ r.gid = n
    BY GroupedRecord
  <2>4. QED
    BY <2>2, <2>3
<1> HIDE DEF q
<1>5. Knows(q)
  BY <1>1, <1>2, <1>4 DEF Knows, MethodFits, KnowsNumbers, KnowsUser, KnowsMember, KnowsDN, KnowsListed,
                          KnowsUnused, KnowsGroups, Succeeded, Removed, Changing
<1>6. QED
  BY <1>3, <1>4, <1>5, ReadingStep

LEMMA MakesHomeStep ==
    ASSUME OneWorker, IInv, NEW w \in Workers, MakesHome(w)
    PROVE  IInv'
<1>1. proc[w] \in Methods /\ Knows(proc[w]) /\ proc[w].pc = "home"
  BY DEF IInv, TypeOK, MakesHome, At
<1>2. CASE Returns(w, "raised")
  BY <1>2, RaisingStep DEF MakesHome
<1>3. CASE Goes(w, "undo")
  <2> DEFINE q == Moved(proc[w], "undo")
  <2>1. q \in Methods /\ q.pc = "undo" /\ q.op = proc[w].op
    BY <1>1, MovedRecord
  <2> HIDE DEF q
  <2>2. Knows(q)
    BY <1>1, <2>1 DEF Knows, MethodFits, KnowsNumbers, KnowsUser, KnowsMember, KnowsDN, KnowsListed,
                      KnowsUnused, KnowsGroups, Succeeded, Removed, Changing
  <2>3. QED
    BY <1>3, <2>1, <2>2, ReadingStep DEF MakesHome, Goes, Moved, q
<1>4. CASE Returns(w, proc[w].result)
  <2> DEFINE q == Ended(proc[w], proc[w].result)
  <2>1. proc[w].op = "addUser" /\ proc[w].result \in {"ok", "weak"}
    BY <1>1 DEF Knows, MethodFits, KnowsUser
  <2>2. /\ q \in Methods
        /\ q.pc = "idle" /\ q.op = proc[w].op /\ q.uid = proc[w].uid
        /\ q.group = proc[w].group /\ q.result = proc[w].result
    BY <1>1, <2>1, EndedRecord
  <2> HIDE DEF q
  <2>3. Succeeded(q)
    BY <1>1, <2>1, <2>2, NoNumberIsNone
       DEF Knows, KnowsNumbers, KnowsUser, KnowsMember, KnowsDN, KnowsListed, Succeeded, Changing, IsGroup
  <2>4. Knows(q)
    BY <2>1, <2>2, <2>3 DEF Knows, MethodFits, KnowsNumbers, KnowsUser, KnowsMember, KnowsDN, KnowsListed,
                            KnowsUnused, KnowsGroups, Removed, Changing
  <2>5. QED
    BY <1>4, <2>2, <2>4, ReadingStep DEF MakesHome, Returns, Ended, q
<1>5. QED
  BY <1>2, <1>3, <1>4 DEF MakesHome

LEMMA RemovesHomeStep ==
    ASSUME OneWorker, IInv, NEW w \in Workers, RemovesHome(w)
    PROVE  IInv'
<1>1. proc[w] \in Methods /\ Knows(proc[w]) /\ proc[w].pc = "rmhome"
  BY DEF IInv, TypeOK, RemovesHome, At
<1>2. CASE Returns(w, "raised")
  BY <1>2, RaisingStep DEF RemovesHome
<1>3. CASE Goes(w, "rmentry")
  <2> DEFINE q == Moved(proc[w], "rmentry")
  <2>1. q \in Methods /\ q.pc = "rmentry" /\ q.op = proc[w].op /\ q.group = proc[w].group
    BY <1>1, MovedRecord
  <2> HIDE DEF q
  <2>2. Knows(q)
    BY <1>1, <2>1 DEF Knows, MethodFits, KnowsNumbers, KnowsUser, KnowsMember, KnowsDN, KnowsListed,
                      KnowsUnused, KnowsGroups, Succeeded, Removed, Changing
  <2>3. QED
    BY <1>3, <2>1, <2>2, ReadingStep DEF RemovesHome, Goes, Moved, q
<1>4. QED
  BY <1>2, <1>3 DEF RemovesHome

LEMMA ReadsMaxGIDStep ==
    ASSUME OneWorker, IInv, NEW w \in Workers, ReadsMaxGID(w)
    PROVE  IInv'
<1> DEFINE q == Grouped(proc[w], "addgroup", NextGID)
<1>1. proc[w] \in Methods /\ Knows(proc[w]) /\ proc[w].pc = "maxgid" /\ NextGID \in Numbers
  BY DEF IInv, TypeOK, ReadsMaxGID, At
<1>2. Becomes(w, q) /\ UNCHANGED directory
  BY DEF ReadsMaxGID, Grouped
<1>3. q \in Methods /\ q.pc = "addgroup" /\ q.op = proc[w].op
  BY <1>1, GroupedRecord
<1> HIDE DEF q
<1>4. Knows(q)
  BY <1>1, <1>3 DEF Knows, MethodFits, KnowsNumbers, KnowsUser, KnowsMember, KnowsDN, KnowsListed,
                      KnowsUnused, KnowsGroups, Succeeded, Removed, Changing
<1>5. QED
  BY <1>2, <1>3, <1>4, ReadingStep

LEMMA ChecksGroupStep ==
    ASSUME OneWorker, IInv, NEW w \in Workers, ChecksGroup(w)
    PROVE  IInv'
<1>1. /\ proc[w] \in Methods /\ Knows(proc[w]) /\ proc[w].pc = "check"
      /\ IsGroup(proc[w].group) /\ UNCHANGED directory
  BY DEF IInv, TypeOK, ChecksGroup, At
<1>2. CASE \E u \in Uids : user[u].gid = group[proc[w].group]
  <2> DEFINE q == Ended(proc[w], "used")
  <2>1. q \in Methods /\ q.pc = "idle" /\ q.op = proc[w].op /\ q.result = "used"
    BY <1>1, EndedRecord
  <2> HIDE DEF q
  <2>2. Knows(q)
    BY <1>1, <2>1 DEF Knows, MethodFits, KnowsNumbers, KnowsUser, KnowsMember, KnowsDN, KnowsListed,
                      KnowsUnused, KnowsGroups, Succeeded, Removed, Changing
  <2>3. QED
    BY <1>1, <1>2, <2>1, <2>2, ReadingStep DEF ChecksGroup, Returns, Ended, q
<1>3. CASE ~\E u \in Uids : user[u].gid = group[proc[w].group]
  <2> DEFINE q == Moved(proc[w], "delete")
  <2>1. q \in Methods /\ q.pc = "delete" /\ q.op = proc[w].op /\ q.group = proc[w].group
    BY <1>1, MovedRecord
  <2> HIDE DEF q
  <2>2. Knows(q)
    BY <1>1, <1>3, <2>1 DEF Knows, MethodFits, KnowsNumbers, KnowsUser, KnowsMember, KnowsDN, KnowsListed,
                      KnowsUnused, KnowsGroups, Succeeded, Removed, Changing
  <2>3. QED
    BY <1>1, <1>3, <2>1, <2>2, ReadingStep DEF ChecksGroup, Goes, Moved, q
<1>4. QED
  BY <1>2, <1>3

LEMMA SearchesGroupsStep ==
    ASSUME OneWorker, IInv, NEW w \in Workers, SearchesGroups(w)
    PROVE  IInv'
<1> DEFINE leaves == IF proc[w].op = "delUserFromGroup" THEN {proc[w].group}
                     ELSE {g \in Groups : proc[w].uid \in members[g]}
           q == Leaving(proc[w], leaves)
<1>1. proc[w] \in Methods /\ Knows(proc[w]) /\ proc[w].pc = "search"
  BY DEF IInv, TypeOK, SearchesGroups, At
<1>2. Becomes(w, q) /\ UNCHANGED directory
  BY DEF SearchesGroups, Leaving
<1>3. /\ leaves \in SUBSET Groups
      /\ proc[w].op = "delUserFromAllGroups"
         => \A g \in Groups : IsMember(proc[w].uid, g) => g \in leaves
  BY <1>1 DEF Methods, IsMember
<1> HIDE DEF leaves
<1>4. /\ q \in Methods
      /\ q.pc = "leavedn" /\ q.op = proc[w].op /\ q.uid = proc[w].uid /\ q.leaves = leaves
  BY <1>1, <1>3, LeavingRecord
<1> HIDE DEF q
<1>5. Knows(q)
  BY <1>1, <1>3, <1>4 DEF Knows, MethodFits, KnowsNumbers, KnowsUser, KnowsMember, KnowsDN, KnowsListed,
                      KnowsUnused, KnowsGroups, Succeeded, Removed, Changing
<1>6. QED
  BY <1>2, <1>4, <1>5, ReadingStep

LEMMA FindsPrimaryStep ==
    ASSUME OneWorker, IInv, NEW w \in Workers, FindsPrimary(w)
    PROVE  IInv'
<1>1. proc[w] \in Methods /\ Knows(proc[w]) /\ proc[w].pc = "primary"
  BY DEF IInv, TypeOK, FindsPrimary, At
<1>2. PICK g \in Groups : Becomes(w, Leaving(proc[w], {g})) /\ IsUser(proc[w].uid)
  BY DEF FindsPrimary, Leaving, PrimaryGroups
<1> DEFINE leaves == {g}
           q == Leaving(proc[w], leaves)
<1>3. leaves \in SUBSET Groups
  OBVIOUS
<1>4. Becomes(w, q)
  BY <1>2
<1> HIDE DEF leaves
<1>5. /\ q \in Methods /\ q.pc = "leavedn" /\ q.op = proc[w].op
      /\ q.group = proc[w].group /\ q.gid = proc[w].gid /\ q.uid = proc[w].uid
  BY <1>1, <1>3, LeavingRecord
<1> HIDE DEF q
<1>6. Knows(q)
  BY <1>1, <1>2, <1>5 DEF Knows, MethodFits, KnowsNumbers, KnowsUser, KnowsMember, KnowsDN, KnowsListed,
                      KnowsUnused, KnowsGroups, Succeeded, Removed, Changing
<1>7. QED
  BY <1>4, <1>5, <1>6, ReadingStep DEF FindsPrimary

LEMMA RaisesStep ==
    ASSUME OneWorker, IInv, NEW w \in Workers, Raises(w)
    PROVE  IInv'
<1>1. proc[w] \in Methods /\ Knows(proc[w]) /\ UNCHANGED directory
  BY DEF IInv, TypeOK, Raises
<1>2. CASE ~At(w, "rmentry")
  BY <1>1, <1>2, RaisingStep DEF Raises
<1>3. CASE At(w, "rmentry")
  <2> DEFINE q == Ended(proc[w], "ok")
  <2>1. q \in Methods /\ q.pc = "idle" /\ q.op = proc[w].op
    BY <1>1, EndedRecord
  <2> HIDE DEF q
  <2>2. Knows(q)
    BY <1>1, <1>3, <2>1 DEF Knows, MethodFits, KnowsNumbers, KnowsUser, KnowsMember, KnowsDN, KnowsListed,
                      KnowsUnused, KnowsGroups, Succeeded, Removed, Changing, At
  <2>3. QED
    BY <1>1, <1>3, <2>1, <2>2, ReadingStep DEF Raises, Returns, Ended, q
<1>4. QED
  BY <1>2, <1>3
-----------------------------------------------------------------------------
\* The steps that change the directory.
LEMMA AddsEntryStep ==
    ASSUME OneWorker, IInv, NEW w \in Workers, AddsEntry(w)
    PROVE  IInv'
<1> DEFINE p == proc[w]
           u == p.uid
           entry == [num |-> p.num, gid |-> p.gid]
           q == Moved(p, "password")
<1>1. p \in Methods /\ Knows(p) /\ p.pc = "entry" /\ u \in Uids /\ ~IsUser(u)
  BY DEF IInv, TypeOK, AddsEntry, At, Methods
<1>2. /\ user' = [user EXCEPT ![u] = entry] /\ Becomes(w, q)
      /\ UNCHANGED <<bis, strong, group, members, unique>>
  BY DEF AddsEntry, Goes, Moved
<1>3. p.op = "addUser" /\ p.num \in Numbers /\ p.gid \in Numbers /\ group[p.group] = p.gid
  BY <1>1 DEF Knows, MethodFits, KnowsNumbers, Changing
<1>4. /\ q \in Methods /\ q.pc = "password" /\ q.op = p.op /\ q.uid = u
      /\ q.group = p.group /\ q.gid = p.gid
  BY <1>1, MovedRecord
<1> HIDE DEF q
<1>5. proc' \in [Workers -> Methods] /\ proc'[w] = q /\ calls' = calls
  BY <1>2, <1>4, Became DEF IInv
<1>6. /\ user' \in [Uids -> [num : Numbers, gid : Numbers] \cup {NoUser}]
      /\ user'[u] = entry /\ \A v \in Uids \ {u} : user'[v] = user[v]
      /\ entry.num = p.num /\ entry.gid = p.gid
  BY <1>1, <1>2, <1>3 DEF IInv, TypeOK
<1> HIDE DEF entry
<1>7. user'[u].num # NoNumber /\ \A v \in Uids : IsUser(v) => user'[v].num # NoNumber
  BY <1>1, <1>3, <1>6, NoNumberIsNone DEF IsUser
<1>8. TypeOK'
  BY <1>2, <1>5, <1>6, <1>7 DEF IInv, TypeOK, IsUser
<1>9. PrimaryGroupExists'
  BY <1>1, <1>2, <1>3, <1>6 DEF IInv, PrimaryGroupExists, PrimaryGroups, IsUser, Methods
<1>10. Knows(proc[w])'
  BY <1>2, <1>3, <1>4, <1>5, <1>6, <1>7 DEF Knows, MethodFits, KnowsNumbers, KnowsUser,
     KnowsMember, KnowsDN, KnowsListed, KnowsUnused, KnowsGroups, Succeeded, Removed, Changing, IsUser
<1>11. QED
  BY <1>8, <1>9, <1>10, Reduced

LEMMA SetsPasswordStep ==
    ASSUME OneWorker, IInv, NEW w \in Workers, SetsPassword(w)
    PROVE  IInv'
<1> DEFINE p == proc[w]
           u == p.uid
<1>1. /\ p \in Methods /\ Knows(p) /\ p.pc = "password" /\ u \in Uids /\ IsUser(u)
      /\ UNCHANGED <<bis, user, group, members, unique>>
  BY DEF IInv, TypeOK, SetsPassword, At, Methods
<1>2. PICK result \in {"ok", "weak"} :
        /\ Becomes(w, Tried(p, result))
        /\ \/ result = "ok" /\ strong' = strong \cup {u}
           \/ result = "weak" /\ strong' = strong
  <2>1. CASE strong' = strong \cup {u} /\ Becomes(w, Tried(p, "ok"))
    BY <2>1
  <2>2. CASE strong' = strong /\ Becomes(w, Tried(p, "weak"))
    BY <2>2
  <2>3. QED
    BY <2>1, <2>2 DEF SetsPassword, Tried
<1> DEFINE q == Tried(p, result)
<1>3. /\ q \in Methods /\ q.pc = "joindn" /\ q.op = p.op /\ q.uid = u
      /\ q.group = p.group /\ q.gid = p.gid /\ q.result = result
  BY <1>1, TriedRecord
<1> HIDE DEF q
<1>4. proc' \in [Workers -> Methods] /\ proc'[w] = q /\ calls' = calls
  BY <1>2, <1>3, Became DEF IInv, q
<1>5. TypeOK'
  BY <1>1, <1>2, <1>4 DEF IInv, TypeOK, IsUser
<1>6. PrimaryGroupExists'
  BY <1>1 DEF IInv, PrimaryGroupExists, PrimaryGroups, IsUser
<1>7. Knows(proc[w])'
  <2>1. u \in strong' \/ result = "weak"
    BY <1>2
  <2>2. QED
    BY <1>1, <1>3, <1>4, <2>1 DEF Knows, MethodFits, KnowsNumbers, KnowsUser,
       KnowsMember, KnowsDN, KnowsListed, KnowsUnused, KnowsGroups, Succeeded, Removed, Changing, IsUser
<1>8. QED
  BY <1>5, <1>6, <1>7, Reduced

LEMMA RemovesEntryStep ==
    ASSUME OneWorker, IInv, NEW w \in Workers, RemovesEntry(w)
    PROVE  IInv'
<1> DEFINE p == proc[w]
           u == p.uid
           result == IF At(w, "undo") THEN "raised" ELSE "ok"
           q == Ended(p, result)
<1>1. /\ p \in Methods /\ Knows(p) /\ p.pc \in {"rmentry", "undo"} /\ u \in Uids
      /\ result \in {"ok", "weak", "used", "raised"}
      /\ p.pc = "undo" => result = "raised"
  BY DEF IInv, TypeOK, RemovesEntry, At, Methods
<1>2. /\ user' = [user EXCEPT ![u] = NoUser] /\ strong' = strong \ {u}
      /\ Becomes(w, q) /\ UNCHANGED <<bis, group, members, unique>>
  BY DEF RemovesEntry, Returns, Ended
<1> HIDE DEF result
<1>3. q \in Methods /\ q.pc = "idle" /\ q.op = p.op /\ q.result = result
  BY <1>1, EndedRecord
<1> HIDE DEF q
<1>4. proc' \in [Workers -> Methods] /\ proc'[w] = q /\ calls' = calls
  BY <1>2, <1>3, Became DEF IInv
<1>5. /\ user' \in [Uids -> [num : Numbers, gid : Numbers] \cup {NoUser}]
      /\ user'[u] = NoUser /\ \A v \in Uids \ {u} : user'[v] = user[v]
  BY <1>1, <1>2 DEF IInv, TypeOK
<1>6. TypeOK'
  BY <1>2, <1>4, <1>5 DEF IInv, TypeOK, IsUser
<1>7. PrimaryGroupExists'
  BY <1>2, <1>5 DEF IInv, PrimaryGroupExists, PrimaryGroups, IsUser, NoUser
<1>8. Knows(proc[w])'
  <2>1. CASE result = "raised"
    BY <1>3, <1>4, <2>1 DEF Knows, MethodFits, KnowsNumbers, KnowsUser, KnowsMember, KnowsDN, KnowsListed,
                            KnowsUnused, KnowsGroups, Succeeded, Removed
  <2>2. CASE p.pc = "rmentry"
    <3>1. q.op = "delUser"
      BY <1>1, <1>3, <2>2 DEF Knows, MethodFits
    <3>2. QED
      BY <1>3, <1>4, <3>1 DEF Knows, MethodFits, KnowsNumbers, KnowsUser, KnowsMember, KnowsDN, KnowsListed,
                              KnowsUnused, KnowsGroups, Succeeded, Removed, Changing
  <2>3. QED
    BY <1>1, <2>1, <2>2
<1>9. QED
  BY <1>6, <1>7, <1>8, Reduced

LEMMA AddsGroupStep ==
    ASSUME OneWorker, IInv, NEW w \in Workers, AddsGroup(w)
    PROVE  IInv'
<1> DEFINE p == proc[w]
           g == p.group
           q == Ended(p, "ok")
<1>1. /\ p \in Methods /\ Knows(p) /\ p.pc = "addgroup" /\ g \in Groups /\ ~IsGroup(g)
      /\ p.gid \in Numbers \cup {NoNumber}
  BY DEF IInv, TypeOK, AddsGroup, At, Methods
<1>2. /\ group' = [group EXCEPT ![g] = p.gid]
      /\ unique' = [unique EXCEPT ![g] = FirstUnique]
      /\ Becomes(w, q) /\ UNCHANGED <<bis, user, strong, members>>
  BY DEF AddsGroup, Returns, Ended
<1>3. q \in Methods /\ q.pc = "idle" /\ q.op = p.op
  BY <1>1, EndedRecord
<1> HIDE DEF q
<1>4. proc' \in [Workers -> Methods] /\ proc'[w] = q /\ calls' = calls
  BY <1>2, <1>3, Became DEF IInv
<1>5. TypeOK'
  BY <1>1, <1>2, <1>4 DEF IInv, TypeOK, IsUser, FirstUnique
<1>6. PrimaryGroupExists'
  <2> SUFFICES ASSUME NEW v \in Uids, user[v].num # NoNumber
               PROVE  \E h \in Groups : group'[h] = user[v].gid
    BY <1>2 DEF PrimaryGroupExists, PrimaryGroups, IsUser
  <2>1. PICK h \in Groups : group[h] = user[v].gid
    BY DEF IInv, PrimaryGroupExists, PrimaryGroups, IsUser
  <2>2. user[v].gid # NoNumber
    BY NoNumberIsNone DEF IInv, TypeOK, NoUser
  <2>3. QED
    BY <1>1, <1>2, <2>1, <2>2 DEF IInv, TypeOK, IsGroup
<1>7. Knows(proc[w])'
  BY <1>1, <1>3, <1>4 DEF Knows, MethodFits, KnowsNumbers, KnowsUser, KnowsMember, KnowsDN, KnowsListed,
                      KnowsUnused, KnowsGroups, Succeeded, Removed, Changing
<1>8. QED
  BY <1>5, <1>6, <1>7, Reduced

LEMMA DeletesGroupStep ==
    ASSUME OneWorker, IInv, NEW w \in Workers, DeletesGroup(w)
    PROVE  IInv'
<1> DEFINE p == proc[w]
           g == p.group
           q == Ended(p, "ok")
<1>1. /\ p \in Methods /\ Knows(p) /\ p.pc = "delete" /\ g \in Groups
  BY DEF IInv, TypeOK, DeletesGroup, At, Methods
<1>2. /\ group' = [group EXCEPT ![g] = NoNumber]
      /\ members' = [members EXCEPT ![g] = {}] /\ unique' = [unique EXCEPT ![g] = {}]
      /\ Becomes(w, q) /\ UNCHANGED <<bis, user, strong>>
  BY DEF DeletesGroup, Returns, Ended
<1>3. q \in Methods /\ q.pc = "idle" /\ q.op = p.op
  BY <1>1, EndedRecord
<1> HIDE DEF q
<1>4. proc' \in [Workers -> Methods] /\ proc'[w] = q /\ calls' = calls
  BY <1>2, <1>3, Became DEF IInv
<1>5. TypeOK'
  BY <1>1, <1>2, <1>4 DEF IInv, TypeOK, IsUser, FirstUnique
<1>6. PrimaryGroupExists'
  <2> SUFFICES ASSUME NEW v \in Uids, user[v].num # NoNumber
               PROVE  \E h \in Groups : group'[h] = user[v].gid
    BY <1>2 DEF PrimaryGroupExists, PrimaryGroups, IsUser
  <2>1. PICK h \in Groups : group[h] = user[v].gid
    BY DEF IInv, PrimaryGroupExists, PrimaryGroups, IsUser
  <2>2. h # g
    BY <1>1, <2>1 DEF Knows, KnowsUnused
  <2>3. QED
    BY <1>1, <1>2, <2>1, <2>2 DEF IInv, TypeOK
<1>7. Knows(proc[w])'
  BY <1>1, <1>3, <1>4 DEF Knows, MethodFits, KnowsNumbers, KnowsUser, KnowsMember, KnowsDN, KnowsListed,
                      KnowsUnused, KnowsGroups, Succeeded, Removed, Changing
<1>8. QED
  BY <1>5, <1>6, <1>7, Reduced

LEMMA SetsPrimaryStep ==
    ASSUME OneWorker, IInv, NEW w \in Workers, SetsPrimary(w)
    PROVE  IInv'
<1> DEFINE p == proc[w]
           u == p.uid
           q == Ended(p, "ok")
<1>1. /\ p \in Methods /\ Knows(p) /\ p.pc = "setgid" /\ u \in Uids /\ IsUser(u)
      /\ p.group \in Groups
  BY DEF IInv, TypeOK, SetsPrimary, At, Methods
<1>2. /\ user' = [user EXCEPT ![u] = [user[u] EXCEPT !.gid = p.gid]]
      /\ Becomes(w, q) /\ UNCHANGED <<bis, strong, group, members, unique>>
  BY DEF SetsPrimary, Returns, Ended
<1>3. /\ p.op = "changeUserPrimaryGroup" /\ p.gid \in Numbers
      /\ group[p.group] = p.gid /\ IsListed(u, p.group)
  BY <1>1 DEF Knows, MethodFits, KnowsNumbers, KnowsMember, KnowsDN, KnowsListed, Changing
<1>4. q \in Methods /\ q.pc = "idle" /\ q.op = p.op /\ q.uid = u /\ q.group = p.group
  BY <1>1, EndedRecord
<1> HIDE DEF q
<1>5. proc' \in [Workers -> Methods] /\ proc'[w] = q /\ calls' = calls
  BY <1>2, <1>4, Became DEF IInv
<1> DEFINE entry == [user[u] EXCEPT !.gid = p.gid]
<1>6. entry \in [num : Numbers, gid : Numbers] /\ entry.gid = p.gid
  <2>1. user[u] \in [num : Numbers, gid : Numbers]
    BY <1>1 DEF IInv, TypeOK, IsUser, NoUser
  <2>2. QED
    BY <1>3, <2>1
<1> HIDE DEF entry
<1>7. /\ user' \in [Uids -> [num : Numbers, gid : Numbers] \cup {NoUser}]
      /\ user'[u] = entry /\ \A v \in Uids \ {u} : user'[v] = user[v]
  BY <1>1, <1>2, <1>6 DEF IInv, TypeOK, entry
<1>8. user'[u].num # NoNumber
  BY <1>6, <1>7, NoNumberIsNone
<1>9. TypeOK'
  BY <1>2, <1>5, <1>7, <1>8 DEF IInv, TypeOK, IsUser
<1>10. PrimaryGroupExists'
  BY <1>1, <1>2, <1>3, <1>6, <1>7 DEF IInv, PrimaryGroupExists, PrimaryGroups, IsUser
<1>11. Knows(proc[w])'
  BY <1>2, <1>3, <1>4, <1>5, <1>6, <1>7, <1>8, NoNumberIsNone DEF Knows, MethodFits,
     KnowsNumbers, KnowsUser, KnowsMember, KnowsDN, KnowsListed, KnowsUnused, KnowsGroups, Succeeded, Removed,
     Changing, IsUser, IsGroup, IsListed
<1>12. QED
  BY <1>9, <1>10, <1>11, Reduced

LEMMA JoinsStep ==
    ASSUME OneWorker, IInv, NEW w \in Workers, Joins(w)
    PROVE  IInv'
<1> DEFINE p == proc[w]
<1>0. PICK u \in Uids, g \in Groups : u = p.uid /\ g = p.group
  BY DEF IInv, TypeOK, Methods
<1>1. /\ p \in Methods /\ Knows(p) /\ p.pc = "join" /\ u \in Uids /\ g \in Groups
      /\ p.op \in {"addUser", "changeUserPrimaryGroup", "addUserToGroup"}
  BY <1>0 DEF IInv, TypeOK, Joins, At, Methods, Knows, MethodFits, Changing
<1>2. /\ \/ Already(p, g) /\ UNCHANGED <<members, unique>>
         \/ /\ members' = [members EXCEPT ![g] = @ \cup {u}]
            /\ unique' = [unique EXCEPT ![g] = IF bis THEN @ \cup {p.dn} ELSE @]
      /\ UNCHANGED <<bis, user, strong, group>>
  BY <1>0 DEF Joins
<1>3. PICK q \in Methods :
        /\ Becomes(w, q) /\ q.op = p.op /\ q.uid = u /\ q.group = g /\ q.gid = p.gid
        /\ \/ p.op = "addUser" /\ q.pc = "home" /\ q.result = p.result
           \/ p.op = "changeUserPrimaryGroup" /\ q.pc = "setgid"
           \/ p.op = "addUserToGroup" /\ q.pc = "idle"
  <2>1. CASE p.op = "addUser"
    <3>1. Becomes(w, Moved(p, "home"))
      BY <2>1 DEF Joins, Joined, Goes, Moved
    <3>2. QED
      BY <1>0, <1>1, <2>1, <3>1, MovedRecord
  <2>2. CASE p.op = "changeUserPrimaryGroup"
    <3>1. Becomes(w, Moved(p, "setgid"))
      BY <2>2 DEF Joins, Joined, Goes, Moved
    <3>2. QED
      BY <1>0, <1>1, <2>2, <3>1, MovedRecord
  <2>3. CASE p.op = "addUserToGroup"
    <3>1. Becomes(w, Ended(p, "ok"))
      BY <2>3 DEF Joins, Joined, Returns, Ended
    <3>2. QED
      BY <1>0, <1>1, <2>3, <3>1, EndedRecord
  <2>4. QED
    BY <1>1, <2>1, <2>2, <2>3
<1>4. proc' \in [Workers -> Methods] /\ proc'[w] = q /\ calls' = calls
  BY <1>3, Became DEF IInv
<1>5. TypeOK'
  <2>1. p.dn \in Uids \cup {NoDN}
    BY <1>1 DEF Methods
  <2>2. members' \in [Groups -> SUBSET Uids] /\ unique' \in [Groups -> SUBSET (Uids \cup {NoDN})]
    BY <1>1, <1>2, <2>1 DEF IInv, TypeOK
  <2>3. QED
    BY <1>1, <1>2, <1>4, <2>2 DEF IInv, TypeOK, IsUser
<1>6. PrimaryGroupExists'
  BY <1>2 DEF IInv, PrimaryGroupExists, PrimaryGroups, IsUser
<1>7. Knows(proc[w])'
  <2>1. p.op \in Changing => p.dn = u
    BY <1>0, <1>1 DEF Knows, KnowsMember, KnowsDN, KnowsUser, DN, Changing
  <2>2. p.op \in Changing => IsListed(u, g)'
    BY <1>0, <1>1, <1>2, <2>1 DEF IInv, TypeOK, Already, IsListed
  <2>3. KnowsMember(proc[w])' /\ Succeeded(proc[w])'
    BY <1>1, <1>3, <1>4, <2>2 DEF KnowsMember, KnowsDN, KnowsListed, Succeeded, Changing
  <2>4. /\ MethodFits(proc[w])' /\ KnowsNumbers(proc[w])' /\ KnowsUser(proc[w])'
        /\ KnowsUnused(proc[w])' /\ KnowsGroups(proc[w])' /\ Removed(proc[w])'
    BY <1>0, <1>1, <1>2, <1>3, <1>4 DEF Knows, MethodFits, KnowsNumbers, KnowsUser,
                      KnowsUnused, KnowsGroups, Removed, Changing, IsUser, IsGroup
  <2>5. QED
    BY <2>3, <2>4 DEF Knows
<1>8. QED
  BY <1>5, <1>6, <1>7, Reduced

LEMMA LeavesStep ==
    ASSUME OneWorker, IInv, NEW w \in Workers, Leaves(w)
    PROVE  IInv'
<1> DEFINE p == proc[w]
<1>0. PICK u \in Uids : u = p.uid
  BY DEF IInv, TypeOK, Methods
<1>1. /\ p \in Methods /\ Knows(p) /\ p.pc = "leave" /\ u \in Uids /\ p.dn = DN(u)
      /\ p.op \in {"delUserFromGroup", "delUserFromAllGroups", "changeUserPrimaryGroup"}
      /\ p.leaves \in SUBSET Groups /\ UNCHANGED <<bis, user, strong, group>>
  BY <1>0 DEF IInv, TypeOK, Leaves, At, Methods, Knows, MethodFits, KnowsMember, KnowsDN
<1>2. PICK g \in p.leaves :
        /\ \/ ~Removable(p, g) /\ UNCHANGED <<members, unique>>
           \/ /\ members' = [members EXCEPT ![g] = @ \ {u}]
              /\ unique' = [unique EXCEPT ![g] = IF bis THEN @ \ {p.dn} ELSE @]
        /\ Becomes(w, [p EXCEPT !.pc = "leavedn", !.leaves = @ \ {g}])
  BY <1>0 DEF Leaves
<1> DEFINE leaves == p.leaves \ {g}
           q == Leaving(p, leaves)
<1>3. leaves \in SUBSET Groups /\ g \in Groups
  BY <1>1
<1>4. [p EXCEPT !.pc = "leavedn", !.leaves = @ \ {g}] = q
  BY <1>1 DEF Methods, Leaving
<1>5. Becomes(w, q)
  BY <1>2, <1>4
<1> HIDE DEF leaves
<1>6. /\ q \in Methods /\ q.pc = "leavedn" /\ q.op = p.op /\ q.uid = u
      /\ q.group = p.group /\ q.gid = p.gid /\ q.leaves = leaves
  BY <1>0, <1>1, <1>3, LeavingRecord
<1> HIDE DEF q
<1>7. proc' \in [Workers -> Methods] /\ proc'[w] = q /\ calls' = calls
  BY <1>5, <1>6, Became DEF IInv
<1>8. members' \in [Groups -> SUBSET Uids] /\ unique' \in [Groups -> SUBSET (Uids \cup {NoDN})]
  BY <1>2, <1>3 DEF IInv, TypeOK
<1>9. TypeOK'
  BY <1>1, <1>7, <1>8 DEF IInv, TypeOK, IsUser
<1>10. PrimaryGroupExists'
  BY <1>1 DEF IInv, PrimaryGroupExists, PrimaryGroups, IsUser
<1>11. ASSUME NEW h \in Groups, IsMember(u, h)'  PROVE IsMember(u, h) /\ h # g
  <2>1. members'[h] \subseteq members[h] /\ unique'[h] \subseteq unique[h]
    BY <1>2, <1>3 DEF IInv, TypeOK
  <2>2. DN(u)' = DN(u)
    BY <1>1 DEF DN, IsUser
  <2>3. IsMember(u, h)
    BY <1>1, <1>11, <2>1, <2>2 DEF IsMember
  <2>4. ~IsMember(u, g)'
    BY <1>0, <1>1, <1>2, <1>3, <2>2 DEF IsMember, Removable, IInv, TypeOK
  <2>5. QED
    BY <1>11, <2>3, <2>4
<1>12. p.op = "delUserFromAllGroups" => \A h \in Groups : IsMember(u, h)' => h \in leaves
  BY <1>0, <1>1, <1>11 DEF Knows, KnowsGroups, leaves
<1>13. Knows(proc[w])'
  BY <1>0, <1>1, <1>6, <1>7, <1>12 DEF Knows, MethodFits, KnowsNumbers, KnowsUser, KnowsMember,
     KnowsDN, KnowsListed, KnowsUnused, KnowsGroups, Succeeded, Removed, Changing, IsUser,
     IsGroup
<1>14. QED
  BY <1>9, <1>10, <1>13, Reduced

LEMMA LeftAllStep ==
    ASSUME OneWorker, IInv, NEW w \in Workers, LeftAll(w)
    PROVE  IInv'
<1> DEFINE p == proc[w]
           u == p.uid
<1>1. /\ p \in Methods /\ Knows(p) /\ p.pc = "leavedn" /\ p.leaves = {}
      /\ p.op \in {"delUserFromGroup", "delUserFromAllGroups", "changeUserPrimaryGroup"}
      /\ UNCHANGED directory
  BY DEF IInv, TypeOK, LeftAll, At, Knows, MethodFits
<1>2. CASE p.op = "changeUserPrimaryGroup" /\ Goes(w, "joindn")
  <2> DEFINE q == Moved(p, "joindn")
  <2>1. /\ q \in Methods /\ q.pc = "joindn" /\ q.op = p.op /\ q.group = p.group
        /\ q.gid = p.gid /\ q.uid = u
    BY <1>1, MovedRecord
  <2> HIDE DEF q
  <2>2. Knows(q)
    BY <1>1, <1>2, <2>1 DEF Knows, MethodFits, KnowsNumbers, KnowsUser, KnowsMember, KnowsDN,
       KnowsListed, KnowsUnused, KnowsGroups, Succeeded, Removed, Changing
  <2>3. QED
    BY <1>1, <1>2, <2>1, <2>2, ReadingStep DEF Goes, Moved, q
<1>3. CASE p.op # "changeUserPrimaryGroup" /\ Returns(w, "ok")
  <2> DEFINE q == Ended(p, "ok")
  <2>1. q \in Methods /\ q.pc = "idle" /\ q.op = p.op /\ q.uid = u
    BY <1>1, EndedRecord
  <2> HIDE DEF q
  <2>2. Removed(q)
    BY <1>1, <2>1 DEF Knows, KnowsGroups, Removed
  <2>3. Knows(q)
    BY <1>1, <1>3, <2>1, <2>2 DEF Knows, MethodFits, KnowsNumbers, KnowsUser,
       KnowsMember, KnowsDN, KnowsListed, KnowsUnused, KnowsGroups, Succeeded, Changing
  <2>4. QED
    BY <1>1, <1>3, <2>1, <2>3, ReadingStep DEF Returns, Ended, q
<1>4. QED
  BY <1>2, <1>3 DEF LeftAll, Left

LEMMA FindsDNStep ==
    ASSUME OneWorker, IInv, NEW w \in Workers, NEW to \in {"join", "leave"},
           FindsDN(w, IF to = "join" THEN "joindn" ELSE "leavedn", to)
    PROVE  IInv'
<1> DEFINE p == proc[w]
           dn == DN(p.uid)
           q == Found(p, to, dn)
<1>1. /\ p \in Methods /\ Knows(p) /\ dn \in Uids \cup {NoDN}
      /\ p.pc = IF to = "join" THEN "joindn" ELSE "leavedn"
  BY DEF IInv, TypeOK, FindsDN, At, Methods, DN
<1>2. Becomes(w, q) /\ UNCHANGED directory
  BY DEF FindsDN, Found
<1> HIDE DEF dn
<1>3. /\ q \in Methods
      /\ q.pc = to /\ q.op = p.op /\ q.uid = p.uid /\ q.group = p.group
      /\ q.gid = p.gid /\ q.dn = dn /\ q.leaves = p.leaves /\ q.result = p.result
  BY <1>1, FoundRecord
<1> HIDE DEF q
<1>4. KnowsMember(q)
  BY <1>3 DEF KnowsMember, KnowsDN, KnowsListed, dn
<1>5. Knows(q)
  BY <1>1, <1>3, <1>4 DEF Knows, MethodFits, KnowsNumbers, KnowsUser, KnowsUnused,
                          KnowsGroups, Succeeded, Removed, Changing
<1>6. QED
  BY <1>2, <1>3, <1>5, ReadingStep
-----------------------------------------------------------------------------
\* Each step keeps the invariant, one lemma for each action.
LEMMA NextInvariant ==
    ASSUME OneWorker, IInv, [Next]_vars
    PROVE  IInv'
<1>1. CASE UNCHANGED vars
  BY <1>1 DEF vars, directory, IInv, TypeOK, PrimaryGroupExists, PrimaryGroups, IsUser,
     IsGroup, Knows, MethodFits, KnowsNumbers, KnowsUser, KnowsMember, KnowsDN, KnowsListed, KnowsUnused,
     KnowsGroups, Succeeded, Removed, IsListed, IsMember, DN
<1>2. CASE Next
  <2> SUFFICES ASSUME NEW w \in Workers,
                      Call(w) \/ AddUser(w) \/ DelUser(w) \/ AddGroup(w) \/ DelGroup(w)
                      \/ ChangeGroups(w) \/ Raises(w)
               PROVE  IInv'
    BY <1>2 DEF Next
  <2>1. CASE Call(w)
    BY <2>1, CallStep
  <2>2. CASE AddUser(w)
    BY <2>2, ChoosesNumberStep, ReadsGIDStep, AddsEntryStep, SetsPasswordStep, FindsDNStep,
       JoinsStep, MakesHomeStep DEF AddUser
  <2>3. CASE DelUser(w)
    BY <2>3, RemovesHomeStep, RemovesEntryStep DEF DelUser
  <2>4. CASE AddGroup(w)
    BY <2>4, ReadsMaxGIDStep, AddsGroupStep DEF AddGroup
  <2>5. CASE DelGroup(w)
    BY <2>5, ChecksGroupStep, DeletesGroupStep DEF DelGroup
  <2>6. CASE ChangeGroups(w)
    BY <2>6, SearchesGroupsStep, FindsPrimaryStep, LeftAllStep, FindsDNStep, LeavesStep,
       SetsPrimaryStep
       DEF ChangeGroups
  <2>7. CASE Raises(w)
    BY <2>7, RaisesStep
  <2>8. QED
    BY <2>1, <2>2, <2>3, <2>4, <2>5, <2>6, <2>7
<1>3. QED
  BY <1>1, <1>2

(* The inductive invariant: what the properties say, and what a method     *)
(* knows between its requests.                                             *)
THEOREM Invariance == OneWorker /\ Spec => []IInv
<1>1. OneWorker /\ IInv /\ [Next]_vars => OneWorker' /\ IInv'
  BY NextInvariant DEF OneWorker
<1>2. QED
  BY <1>1, InitInvariant, PTL DEF Spec

(* Methods that run one at a time keep the primary group of every user,    *)
(* whatever fails on the way.                                              *)
THEOREM PrimaryGroupsKept == OneWorker /\ Spec => []PrimaryGroupExists
<1>1. IInv => PrimaryGroupExists
  BY DEF IInv
<1>2. QED
  BY <1>1, Invariance, PTL

(* The answer of addUser and of changeUserPrimaryGroup is the truth about  *)
(* the directory until the next call.                                      *)
THEOREM SuccessKept == OneWorker /\ Spec => []SuccessMeansPrimary
<1>1. IInv => SuccessMeansPrimary
  BY DEF IInv, Knows, Succeeded, SuccessMeansPrimary, Did, At
<1>2. QED
  BY <1>1, Invariance, PTL

(* So is that of delUserFromAllGroups.                                     *)
THEOREM RemovalKept == OneWorker /\ Spec => []RemovedFromAll
<1>1. IInv => RemovedFromAll
  BY DEF IInv, Knows, Removed, RemovedFromAll, Did, At
<1>2. QED
  BY <1>1, Invariance, PTL

(* Type correctness, which AddsEntry owes to what its method knows.        *)
THEOREM TypeCorrect == OneWorker /\ Spec => []TypeOK
<1>1. IInv => TypeOK
  BY DEF IInv
<1>2. QED
  BY <1>1, Invariance, PTL
-----------------------------------------------------------------------------
(* A number that was chosen is still free when the entry is written.       *)
KnowsFree(p) ==
    /\ p.op = "addUser" /\ p.pc \in {"gid", "entry"} => \A u \in Uids : user[u].num # p.num
    /\ p.pc = "addgroup" => \A g \in Groups : group[g] # p.gid

UInv == UniqueNumbers /\ \A w \in Workers : KnowsFree(proc[w])
(* A step that leaves numbers alone and does not choose one.               *)
LEMMA KeepingUnique ==
    ASSUME OneWorker, UInv, NEW w \in Workers, UNCHANGED <<user, group>>,
           proc'[w].op = "addUser" => proc'[w].pc \notin {"gid", "entry"},
           proc'[w].pc # "addgroup"
    PROVE  UInv'
<1>1. \A v \in Workers : v = w
  BY DEF OneWorker
<1>2. QED
  BY <1>1 DEF UInv, UniqueNumbers, KnowsFree, IsUser, IsGroup

LEMMA NextUnique ==
    ASSUME OneWorker, IInv, UInv, NEW w \in Workers,
           Call(w) \/ AddUser(w) \/ DelUser(w) \/ AddGroup(w) \/ DelGroup(w)
           \/ ChangeGroups(w) \/ Raises(w)
    PROVE  UInv'
<1>1. proc[w] \in Methods /\ MethodFits(proc[w]) /\ KnowsFree(proc[w]) /\ TypeOK
  BY DEF IInv, TypeOK, Knows, UInv
<1>2. ASSUME NEW result, Returns(w, result), UNCHANGED <<user, group>>
      PROVE  UInv'
  BY <1>1, <1>2, KeepingUnique DEF Returns, Becomes, TypeOK, Methods
<1>3. ASSUME NEW pc \in {"joindn", "home", "setgid", "undo", "rmentry", "delete"},
             Goes(w, pc), UNCHANGED <<user, group>>
      PROVE  UInv'
  BY <1>1, <1>3, KeepingUnique DEF Goes, Becomes, TypeOK, Methods
<1>4. CASE Call(w)
  <2>1. \A op, pc, u, g :
           /\ Called(op, pc, u, g).op = op
           /\ Called(op, pc, u, g).pc = pc
     BY DEF Called, Idle
  <2>2. PICK op, pc, u, g : /\ Begins(w, op, pc, u, g)
                            /\ pc # "addgroup" /\ pc # "entry"
                            /\ op = "addUser" => pc = "number"
     BY <1>4 DEF Call
  <2>3. QED
    BY <1>1, <2>1, <2>2, KeepingUnique DEF Begins, directory, TypeOK
<1>5. CASE ChoosesNumber(w)
  <2>1. CASE Becomes(w, [proc[w] EXCEPT !.pc = "gid", !.num = FreeUID])
    BY <1>1, <1>5, <2>1, FreeUIDIsFree DEF ChoosesNumber, Becomes, directory, At,
       OneWorker, TypeOK, Methods, UInv, UniqueNumbers, KnowsFree, IsUser, IsGroup
  <2>2. QED
    BY <1>2, <1>5, <2>1 DEF ChoosesNumber, directory
<1>6. CASE ReadsGID(w)
  BY <1>1, <1>6 DEF ReadsGID, At, Becomes, Methods, OneWorker, TypeOK, UInv, UniqueNumbers,
                    KnowsFree, directory, IsUser, IsGroup
<1>7. CASE AddsEntry(w)
  BY <1>1, <1>7 DEF AddsEntry, At, Becomes, Goes, Methods, MethodFits, OneWorker, TypeOK,
                    UInv, UniqueNumbers, KnowsFree, IsUser, IsGroup
<1>8. CASE SetsPassword(w)
  <2>1. ASSUME NEW result, Becomes(w, [proc[w] EXCEPT !.pc = "joindn", !.result = result]),
               UNCHANGED <<user, group>>
        PROVE  UInv'
    BY <1>1, <2>1, KeepingUnique DEF Becomes, TypeOK, Methods
  <2>2. QED
    BY <1>8, <2>1 DEF SetsPassword
<1>9. CASE Joins(w)
  BY <1>2, <1>3, <1>9 DEF Joins, Joined
<1>10. CASE MakesHome(w)
  BY <1>2, <1>3, <1>10 DEF MakesHome, directory
<1>11. CASE RemovesHome(w)
  BY <1>2, <1>3, <1>11 DEF RemovesHome, directory
<1>12. CASE RemovesEntry(w)
  BY <1>1, <1>12 DEF RemovesEntry, Becomes, Returns, Methods, OneWorker, TypeOK,
     UInv, UniqueNumbers, KnowsFree, NoUser, IsUser, IsGroup
<1>13. CASE ReadsMaxGID(w)
  BY <1>1, <1>13, NextGIDIsFree
     DEF ReadsMaxGID, At, Becomes, Methods, MethodFits, OneWorker, TypeOK, UInv, UniqueNumbers, KnowsFree, directory, IsUser, IsGroup
<1>14. CASE AddsGroup(w)
  BY <1>1, <1>14 DEF AddsGroup, At, Becomes, Returns, Methods, MethodFits, OneWorker,
     TypeOK, UInv, UniqueNumbers, KnowsFree, IsUser, IsGroup
<1>15. CASE ChecksGroup(w)
  BY <1>2, <1>3, <1>15 DEF ChecksGroup, directory
<1>16. CASE DeletesGroup(w)
  BY <1>1, <1>16 DEF DeletesGroup, Becomes, Returns, Methods, OneWorker, TypeOK,
     UInv, UniqueNumbers, KnowsFree, IsUser, IsGroup
<1>17. CASE SearchesGroups(w)
  BY <1>1, <1>17, KeepingUnique DEF SearchesGroups, Becomes, TypeOK, Methods, directory
<1>18. CASE FindsPrimary(w)
  BY <1>1, <1>18, KeepingUnique DEF FindsPrimary, Becomes, TypeOK, Methods, directory
<1>19. CASE Leaves(w)
  BY <1>1, <1>19, KeepingUnique DEF Leaves, Becomes, TypeOK, Methods
<1>20. CASE SetsPrimary(w)
  BY <1>1, <1>20 DEF SetsPrimary, Becomes, Returns, Methods, OneWorker, TypeOK,
     UInv, UniqueNumbers, KnowsFree, IsUser, IsGroup
<1>21. CASE Raises(w)
  BY <1>2, <1>21 DEF Raises, directory
<1>22. CASE LeftAll(w)
  BY <1>2, <1>3, <1>22 DEF LeftAll, Left, directory
<1>23. ASSUME NEW from, NEW to \in {"join", "leave"}, FindsDN(w, from, to)
       PROVE  UInv'
  BY <1>1, <1>23, KeepingUnique DEF FindsDN, Becomes, TypeOK, Methods, directory
<1>24. QED
  BY <1>4, <1>5, <1>6, <1>7, <1>8, <1>9, <1>10, <1>11, <1>12, <1>13, <1>14, <1>15,
     <1>16, <1>17, <1>18, <1>19, <1>20, <1>21, <1>22, <1>23
     DEF AddUser, DelUser, AddGroup, DelGroup, ChangeGroups

(* No two users and no two groups have the same number, when methods run   *)
(* one at a time, whatever fails and whatever was removed before.          *)
THEOREM NumbersKept == OneWorker /\ Spec => []UniqueNumbers
<1>1. Init => UInv
  <2> SUFFICES ASSUME Init PROVE UInv
    OBVIOUS
  <2>1. UniqueNumbers
    BY DEF Init, UniqueNumbers, IsUser, IsGroup, NoUser
  <2>2. \A w \in Workers : KnowsFree(proc[w])
    BY IdleIsMethod DEF Init, KnowsFree
  <2>3. QED
    BY <2>1, <2>2 DEF UInv
<1>2. OneWorker /\ IInv /\ UInv /\ [Next]_vars => OneWorker' /\ UInv'
  <2>1. UInv /\ UNCHANGED vars => UInv'
    BY DEF vars, directory, UInv, UniqueNumbers, KnowsFree, IsUser, IsGroup
  <2>2. QED
    BY <2>1, NextUnique DEF Next, OneWorker
<1>3. UInv => UniqueNumbers
  BY DEF UInv
<1>4. QED
  BY <1>1, <1>2, <1>3, Invariance, PTL DEF Spec
=============================================================================
